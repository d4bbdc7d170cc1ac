------------------------- MODULE QueueManagerProofs -------------------------
(***************************************************************************)
(* Proofs about QueueManager, for every set of pairs, every pool and every *)
(* way a handler may end: types and exclusion, then what the queues        *)
(* promise to those who push pairs (no pair that is owed a handler is      *)
(* lost, every step is a step of PairDelivery or invisible to it).         *)
(***************************************************************************)
EXTENDS QueueManager, TLAPS

USE DEF queueVars, workerVars, rowVars, errorVars, engineVars, budget

-----------------------------------------------------------------------------
(* Types                                                                   *)

\* The head and the tail of a sequence that is not empty.
LEMMA HeadTail ==
  ASSUME NEW S, NEW s \in Seq(S), s # <<>>
  PROVE  Head(s) \in S /\ Tail(s) \in Seq(S)
  OBVIOUS

\* push() keeps the types: a pair goes to a queue of its Home.
LEMMA PushType ==
  ASSUME TypeOK, NEW p \in Pairs, Push(p)
  PROVE  /\ queue' \in [Queues -> Seq(Pairs)]
         /\ launch' \in BOOLEAN
         /\ goesOn' \in [Threads -> BOOLEAN]
         /\ hung' \subseteq Threads
         /\ enabled' = enabled /\ connected' = connected
<1>0. Home[p] \subseteq Queues
  BY ConstantsAssumption DEF ConstantsAssumption
<1>1. PICK q \in Queues : \E deleted \in {FALSE, (p \in Deletable)} : Put(p, q, deleted)
  BY <1>0, Zenon DEF Push
<1>2. queue' \in [Queues -> Seq(Pairs)]
  BY <1>1 DEF TypeOK, Put
<1>3. launch' \in BOOLEAN /\ goesOn' \in [Threads -> BOOLEAN] /\ hung' \subseteq Threads
  BY <1>1 DEF TypeOK, Put, Quit
<1> QED
  BY <1>2, <1>3 DEF Push

\* A getter hands out an element of its queue.
LEMMA PopType ==
  ASSUME TypeOK, NEW t \in Threads, Pop(t)
  PROVE  /\ queue' \in [Queues -> Seq(Pairs)]
         /\ item' \in [Threads -> Pairs \cup {NoPair}]
         /\ phase' \in [Threads -> Phases]
<1> DEFINE q == from[t]
<1>1. q \in Queues /\ queue[q] \in Seq(Pairs)
  BY DEF TypeOK
<1>2. CASE queue[q] = <<>>
  BY <1>2 DEF TypeOK, Pop, Goto, Phases
<1>3. CASE queue[q] # <<>>
  <2>1. Head(queue[q]) \in Pairs /\ Tail(queue[q]) \in Seq(Pairs)
    BY <1>1, <1>3, HeadTail
  <2>2. item' = [item EXCEPT ![t] = Head(queue[q])]
    BY <1>3 DEF Pop
  <2>3. queue' = [queue EXCEPT ![q] = Tail(queue[q])]
    BY <1>3, <1>1 DEF Pop, TypeOK
  <2>4. phase' = [phase EXCEPT ![t] = "check"]
    BY <1>3 DEF Pop, Goto
  <2> QED
    BY <1>1, <2>1, <2>2, <2>3, <2>4 DEF TypeOK, Phases
<1> QED
  BY <1>2, <1>3

\* A thread that has popped an item and not yet left it holds a pair.
HasItem ==
    \A t \in Threads :
        phase[t] \in {"check", "recheck", "acquire"} \cup Working => item[t] \in Pairs

\* One push, or one toggle, less.
LEMMA Spend ==
  ASSUME TypeOK
  PROVE  /\ pushes > 0 => pushes - 1 \in 0..MaxPush
         /\ toggles > 0 => toggles - 1 \in 0..MaxToggle
  BY ConstantsAssumption DEF ConstantsAssumption, TypeOK

\* increase_error keeps the types: error_count saturates above the threshold.
LEMMA IncreaseErrorType ==
  ASSUME TypeOK, NEW t \in Threads, item[t] \in Pairs, NEW incr \in Nat,
         IncreaseError(t, incr)
  PROVE  /\ errors' \in [Pairs -> 0..(MaxErrors + 1)]
         /\ fate' \in [Threads -> {"live", "void", "busy"}]
         /\ phase' \in [Threads -> Phases]
         /\ owed' \subseteq Pairs
<1> DEFINE p == item[t]
           count == IF errors[p] + incr > MaxErrors THEN MaxErrors + 1 ELSE errors[p] + incr
<1>1. count \in 0..(MaxErrors + 1)
  BY ConstantsAssumption DEF ConstantsAssumption, TypeOK
<1>2. errors' = [errors EXCEPT ![p] = count]
  BY DEF IncreaseError
<1>3. errors' \in [Pairs -> 0..(MaxErrors + 1)]
  <2> HIDE DEF count
  <2> QED
    BY <1>1, <1>2 DEF TypeOK
<1>4. fate' \in [Threads -> {"live", "void", "busy"}]
  BY DEF IncreaseError, TypeOK
<1>5. phase' \in [Threads -> Phases] /\ owed' \subseteq Pairs
  BY DEF IncreaseError, TypeOK, Goto, Phases
<1> QED
  BY <1>3, <1>4, <1>5

\* Engine.suspend only touches the flags of the queue, of its threads and of
\* the engine.
LEMMA SuspendEngineType ==
  ASSUME TypeOK, SuspendEngine
  PROVE  /\ enabled' \in BOOLEAN /\ paused' \in BOOLEAN
         /\ pause' \in [Threads -> BOOLEAN]
         /\ queue' = queue /\ connected' = connected /\ launch' = launch
         /\ hung' \subseteq Threads
         /\ offline' = offline /\ scan' = scan /\ stopping' = stopping
  BY DEF SuspendEngine, SuspendQueue, TypeOK

\* The threads that stop() is sent to.
LEMMA ProcessorsType == \A S \in SUBSET Pairs : ProcessorsOn(S) \subseteq Threads
  BY DEF ProcessorsOn, Threads, Queues, FileQueues

\* Every step keeps the types, given that working threads hold a pair.
LEMMA TypeStep == TypeOK /\ HasItem /\ [Next]_vars => TypeOK'
<1> SUFFICES ASSUME TypeOK, HasItem, [Next]_vars PROVE TypeOK'
  OBVIOUS
<1> USE DEF TypeOK, Phases
<1>1. CASE InitProcessors
  BY <1>1 DEF InitProcessors
<1>2. CASE ShutdownProcessors
  BY <1>2, Spend DEF ShutdownProcessors
<1>3. CASE LaunchProcessors
  <2>1. phase' \in [Threads -> Phases]
    BY <1>3 DEF LaunchProcessors
  <2> QED
    BY <1>3, <2>1 DEF LaunchProcessors
<1>4. CASE ThreadFinished
  BY <1>4 DEF ThreadFinished, ReapThreads, Finished
<1>5. CASE OnNewError
  BY <1>5 DEF OnNewError
<1>6. CASE OnErrorTimerIdle
  BY <1>6 DEF OnErrorTimerIdle, StopTimer
<1>7. ASSUME NEW p \in Pairs, OnErrorTimer(p)
      PROVE  TypeOK'
  BY <1>7, PushType DEF OnErrorTimer
<1>8. ASSUME NEW p \in Pairs, PushPair(p)
      PROVE  TypeOK'
  BY <1>8, PushType, Spend, ConstantsAssumption DEF ConstantsAssumption, PushPair
<1>9. ASSUME NEW p \in Pairs, RetryPair(p)
      PROVE  TypeOK'
  BY <1>9, PushType, Spend, ConstantsAssumption DEF ConstantsAssumption, RetryPair
<1>10. CASE Suspend
  BY <1>10, Spend, SuspendEngineType DEF Suspend
<1>11. CASE Resume
  BY <1>11 DEF Resume, ResumeQueue, Alive
<1>12. CASE SetOffline
  BY <1>12, Spend DEF SetOffline, SuspendQueue
<1>13. CASE SetOnline
  BY <1>13 DEF SetOnline, ResumeQueue
<1>14. CASE ScanBegin
  <2>1. goesOn' \in [Threads -> BOOLEAN] /\ enabled' \in BOOLEAN /\ stopping' \subseteq Threads
    BY <1>14, ProcessorsType DEF ScanBegin, StopWorkers
  <2> QED
    BY <1>14, <2>1, Spend DEF ScanBegin, StopWorkers
<1>15. CASE ScanEnd
  BY <1>15 DEF ScanEnd, ResumeQueue
<1>16. ASSUME NEW t \in Threads, StartRun(t)
      PROVE  TypeOK'
  BY ZenonT(60), <1>16 DEF StartRun, Goto, First
<1>17. ASSUME NEW t \in Threads, ChooseFile(t)
      PROVE  TypeOK'
  BY ZenonT(60), <1>17 DEF ChooseFile, Goto, Queues, FileQueues
<1>18. ASSUME NEW t \in Threads, Pop(t)
      PROVE  TypeOK'
  BY <1>18, PopType DEF Pop
<1>19. ASSUME NEW t \in Threads, CheckOnError(t)
      PROVE  TypeOK'
  BY ZenonT(60), <1>19 DEF CheckOnError, Goto
<1>20. ASSUME NEW t \in Threads, Acquire(t)
      PROVE  TypeOK'
  BY <1>20 DEF Acquire, AcquireIf, Goto
<1>21. ASSUME NEW t \in Threads, DropItem(t)
      PROVE  TypeOK'
  BY ZenonT(60), <1>21 DEF DropItem, Forget, Goto, First
<1>22. ASSUME NEW t \in Threads, PostponeItem(t)
      PROVE  TypeOK'
  BY <1>22 DEF PostponeItem, InUse, Goto
<1>23. ASSUME NEW t \in Threads, Synchronize(t)
      PROVE  TypeOK'
  <2>1. 0 \in 0..(MaxErrors + 1)
    BY ConstantsAssumption DEF ConstantsAssumption
  <2> QED
    BY <1>23, <2>1 DEF Synchronize, Goto
<1>24. ASSUME NEW t \in Threads, PushErrorCheck(t)
      PROVE  TypeOK'
  BY ZenonT(60), <1>24 DEF PushErrorCheck, LeaveError, Goto, First
<1>25. ASSUME NEW t \in Threads, PushErrorInsert(t)
      PROVE  TypeOK'
  BY ZenonT(60), <1>25 DEF PushErrorInsert, LeaveError, Goto, First
<1>26. ASSUME NEW t \in Threads, Release(t)
      PROVE  TypeOK'
  BY ZenonT(60), <1>26 DEF Release, ReleaseRows, Goto, First
<1>27. ASSUME NEW t \in Threads, Interact(t)
      PROVE  TypeOK'
  BY <1>27 DEF Interact, Goto, First
<1>28. ASSUME NEW t \in Threads, Done(t)
      PROVE  TypeOK'
  BY <1>28 DEF Done, Ends, Goto
<1>29. ASSUME NEW t \in Threads, Removed(t)
      PROVE  TypeOK'
  BY <1>29 DEF Removed, Ends, Goto
<1>30. ASSUME NEW t \in Threads, Requeue(t)
      PROVE  TypeOK'
  <2>1. item[t] \in Pairs
    BY <1>30 DEF HasItem, Working, Requeue, Ends
  <2> QED
    BY <1>30, <2>1, PushType DEF Requeue, Ends, Goto
<1>31. ASSUME NEW t \in Threads, Interrupted(t)
      PROVE  TypeOK'
  <2>1. item[t] \in Pairs
    BY <1>31 DEF HasItem, Working, Interrupted, InterruptedBy, Ends
  <2> QED
    BY <1>31, <2>1, PushType DEF Interrupted, InterruptedBy, Ends, Goto
<1>32. ASSUME NEW t \in Threads, Postpone(t)
      PROVE  TypeOK'
  <2>1. item[t] \in Pairs
    BY <1>32 DEF HasItem, Working, Postpone, Ends
  <2> QED
    BY <1>32, <2>1 DEF Postpone, Ends, Goto
<1>33. ASSUME NEW t \in Threads, PostponeVoid(t)
      PROVE  TypeOK'
  BY <1>33 DEF PostponeVoid, Ends, Goto
<1>34. ASSUME NEW t \in Threads, OngoingRequest(t)
      PROVE  TypeOK'
  <2>1. item[t] \in Pairs
    BY <1>34 DEF HasItem, Working, OngoingRequest, Ends
  <2> QED
    BY <1>34, <2>1 DEF OngoingRequest, Ends, Goto
<1>35. ASSUME NEW t \in Threads, HandlerError(t)
      PROVE  TypeOK'
  <2>1. item[t] \in Pairs
    BY <1>35 DEF HasItem, Working, HandlerError, Ends
  <2> QED
    BY <1>35, <2>1, IncreaseErrorType DEF HandlerError, Ends, Goto
<1>36. ASSUME NEW t \in Threads, GiveUp(t)
      PROVE  TypeOK'
  <2>1. item[t] \in Pairs
    BY <1>36 DEF HasItem, Working, GiveUp, Ends
  <2>2. MaxErrors + 1 \in Nat
    BY ConstantsAssumption DEF ConstantsAssumption
  <2> QED
    BY <1>36, <2>1, <2>2, IncreaseErrorType DEF GiveUp, Ends, Goto
<1>37. ASSUME NEW t \in Threads, NoSpace(t)
      PROVE  TypeOK'
  <2>1. item[t] \in Pairs
    BY <1>37 DEF HasItem, Working, NoSpace, Ends
  <2> QED
    BY <1>37, <2>1, IncreaseErrorType, SuspendEngineType DEF NoSpace, Ends, Goto
<1>38. ASSUME NEW t \in Threads, Skip(t)
      PROVE  TypeOK'
  BY <1>38 DEF Skip, Ends, Goto
<1>40. ASSUME NEW p \in Pairs, FreeRow(p)
      PROVE  TypeOK'
  <2>1. 0 \in 0..(MaxErrors + 1)
    BY ConstantsAssumption DEF ConstantsAssumption
  <2> QED
    BY <1>40, <2>1, Spend DEF FreeRow
<1>41. ASSUME NEW S \in SUBSET Pairs, DeleteFolder(S)
      PROVE  TypeOK'
  BY <1>41, Spend, ProcessorsType DEF DeleteFolder, StopWorkers
<1>42. ASSUME NEW t \in Threads, Terminate(t)
      PROVE  TypeOK'
  <2>1. owner' \in [Pairs -> Threads \cup {Nobody, Ghost}]
    BY <1>42 DEF Terminate
  <2>2. phase' \in [Threads -> Phases] /\ item' \in [Threads -> Pairs \cup {NoPair}]
    BY <1>42 DEF Terminate, Goto
  <2> QED
    BY <1>42, <2>1, <2>2 DEF Terminate
<1>43. ASSUME NEW t \in Threads, Raised(t)
      PROVE  TypeOK'
  BY <1>43 DEF Raised, Ends, Goto
<1>39. CASE UNCHANGED vars
  BY <1>39 DEF vars
<1> QED
  BY <1>1, <1>2, <1>3, <1>4, <1>5, <1>6, <1>7, <1>8, <1>9, <1>10, <1>11,
     <1>12, <1>13, <1>14, <1>15, <1>16, <1>17, <1>18, <1>19, <1>20, <1>21,
     <1>22, <1>23, <1>24, <1>25, <1>26, <1>27, <1>28, <1>29, <1>30, <1>31,
     <1>32, <1>33, <1>34, <1>35, <1>36, <1>37, <1>38, <1>39, <1>40, <1>41,
     <1>42, <1>43
  DEF Next, Main, Environment, Processor, HandlerEnds

-----------------------------------------------------------------------------
(* Rows and their owners                                                   *)

\* An item is "busy" only on its way through push_error.
BusyInError == \A t \in Threads : fate[t] = "busy" => phase[t] \in {"fail", "insert"}

\* A handler that has not written the state of its pair owns its row, unless
\* another has freed it.
HandlerOwns ==
    \A t \in Threads : phase[t] = "handling" => owner[item[t]] = t \/ item[t] \in freed

\* The owner of a row works on it, and did not get there by postponing an
\* item that was in use, unless it was terminated.
OwnerWorks ==
    \A p \in Pairs : owner[p] \notin {Nobody, Ghost} =>
        /\ item[owner[p]] = p
        /\ phase[owner[p]] \in Working
        /\ fate[owner[p]] # "busy"

RowPart == HasItem /\ BusyInError /\ HandlerOwns /\ OwnerWorks

RowInv == TypeOK /\ RowPart

\* launch_processors fills the empty slots it wants and touches no other.
LEMMA LaunchPhase ==
  ASSUME LaunchProcessors, NEW t \in Threads
  PROVE  /\ phase'[t] = phase[t] \/ (phase[t] = "none" /\ phase'[t] = "starting")
         /\ enabled /\ Wanted(t) => phase'[t] = "starting"
<1>1. Wanted(t) => phase[t] = "none"
  BY DEF Wanted
<1>2. CASE enabled
  <2>1. phase' = [u \in Threads |-> IF Wanted(u) THEN "starting" ELSE phase[u]]
    BY <1>2 DEF LaunchProcessors
  <2>2. phase'[t] = IF Wanted(t) THEN "starting" ELSE phase[t]
    BY <2>1
  <2> QED
    BY <1>1, <2>2
<1>3. CASE ~enabled
  BY <1>3 DEF LaunchProcessors
<1> QED
  BY <1>2, <1>3

\* One thread moves; if it owned a row it goes on working on it.
LEMMA RowFrame ==
  ASSUME RowInv, UNCHANGED <<owner, freed>>, NEW t \in Threads,
         \A u \in Threads \ {t} :
            phase'[u] = phase[u] /\ item'[u] = item[u] /\ fate'[u] = fate[u],
         phase'[t] \in {"check", "recheck", "acquire"} \cup Working => item'[t] \in Pairs,
         fate'[t] = "busy" => phase'[t] \in {"fail", "insert"},
         phase'[t] # "handling",
         \/ phase[t] \notin Working
         \/ fate[t] = "busy"
         \/ phase'[t] \in Working /\ item'[t] = item[t] /\ fate'[t] # "busy"
  PROVE  RowPart'
<1>1. HasItem'
  BY DEF RowInv, RowPart, HasItem, Working
<1>2. BusyInError'
  BY DEF RowInv, RowPart, BusyInError
<1>3. HandlerOwns'
  BY DEF RowInv, RowPart, HandlerOwns
<1>4. ASSUME NEW p \in Pairs, owner'[p] \notin {Nobody, Ghost}
      PROVE  item'[owner'[p]] = p /\ phase'[owner'[p]] \in Working /\ fate'[owner'[p]] # "busy"
  <2>1. owner[p] \in Threads /\ owner'[p] = owner[p]
    BY <1>4 DEF RowInv, TypeOK
  <2>2. item[owner[p]] = p /\ phase[owner[p]] \in Working /\ fate[owner[p]] # "busy"
    BY <1>4 DEF RowInv, RowPart, OwnerWorks
  <2> QED
    BY <2>1, <2>2
<1> QED
  BY <1>1, <1>2, <1>3, <1>4 DEF RowPart, OwnerWorks

\* Every step keeps rows and owners consistent.
LEMMA RowStep == RowInv /\ [Next]_vars => RowInv'
<1> SUFFICES ASSUME RowInv, [Next]_vars PROVE RowPart'
  BY TypeStep DEF RowInv, RowPart
<1> USE ConstantsAssumption DEF RowInv, RowPart, TypeOK, HasItem, BusyInError, HandlerOwns, OwnerWorks, Working, Phases
<1>1. CASE InitProcessors
  BY <1>1 DEF InitProcessors
<1>2. CASE ShutdownProcessors
  BY <1>2 DEF ShutdownProcessors
<1>3. CASE LaunchProcessors
  <2>1. UNCHANGED <<item, fate, owner, freed>>
    BY <1>3 DEF LaunchProcessors
  <2>2. \A t \in Threads :
          phase'[t] = phase[t] \/ (phase[t] = "none" /\ phase'[t] = "starting")
    BY <1>3, LaunchPhase
  <2>3. HasItem' /\ BusyInError'
    BY <2>1, <2>2
  <2>4. HandlerOwns'
    BY <2>1, <2>2
  <2>5. \A t \in Threads : phase[t] \in Working => phase'[t] = phase[t]
    BY <2>2
  <2>6. ASSUME NEW p \in Pairs, owner'[p] \notin {Nobody, Ghost}
        PROVE  item'[owner'[p]] = p /\ phase'[owner'[p]] \in Working /\ fate'[owner'[p]] # "busy"
    <3>1. owner'[p] = owner[p] /\ owner[p] \in Threads
      BY <2>1, <2>6
    <3>2. item[owner[p]] = p /\ phase[owner[p]] \in Working /\ fate[owner[p]] # "busy"
      BY <2>6, <3>1
    <3> QED
      BY <2>1, <2>5, <3>1, <3>2
  <2> QED
    BY <2>3, <2>4, <2>6
<1>4. CASE ThreadFinished
  BY <1>4 DEF ThreadFinished, ReapThreads, Finished
<1>5. CASE OnNewError
  BY <1>5 DEF OnNewError
<1>6. CASE OnErrorTimerIdle
  BY <1>6 DEF OnErrorTimerIdle, StopTimer
<1>7. ASSUME NEW p \in Pairs, OnErrorTimer(p)
      PROVE  RowPart'
  BY <1>7 DEF OnErrorTimer, Push, Put, Quit
<1>8. ASSUME NEW p \in Pairs, PushPair(p)
      PROVE  RowPart'
  BY <1>8 DEF PushPair, Push, Put, Quit
<1>9. ASSUME NEW p \in Pairs, RetryPair(p)
      PROVE  RowPart'
  BY <1>9 DEF RetryPair, Push, Put, Quit
<1>10. CASE Suspend
  BY <1>10 DEF Suspend, SuspendEngine, SuspendQueue
<1>11. CASE Resume
  BY <1>11 DEF Resume, ResumeQueue, Alive
<1>12. CASE SetOffline
  BY <1>12 DEF SetOffline, SuspendQueue
<1>13. CASE SetOnline
  BY <1>13 DEF SetOnline, ResumeQueue
<1>14. CASE ScanBegin
  BY <1>14 DEF ScanBegin, StopWorkers
<1>15. CASE ScanEnd
  BY <1>15 DEF ScanEnd, ResumeQueue
<1>16. ASSUME NEW t \in Threads, StartRun(t)
      PROVE  RowPart'
  BY <1>16 DEF StartRun, Goto, First
<1>17. ASSUME NEW t \in Threads, ChooseFile(t)
      PROVE  RowPart'
  <2>1. UNCHANGED <<item, fate, owner, freed>> /\ phase[t] = "fetch"
    BY <1>17 DEF ChooseFile
  <2>2. /\ \A u \in Threads \ {t} : phase'[u] = phase[u]
        /\ phase'[t] \in {"ended", "pop"}
    BY <1>17 DEF ChooseFile, Goto
  <2> QED
    BY ZenonT(60), <2>1, <2>2, RowFrame
<1>18. ASSUME NEW t \in Threads, Pop(t)
      PROVE  RowPart'
  <2>1. UNCHANGED <<fate, owner, freed>> /\ phase[t] = "pop"
    BY <1>18 DEF Pop
  <2>2. \A u \in Threads \ {t} : phase'[u] = phase[u] /\ item'[u] = item[u]
    BY <1>18 DEF Pop, Goto
  <2>3. phase'[t] = "ended" \/ (phase'[t] = "check" /\ item'[t] \in Pairs)
    <3>1. CASE queue[from[t]] = <<>>
      BY <1>18, <3>1 DEF Pop, Goto
    <3>2. CASE queue[from[t]] # <<>>
      <4>1. queue[from[t]] \in Seq(Pairs)
        OBVIOUS
      <4>2. Head(queue[from[t]]) \in Pairs
        BY <4>1, <3>2, HeadTail
      <4> QED
        BY <1>18, <3>2, <4>2 DEF Pop, Goto
    <3> QED
      BY <3>1, <3>2
  <2> QED
    BY ZenonT(60), <2>1, <2>2, <2>3, RowFrame
<1>19. ASSUME NEW t \in Threads, CheckOnError(t)
      PROVE  RowPart'
  <2>1. UNCHANGED <<fate, owner, freed>> /\ phase[t] \in {"check", "recheck"}
    BY <1>19 DEF CheckOnError
  <2>2. \A u \in Threads \ {t} : phase'[u] = phase[u] /\ item'[u] = item[u]
    BY <1>19 DEF CheckOnError, Goto
  <2>3. \/ phase'[t] \in {"pop", "fetch"}
        \/ phase'[t] \in {"recheck", "acquire"} /\ item'[t] = item[t]
    BY <1>19 DEF CheckOnError, Goto
  <2> QED
    BY ZenonT(60), <2>1, <2>2, <2>3, RowFrame
<1>20. ASSUME NEW t \in Threads, Acquire(t)
      PROVE  RowPart'
  <2>1. UNCHANGED <<fate, item, freed>> /\ phase[t] = "acquire" /\ item[t] \in Pairs
    BY <1>20 DEF Acquire, AcquireIf
  <2>2. owner[item[t]] = Nobody /\ owner' = [owner EXCEPT ![item[t]] = t]
    BY <1>20 DEF Acquire, AcquireIf
  <2>3. phase' = [phase EXCEPT ![t] = "handling"]
    BY <1>20 DEF Acquire, AcquireIf, Goto
  <2>4. HasItem' /\ BusyInError'
    BY <2>1, <2>3
  <2>5. HandlerOwns'
    BY <2>1, <2>2, <2>3 DEF ConstantsAssumption
  <2>6. ASSUME NEW p \in Pairs, owner'[p] \notin {Nobody, Ghost}
        PROVE  item'[owner'[p]] = p /\ phase'[owner'[p]] \in Working /\ fate'[owner'[p]] # "busy"
    <3>1. CASE p = item[t]
      <4>1. owner'[p] = t /\ item'[t] = p /\ phase'[t] = "handling"
        BY <2>1, <2>2, <2>3, <3>1
      <4>2. fate'[t] # "busy"
        BY <2>1
      <4> QED
        BY <4>1, <4>2
    <3>2. CASE p # item[t]
      <4>1. owner'[p] = owner[p] /\ owner[p] \in Threads
        BY <2>2, <2>6, <3>2
      <4>2. owner[p] # t
        BY <2>1, <2>6, <4>1
      <4> QED
        BY <2>1, <2>3, <2>6, <4>1, <4>2
    <3> QED
      BY <3>1, <3>2
  <2> QED
    BY <2>4, <2>5, <2>6
<1>21. ASSUME NEW t \in Threads, DropItem(t)
      PROVE  RowPart'
  BY <1>21 DEF DropItem, Forget, Goto, First
<1>22. ASSUME NEW t \in Threads, PostponeItem(t)
      PROVE  RowPart'
  BY <1>22 DEF PostponeItem, InUse, Goto
<1>23. ASSUME NEW t \in Threads, Synchronize(t)
      PROVE  RowPart'
  BY <1>23 DEF Synchronize, Goto
<1>24. ASSUME NEW t \in Threads, PushErrorCheck(t)
      PROVE  RowPart'
  <2>1. UNCHANGED <<owner, freed>> /\ phase[t] = "fail" /\ item[t] \in Pairs
    BY <1>24 DEF PushErrorCheck
  <2>2. \A u \in Threads \ {t} :
          phase'[u] = phase[u] /\ item'[u] = item[u] /\ fate'[u] = fate[u]
    BY <1>24 DEF PushErrorCheck, LeaveError, Goto
  <2>3. \/ phase'[t] = "insert" /\ UNCHANGED <<item, fate>>
        \/ fate[t] = "busy" /\ phase'[t] \in {"fetch", "pop"} /\ fate'[t] = "live"
        \/ fate[t] # "busy" /\ phase'[t] = "release" /\ fate'[t] = "live" /\ item'[t] = item[t]
    BY <1>24 DEF PushErrorCheck, LeaveError, Goto, First
  <2> QED
    BY ZenonT(60), <2>1, <2>2, <2>3, RowFrame
<1>25. ASSUME NEW t \in Threads, PushErrorInsert(t)
      PROVE  RowPart'
  BY <1>25 DEF PushErrorInsert, LeaveError, Goto, First
<1>26. ASSUME NEW t \in Threads, Release(t)
      PROVE  RowPart'
  BY <1>26 DEF Release, ReleaseRows, Goto, First
<1>27. ASSUME NEW t \in Threads, Interact(t)
      PROVE  RowPart'
  BY <1>27 DEF Interact, Goto, First
<1>28. ASSUME NEW t \in Threads, Done(t)
      PROVE  RowPart'
  BY <1>28 DEF Done, Ends, Goto
<1>29. ASSUME NEW t \in Threads, Removed(t)
      PROVE  RowPart'
  BY <1>29 DEF Removed, Ends, Goto
<1>30. ASSUME NEW t \in Threads, Requeue(t)
      PROVE  RowPart'
  BY <1>30 DEF Requeue, Ends, Push, Put, Quit, Goto
<1>31. ASSUME NEW t \in Threads, Interrupted(t)
      PROVE  RowPart'
  BY <1>31 DEF Interrupted, InterruptedBy, Ends, Push, Put, Quit, Goto
<1>32. ASSUME NEW t \in Threads, Postpone(t)
      PROVE  RowPart'
  BY <1>32 DEF Postpone, Ends, Goto
<1>33. ASSUME NEW t \in Threads, PostponeVoid(t)
      PROVE  RowPart'
  BY <1>33 DEF PostponeVoid, Ends, Goto
<1>34. ASSUME NEW t \in Threads, OngoingRequest(t)
      PROVE  RowPart'
  BY <1>34 DEF OngoingRequest, Ends, Goto
<1>35. ASSUME NEW t \in Threads, HandlerError(t)
      PROVE  RowPart'
  BY <1>35 DEF HandlerError, Ends, IncreaseError, Goto
<1>36. ASSUME NEW t \in Threads, GiveUp(t)
      PROVE  RowPart'
  BY <1>36 DEF GiveUp, Ends, IncreaseError, Goto
<1>37. ASSUME NEW t \in Threads, NoSpace(t)
      PROVE  RowPart'
  BY <1>37 DEF NoSpace, Ends, SuspendEngine, SuspendQueue, IncreaseError, Goto
<1>38. ASSUME NEW t \in Threads, Skip(t)
      PROVE  RowPart'
  BY <1>38 DEF Skip, Ends, Goto
<1>40. ASSUME NEW p \in Pairs, FreeRow(p)
      PROVE  RowPart'
  BY <1>40 DEF FreeRow, ConstantsAssumption
<1>41. ASSUME NEW S \in SUBSET Pairs, DeleteFolder(S)
      PROVE  RowPart'
  BY <1>41 DEF DeleteFolder
<1>42. ASSUME NEW t \in Threads, Terminate(t)
      PROVE  RowPart'
  BY <1>42 DEF Terminate, Goto, ConstantsAssumption
<1>43. ASSUME NEW t \in Threads, Raised(t)
      PROVE  RowPart'
  BY <1>43 DEF Raised, Ends, Goto
<1>39. CASE UNCHANGED vars
  BY <1>39 DEF vars
<1> QED
  BY <1>1, <1>2, <1>3, <1>4, <1>5, <1>6, <1>7, <1>8, <1>9, <1>10, <1>11,
     <1>12, <1>13, <1>14, <1>15, <1>16, <1>17, <1>18, <1>19, <1>20, <1>21,
     <1>22, <1>23, <1>24, <1>25, <1>26, <1>27, <1>28, <1>29, <1>30, <1>31,
     <1>32, <1>33, <1>34, <1>35, <1>36, <1>37, <1>38, <1>39, <1>40, <1>41,
     <1>42, <1>43
  DEF Next, Main, Environment, Processor, HandlerEnds

-----------------------------------------------------------------------------
(* Wake-ups                                                                *)

\* Every step that leaves an item in a queue leaves someone to serve it.
LEMMA WakeupStep == TypeOK /\ NoLostWakeup /\ [Next]_vars => NoLostWakeup'
<1> SUFFICES ASSUME TypeOK, NoLostWakeup, [Next]_vars PROVE NoLostWakeup'
  OBVIOUS
<1> USE DEF TypeOK, NoLostWakeup, Threads
<1>1. CASE InitProcessors
  BY <1>1 DEF InitProcessors
<1>2. CASE ShutdownProcessors
  BY <1>2 DEF ShutdownProcessors
<1>3. CASE LaunchProcessors
  <2>1. UNCHANGED <<queue, enabled, connected, paused>>
    BY <1>3 DEF LaunchProcessors
  <2>2. \A q \in Queues : enabled /\ queue[q] # <<>> => phase'[q] # "none"
    <3> SUFFICES ASSUME NEW q \in Queues, enabled, queue[q] # <<>> PROVE phase'[q] # "none"
      OBVIOUS
    <3>1. q \in Threads /\ q \notin Pool
      BY ConstantsAssumption DEF ConstantsAssumption
    <3>2. phase[q] = "none" => Wanted(q)
      BY <3>1 DEF Wanted
    <3> QED
      BY <1>3, <3>1, <3>2, LaunchPhase
  <2> QED
    BY <2>1, <2>2
<1>4. CASE ThreadFinished
  BY <1>4 DEF ThreadFinished, ReapThreads, Finished
<1>5. CASE OnNewError
  BY <1>5 DEF OnNewError
<1>6. CASE OnErrorTimerIdle
  BY <1>6 DEF OnErrorTimerIdle, StopTimer
<1>7. ASSUME NEW p \in Pairs, OnErrorTimer(p)
      PROVE  NoLostWakeup'
  BY <1>7 DEF OnErrorTimer, Push, Put, Quit
<1>8. ASSUME NEW p \in Pairs, PushPair(p)
      PROVE  NoLostWakeup'
  BY <1>8 DEF PushPair, Push, Put, Quit
<1>9. ASSUME NEW p \in Pairs, RetryPair(p)
      PROVE  NoLostWakeup'
  BY <1>9 DEF RetryPair, Push, Put, Quit
<1>10. CASE Suspend
  BY <1>10 DEF Suspend, SuspendEngine, SuspendQueue
<1>11. CASE Resume
  BY <1>11 DEF Resume, ResumeQueue, Alive
<1>12. CASE SetOffline
  BY <1>12 DEF SetOffline, SuspendQueue
<1>13. CASE SetOnline
  BY <1>13 DEF SetOnline, ResumeQueue
<1>14. CASE ScanBegin
  BY <1>14 DEF ScanBegin, StopWorkers
<1>15. CASE ScanEnd
  BY <1>15 DEF ScanEnd, ResumeQueue
<1>16. ASSUME NEW t \in Threads, StartRun(t)
      PROVE  NoLostWakeup'
  BY <1>16 DEF StartRun, Goto, First
<1>17. ASSUME NEW t \in Threads, ChooseFile(t)
      PROVE  NoLostWakeup'
  BY <1>17 DEF ChooseFile, Goto, FileQueues
<1>18. ASSUME NEW t \in Threads, Pop(t)
      PROVE  NoLostWakeup'
  BY <1>18 DEF Pop, Goto
<1>19. ASSUME NEW t \in Threads, CheckOnError(t)
      PROVE  NoLostWakeup'
  BY <1>19 DEF CheckOnError, Goto
<1>20. ASSUME NEW t \in Threads, Acquire(t)
      PROVE  NoLostWakeup'
  BY <1>20 DEF Acquire, AcquireIf, Goto
<1>21. ASSUME NEW t \in Threads, DropItem(t)
      PROVE  NoLostWakeup'
  BY <1>21 DEF DropItem, Forget, Goto, First
<1>22. ASSUME NEW t \in Threads, PostponeItem(t)
      PROVE  NoLostWakeup'
  BY <1>22 DEF PostponeItem, InUse, Goto
<1>23. ASSUME NEW t \in Threads, Synchronize(t)
      PROVE  NoLostWakeup'
  BY <1>23 DEF Synchronize, Goto
<1>24. ASSUME NEW t \in Threads, PushErrorCheck(t)
      PROVE  NoLostWakeup'
  BY <1>24 DEF PushErrorCheck, LeaveError, Goto, First
<1>25. ASSUME NEW t \in Threads, PushErrorInsert(t)
      PROVE  NoLostWakeup'
  BY <1>25 DEF PushErrorInsert, LeaveError, Goto, First
<1>26. ASSUME NEW t \in Threads, Release(t)
      PROVE  NoLostWakeup'
  BY <1>26 DEF Release, ReleaseRows, Goto, First
<1>27. ASSUME NEW t \in Threads, Interact(t)
      PROVE  NoLostWakeup'
  BY <1>27 DEF Interact, Goto, First
<1>28. ASSUME NEW t \in Threads, Done(t)
      PROVE  NoLostWakeup'
  BY <1>28 DEF Done, Ends, Goto
<1>29. ASSUME NEW t \in Threads, Removed(t)
      PROVE  NoLostWakeup'
  BY <1>29 DEF Removed, Ends, Goto
<1>30. ASSUME NEW t \in Threads, Requeue(t)
      PROVE  NoLostWakeup'
  BY <1>30 DEF Requeue, Ends, Push, Put, Quit, Goto
<1>31. ASSUME NEW t \in Threads, Interrupted(t)
      PROVE  NoLostWakeup'
  BY <1>31 DEF Interrupted, InterruptedBy, Ends, Push, Put, Quit, Goto
<1>32. ASSUME NEW t \in Threads, Postpone(t)
      PROVE  NoLostWakeup'
  BY <1>32 DEF Postpone, Ends, Goto
<1>33. ASSUME NEW t \in Threads, PostponeVoid(t)
      PROVE  NoLostWakeup'
  BY <1>33 DEF PostponeVoid, Ends, Goto
<1>34. ASSUME NEW t \in Threads, OngoingRequest(t)
      PROVE  NoLostWakeup'
  BY <1>34 DEF OngoingRequest, Ends, Goto
<1>35. ASSUME NEW t \in Threads, HandlerError(t)
      PROVE  NoLostWakeup'
  BY <1>35 DEF HandlerError, Ends, IncreaseError, Goto
<1>36. ASSUME NEW t \in Threads, GiveUp(t)
      PROVE  NoLostWakeup'
  BY <1>36 DEF GiveUp, Ends, IncreaseError, Goto
<1>37. ASSUME NEW t \in Threads, NoSpace(t)
      PROVE  NoLostWakeup'
  BY <1>37 DEF NoSpace, Ends, SuspendEngine, SuspendQueue, IncreaseError, Goto
<1>38. ASSUME NEW t \in Threads, Skip(t)
      PROVE  NoLostWakeup'
  BY <1>38 DEF Skip, Ends, Goto
<1>40. ASSUME NEW p \in Pairs, FreeRow(p)
      PROVE  NoLostWakeup'
  BY <1>40 DEF FreeRow
<1>41. ASSUME NEW S \in SUBSET Pairs, DeleteFolder(S)
      PROVE  NoLostWakeup'
  BY <1>41 DEF DeleteFolder
<1>42. ASSUME NEW t \in Threads, Terminate(t)
      PROVE  NoLostWakeup'
  BY <1>42 DEF Terminate, Goto
<1>43. ASSUME NEW t \in Threads, Raised(t)
      PROVE  NoLostWakeup'
  BY <1>43 DEF Raised, Ends, Goto
<1>39. CASE UNCHANGED vars
  BY <1>39 DEF vars
<1> QED
  BY <1>1, <1>2, <1>3, <1>4, <1>5, <1>6, <1>7, <1>8, <1>9, <1>10, <1>11,
     <1>12, <1>13, <1>14, <1>15, <1>16, <1>17, <1>18, <1>19, <1>20, <1>21,
     <1>22, <1>23, <1>24, <1>25, <1>26, <1>27, <1>28, <1>29, <1>30, <1>31,
     <1>32, <1>33, <1>34, <1>35, <1>36, <1>37, <1>38, <1>39, <1>40, <1>41,
     <1>42, <1>43
  DEF Next, Main, Environment, Processor, HandlerEnds

\* Every step that leaves a pair on error leaves the timer armed.
LEMMA TimerStep == TypeOK /\ ErrorTimerArmed /\ [Next]_vars => ErrorTimerArmed'
<1> SUFFICES ASSUME TypeOK, ErrorTimerArmed, [Next]_vars PROVE ErrorTimerArmed'
  OBVIOUS
<1> USE DEF TypeOK, ErrorTimerArmed
<1>1. CASE InitProcessors
  BY <1>1 DEF InitProcessors
<1>2. CASE ShutdownProcessors
  BY <1>2 DEF ShutdownProcessors
<1>3. CASE LaunchProcessors
  BY <1>3 DEF LaunchProcessors, Wanted
<1>4. CASE ThreadFinished
  BY <1>4 DEF ThreadFinished, ReapThreads, Finished
<1>5. CASE OnNewError
  BY <1>5 DEF OnNewError
<1>6. CASE OnErrorTimerIdle
  BY <1>6 DEF OnErrorTimerIdle, StopTimer
<1>7. ASSUME NEW p \in Pairs, OnErrorTimer(p)
      PROVE  ErrorTimerArmed'
  BY <1>7 DEF OnErrorTimer, Push, Put, Quit
<1>8. ASSUME NEW p \in Pairs, PushPair(p)
      PROVE  ErrorTimerArmed'
  BY <1>8 DEF PushPair, Push, Put, Quit
<1>9. ASSUME NEW p \in Pairs, RetryPair(p)
      PROVE  ErrorTimerArmed'
  BY <1>9 DEF RetryPair, Push, Put, Quit
<1>10. CASE Suspend
  BY <1>10 DEF Suspend, SuspendEngine, SuspendQueue
<1>11. CASE Resume
  BY <1>11 DEF Resume, ResumeQueue, Alive
<1>12. CASE SetOffline
  BY <1>12 DEF SetOffline, SuspendQueue
<1>13. CASE SetOnline
  BY <1>13 DEF SetOnline, ResumeQueue
<1>14. CASE ScanBegin
  BY <1>14 DEF ScanBegin, StopWorkers
<1>15. CASE ScanEnd
  BY <1>15 DEF ScanEnd, ResumeQueue
<1>16. ASSUME NEW t \in Threads, StartRun(t)
      PROVE  ErrorTimerArmed'
  BY <1>16 DEF StartRun, Goto, First
<1>17. ASSUME NEW t \in Threads, ChooseFile(t)
      PROVE  ErrorTimerArmed'
  BY <1>17 DEF ChooseFile, Goto, FileQueues
<1>18. ASSUME NEW t \in Threads, Pop(t)
      PROVE  ErrorTimerArmed'
  BY <1>18 DEF Pop, Goto
<1>19. ASSUME NEW t \in Threads, CheckOnError(t)
      PROVE  ErrorTimerArmed'
  BY <1>19 DEF CheckOnError, Goto
<1>20. ASSUME NEW t \in Threads, Acquire(t)
      PROVE  ErrorTimerArmed'
  BY <1>20 DEF Acquire, AcquireIf, Goto
<1>21. ASSUME NEW t \in Threads, DropItem(t)
      PROVE  ErrorTimerArmed'
  BY <1>21 DEF DropItem, Forget, Goto, First
<1>22. ASSUME NEW t \in Threads, PostponeItem(t)
      PROVE  ErrorTimerArmed'
  BY <1>22 DEF PostponeItem, InUse, Goto
<1>23. ASSUME NEW t \in Threads, Synchronize(t)
      PROVE  ErrorTimerArmed'
  BY <1>23 DEF Synchronize, Goto
<1>24. ASSUME NEW t \in Threads, PushErrorCheck(t)
      PROVE  ErrorTimerArmed'
  BY <1>24 DEF PushErrorCheck, LeaveError, Goto, First
<1>25. ASSUME NEW t \in Threads, PushErrorInsert(t)
      PROVE  ErrorTimerArmed'
  BY <1>25 DEF PushErrorInsert, LeaveError, Goto, First
<1>26. ASSUME NEW t \in Threads, Release(t)
      PROVE  ErrorTimerArmed'
  BY <1>26 DEF Release, ReleaseRows, Goto, First
<1>27. ASSUME NEW t \in Threads, Interact(t)
      PROVE  ErrorTimerArmed'
  BY <1>27 DEF Interact, Goto, First
<1>28. ASSUME NEW t \in Threads, Done(t)
      PROVE  ErrorTimerArmed'
  BY <1>28 DEF Done, Ends, Goto
<1>29. ASSUME NEW t \in Threads, Removed(t)
      PROVE  ErrorTimerArmed'
  BY <1>29 DEF Removed, Ends, Goto
<1>30. ASSUME NEW t \in Threads, Requeue(t)
      PROVE  ErrorTimerArmed'
  BY <1>30 DEF Requeue, Ends, Push, Put, Quit, Goto
<1>31. ASSUME NEW t \in Threads, Interrupted(t)
      PROVE  ErrorTimerArmed'
  BY <1>31 DEF Interrupted, InterruptedBy, Ends, Push, Put, Quit, Goto
<1>32. ASSUME NEW t \in Threads, Postpone(t)
      PROVE  ErrorTimerArmed'
  BY <1>32 DEF Postpone, Ends, Goto
<1>33. ASSUME NEW t \in Threads, PostponeVoid(t)
      PROVE  ErrorTimerArmed'
  BY <1>33 DEF PostponeVoid, Ends, Goto
<1>34. ASSUME NEW t \in Threads, OngoingRequest(t)
      PROVE  ErrorTimerArmed'
  BY <1>34 DEF OngoingRequest, Ends, Goto
<1>35. ASSUME NEW t \in Threads, HandlerError(t)
      PROVE  ErrorTimerArmed'
  BY <1>35 DEF HandlerError, Ends, IncreaseError, Goto
<1>36. ASSUME NEW t \in Threads, GiveUp(t)
      PROVE  ErrorTimerArmed'
  BY <1>36 DEF GiveUp, Ends, IncreaseError, Goto
<1>37. ASSUME NEW t \in Threads, NoSpace(t)
      PROVE  ErrorTimerArmed'
  BY <1>37 DEF NoSpace, Ends, SuspendEngine, SuspendQueue, IncreaseError, Goto
<1>38. ASSUME NEW t \in Threads, Skip(t)
      PROVE  ErrorTimerArmed'
  BY <1>38 DEF Skip, Ends, Goto
<1>40. ASSUME NEW p \in Pairs, FreeRow(p)
      PROVE  ErrorTimerArmed'
  BY <1>40 DEF FreeRow
<1>41. ASSUME NEW S \in SUBSET Pairs, DeleteFolder(S)
      PROVE  ErrorTimerArmed'
  BY <1>41 DEF DeleteFolder
<1>42. ASSUME NEW t \in Threads, Terminate(t)
      PROVE  ErrorTimerArmed'
  BY <1>42 DEF Terminate
<1>43. ASSUME NEW t \in Threads, Raised(t)
      PROVE  ErrorTimerArmed'
  BY <1>43 DEF Raised
<1>39. CASE UNCHANGED vars
  BY <1>39 DEF vars
<1> QED
  BY <1>1, <1>2, <1>3, <1>4, <1>5, <1>6, <1>7, <1>8, <1>9, <1>10, <1>11,
     <1>12, <1>13, <1>14, <1>15, <1>16, <1>17, <1>18, <1>19, <1>20, <1>21,
     <1>22, <1>23, <1>24, <1>25, <1>26, <1>27, <1>28, <1>29, <1>30, <1>31,
     <1>32, <1>33, <1>34, <1>35, <1>36, <1>37, <1>38, <1>39, <1>40, <1>41,
     <1>42, <1>43
  DEF Next, Main, Environment, Processor, HandlerEnds

-----------------------------------------------------------------------------
(* The theorems                                                            *)

LEMMA RowInit == Init => RowInv
<1> SUFFICES ASSUME Init PROVE RowInv
  OBVIOUS
<1>1. TypeOK
  <2>1. queue \in [Queues -> Seq(Pairs)] /\ from \in [Threads -> Queues]
    BY DEF Init, Queues, FileQueues
  <2>2. /\ errors \in [Pairs -> 0..(MaxErrors + 1)]
        /\ pushes \in 0..MaxPush /\ toggles \in 0..MaxToggle
    BY ConstantsAssumption DEF ConstantsAssumption, Init
  <2>3. phase \in [Threads -> Phases]
    BY DEF Init, Phases
  <2> QED
    BY <2>1, <2>2, <2>3 DEF Init, TypeOK
<1>2. RowPart
  BY DEF Init, RowPart, HasItem, BusyInError, HandlerOwns, OwnerWorks, Working
<1> QED
  BY <1>1, <1>2 DEF RowInv

\* The inductive invariant holds in every reachable state of the queues.
THEOREM RowInvariant == Spec => []RowInv
<1>1. Init => RowInv
  BY RowInit
<1>2. RowInv /\ [Next]_vars => RowInv'
  BY RowStep
<1> QED
  BY <1>1, <1>2, PTL DEF Spec

\* Whatever the pairs, the pool and the outcomes of the handlers, the queues,
\* the threads and the columns of the rows keep their types.
THEOREM TypeCorrect == Spec => []TypeOK
<1>1. RowInv => TypeOK
  BY DEF RowInv
<1> QED
  BY <1>1, RowInvariant, PTL

\* Two handlers never work on the same pair before they have written its
\* state: acquire_state gives the row to one thread only, however many copies
\* of the pair are queued and however many threads serve the queues, as long as
\* none but its handler frees the row.
THEOREM Exclusion == Spec => []HandlersExclusive
<1>1. RowInv => HandlersExclusive
  BY DEF RowInv, RowPart, HandlerOwns, HandlersExclusive
<1> QED
  BY <1>1, RowInvariant, PTL

\* The column processor names a thread that is working on the row, or one that
\* was terminated in its handler: no other end of a handler, interrupted or
\* not, leaves a pair "in use" for ever.
THEOREM NoOrphan == Spec => []NoOrphanOwner
<1>1. RowInv => NoOrphanOwner
  BY DEF RowInv, RowPart, OwnerWorks, NoOrphanOwner
<1> QED
  BY <1>1, RowInvariant, PTL

\* No newItem is lost: while the queue runs, an item that waits has a launch
\* posted or a thread in the slot of its queue.
THEOREM Wakeups == Spec => []NoLostWakeup
<1>1. Init => NoLostWakeup
  BY DEF Init, NoLostWakeup
<1>2. TypeOK /\ NoLostWakeup /\ [Next]_vars => NoLostWakeup'
  BY WakeupStep
<1> QED
  BY <1>1, <1>2, TypeCorrect, PTL DEF Spec

\* While a pair is on error, the timer that will push it again is active or
\* its start is posted to the main thread.
THEOREM TimerArmed == Spec => []ErrorTimerArmed
<1>1. Init => ErrorTimerArmed
  BY DEF Init, ErrorTimerArmed
<1>2. TypeOK /\ ErrorTimerArmed /\ [Next]_vars => ErrorTimerArmed'
  BY TimerStep
<1> QED
  BY <1>1, <1>2, TypeCorrect, PTL DEF Spec


-----------------------------------------------------------------------------
(* Where a pair waits                                                      *)

\* The two endings after which nothing remembers the pair: push_error inserts
\* nothing after OngoingRequestError, and push() refuses a postponed pair that
\* is conflicted.
NothingForgotten == Outcomes \cap {"ongoing", "void"} = {}

\* Thread t is one of those InHands(p) speaks of.
Holds(t, p) ==
    /\ item[t] = p
    /\ phase[t] \in {"check", "recheck", "acquire", "fail", "insert"}
    /\ phase[t] \in {"fail", "insert"} => fate[t] # "void"

Kept(p) == Queued(p) \/ InHands(p) \/ onError[p] = "live"

\* Without these endings nothing waits under a state that push() refuses.
NoVoid ==
    /\ \A t \in Threads : fate[t] # "void"
    /\ \A p \in Pairs : onError[p] # "void"

DeliveryInv == RowInv /\ NoVoid /\ NoLostPair

\* The hands of a thread, named.
LEMMA HandsOfOne ==
  ASSUME NEW p
  PROVE  /\ InHands(p) <=> \E t \in Threads : Holds(t, p)
         /\ InHands(p)' <=> \E t \in Threads : Holds(t, p)'
  BY DEF InHands, Holds

\* push() puts its pair in a queue and takes no other pair out of one.
LEMMA PushQueues ==
  ASSUME TypeOK, NEW p \in Pairs, Push(p)
  PROVE  /\ Queued(p)'
         /\ \A r \in Pairs : Queued(r) => Queued(r)'
<1>0. Home[p] \subseteq Queues
  BY ConstantsAssumption DEF ConstantsAssumption
<1>1. PICK q \in Queues : \E deleted \in {FALSE, (p \in Deletable)} : Put(p, q, deleted)
  BY <1>0, Zenon DEF Push
<1>2. queue' = [queue EXCEPT ![q] = Append(queue[q], p)]
  BY <1>1 DEF Put
<1>3. queue \in [Queues -> Seq(Pairs)] /\ queue[q] \in Seq(Pairs)
  BY DEF TypeOK
<1>4. /\ Len(queue'[q]) = Len(queue[q]) + 1
      /\ queue'[q][Len(queue[q]) + 1] = p
      /\ \A i \in 1..Len(queue[q]) : queue'[q][i] = queue[q][i]
  BY <1>2, <1>3
<1>5. Len(queue[q]) \in Nat
  BY <1>3
<1>6. Queued(p)'
  BY <1>4, <1>5 DEF Queued
<1>7. ASSUME NEW r \in Pairs, Queued(r)
      PROVE  Queued(r)'
  <2>1. PICK c \in Queues : \E i \in 1..Len(queue[c]) : queue[c][i] = r
    BY <1>7 DEF Queued
  <2>2. CASE c = q
    BY <2>1, <2>2, <1>4, <1>5 DEF Queued
  <2>3. CASE c # q
    BY <2>1, <2>3, <1>2, <1>3 DEF Queued
  <2> QED
    BY <2>2, <2>3
<1> QED
  BY <1>6, <1>7

\* A getter takes one pair out of its queue: the one it then holds.
LEMMA PopQueues ==
  ASSUME TypeOK, NEW t \in Threads, Pop(t), NEW r \in Pairs, Queued(r)
  PROVE  Queued(r)' \/ Holds(t, r)'
<1> DEFINE q == from[t]
<1>1. q \in Queues /\ queue[q] \in Seq(Pairs) /\ queue \in [Queues -> Seq(Pairs)]
  BY DEF TypeOK
<1>2. CASE queue[q] = <<>>
  BY <1>2 DEF Pop, Queued
<1>3. CASE queue[q] # <<>>
  <2>1. item' = [item EXCEPT ![t] = Head(queue[q])] /\ phase' = [phase EXCEPT ![t] = "check"]
    BY <1>3 DEF Pop, Goto
  <2>2. queue' = [queue EXCEPT ![q] = Tail(queue[q])]
    BY <1>3, <1>1 DEF Pop
  <2>3. item'[t] = queue[q][1] /\ phase'[t] = "check"
    BY <2>1, <1>3, <1>1 DEF TypeOK
  <2>4. /\ Len(queue'[q]) = Len(queue[q]) - 1
        /\ \A i \in 1..(Len(queue[q]) - 1) : queue'[q][i] = queue[q][i + 1]
    BY <2>2, <1>1, <1>3
  <2>5. PICK c \in Queues : \E i \in 1..Len(queue[c]) : queue[c][i] = r
    BY DEF Queued
  <2>6. CASE c # q
    BY <2>2, <2>5, <2>6, <1>1 DEF Queued
  <2>7. CASE c = q
    <3>1. PICK i \in 1..Len(queue[q]) : queue[q][i] = r
      BY <2>5, <2>7
    <3>2. CASE i = 1
      BY <3>1, <3>2, <2>3 DEF Holds
    <3>3. CASE i # 1
      <4>1. Len(queue[q]) \in Nat
        BY <1>1
      <4>2. i - 1 \in 1..(Len(queue[q]) - 1) /\ (i - 1) + 1 = i
        BY <3>1, <3>3, <4>1
      <4>3. queue'[q][i - 1] = r /\ i - 1 \in 1..Len(queue'[q])
        BY <2>4, <3>1, <4>2
      <4> QED
        BY <4>3, <1>1 DEF Queued
    <3> QED
      BY <3>2, <3>3
  <2> QED
    BY <2>6, <2>7
<1> QED
  BY <1>2, <1>3

\* A thread that moves without the queues loses nobody but what it holds.
LEMMA KeptFrame ==
  ASSUME NEW t \in Threads,
         \A u \in Threads \ {t} :
            phase'[u] = phase[u] /\ item'[u] = item[u] /\ fate'[u] = fate[u],
         NEW p, Kept(p),
         Queued(p) => Queued(p)',
         onError[p] = "live" => onError'[p] = "live",
         Holds(t, p) => Kept(p)'
  PROVE  Kept(p)'
<1>1. CASE Queued(p) \/ onError[p] = "live"
  BY <1>1 DEF Kept
<1>2. ASSUME NEW u \in Threads, Holds(u, p)
      PROVE  Kept(p)'
  <2>1. CASE u = t
    BY <1>2, <2>1
  <2>2. CASE u # t
    <3>1. Holds(u, p)'
      BY <1>2, <2>2 DEF Holds
    <3> QED
      BY <3>1, HandsOfOne DEF Kept
  <2> QED
    BY <2>1, <2>2
<1> QED
  BY <1>1, <1>2, HandsOfOne DEF Kept

\* No thread holds less, and neither the queues nor the errors lose a pair.
LEMMA KeptStill ==
  ASSUME UNCHANGED <<item, fate>>,
         \A t \in Threads : phase'[t] = phase[t] \/ phase[t] \in {"none", "starting", "ended", "killed"},
         NEW p, Kept(p),
         Queued(p) => Queued(p)',
         onError[p] = "live" => onError'[p] = "live"
  PROVE  Kept(p)'
<1>1. \A t \in Threads : Holds(t, p) => Holds(t, p)'
  BY DEF Holds
<1> QED
  BY <1>1, HandsOfOne DEF Kept

-----------------------------------------------------------------------------
(* No pair is lost                                                         *)

\* Without the two endings, no item is ever put on error under "void".
LEMMA VoidStep ==
  ASSUME NothingForgotten, RowInv, NoVoid, [Next]_vars
  PROVE  NoVoid'
<1> USE DEF NoVoid, RowInv, TypeOK, NothingForgotten
<1>1. CASE InitProcessors
  BY <1>1 DEF InitProcessors
<1>2. CASE ShutdownProcessors
  BY <1>2 DEF ShutdownProcessors
<1>3. CASE LaunchProcessors
  BY <1>3 DEF LaunchProcessors
<1>4. CASE ThreadFinished
  BY <1>4 DEF ThreadFinished, ReapThreads, Finished
<1>5. CASE OnNewError
  BY <1>5 DEF OnNewError
<1>6. CASE OnErrorTimerIdle
  BY <1>6 DEF OnErrorTimerIdle, StopTimer
<1>7. ASSUME NEW p \in Pairs, OnErrorTimer(p)
      PROVE  NoVoid'
  BY <1>7 DEF OnErrorTimer, Push, Put, Quit
<1>8. ASSUME NEW p \in Pairs, PushPair(p)
      PROVE  NoVoid'
  BY <1>8 DEF PushPair, Push, Put, Quit
<1>9. ASSUME NEW p \in Pairs, RetryPair(p)
      PROVE  NoVoid'
  BY <1>9 DEF RetryPair, Push, Put, Quit
<1>10. CASE Suspend
  BY <1>10 DEF Suspend, SuspendEngine, SuspendQueue
<1>11. CASE Resume
  BY <1>11 DEF Resume, ResumeQueue, Alive
<1>12. CASE SetOffline
  BY <1>12 DEF SetOffline, SuspendQueue
<1>13. CASE SetOnline
  BY <1>13 DEF SetOnline, ResumeQueue
<1>14. CASE ScanBegin
  BY <1>14 DEF ScanBegin, StopWorkers
<1>15. CASE ScanEnd
  BY <1>15 DEF ScanEnd, ResumeQueue
<1>16. ASSUME NEW t \in Threads, StartRun(t)
      PROVE  NoVoid'
  BY <1>16 DEF StartRun, Goto, First
<1>17. ASSUME NEW t \in Threads, ChooseFile(t)
      PROVE  NoVoid'
  BY <1>17 DEF ChooseFile, Goto, First
<1>18. ASSUME NEW t \in Threads, Pop(t)
      PROVE  NoVoid'
  BY <1>18 DEF Pop, Goto
<1>19. ASSUME NEW t \in Threads, CheckOnError(t)
      PROVE  NoVoid'
  BY <1>19 DEF CheckOnError, Goto
<1>20. ASSUME NEW t \in Threads, Acquire(t)
      PROVE  NoVoid'
  BY <1>20 DEF Acquire, AcquireIf, Goto
<1>21. ASSUME NEW t \in Threads, DropItem(t)
      PROVE  NoVoid'
  BY <1>21 DEF DropItem, Forget, Goto, First
<1>22. ASSUME NEW t \in Threads, PostponeItem(t)
      PROVE  NoVoid'
  BY <1>22 DEF PostponeItem, InUse, Goto
<1>23. ASSUME NEW t \in Threads, Synchronize(t)
      PROVE  NoVoid'
  BY <1>23 DEF Synchronize, Goto
<1>24. ASSUME NEW t \in Threads, PushErrorCheck(t)
      PROVE  NoVoid'
  BY <1>24 DEF PushErrorCheck, LeaveError, Goto, First
<1>25. ASSUME NEW t \in Threads, PushErrorInsert(t)
      PROVE  NoVoid'
  BY <1>25 DEF PushErrorInsert, LeaveError, Goto, First
<1>26. ASSUME NEW t \in Threads, Release(t)
      PROVE  NoVoid'
  BY <1>26 DEF Release, ReleaseRows, Goto, First
<1>27. ASSUME NEW t \in Threads, Interact(t)
      PROVE  NoVoid'
  BY <1>27 DEF Interact, Goto, First
<1>28. ASSUME NEW t \in Threads, Done(t)
      PROVE  NoVoid'
  BY <1>28 DEF Done, Ends, Goto
<1>29. ASSUME NEW t \in Threads, Removed(t)
      PROVE  NoVoid'
  BY <1>29 DEF Removed, Ends, Goto
<1>30. ASSUME NEW t \in Threads, Requeue(t)
      PROVE  NoVoid'
  BY <1>30 DEF Requeue, Ends, Push, Put, Quit, Goto
<1>31. ASSUME NEW t \in Threads, Interrupted(t)
      PROVE  NoVoid'
  BY <1>31 DEF Interrupted, InterruptedBy, Ends, Push, Put, Quit, Goto
<1>32. ASSUME NEW t \in Threads, Postpone(t)
      PROVE  NoVoid'
  BY <1>32 DEF Postpone, Ends, Goto
<1>33. ASSUME NEW t \in Threads, PostponeVoid(t)
      PROVE  NoVoid'
  BY <1>33 DEF PostponeVoid, Ends, Goto
<1>34. ASSUME NEW t \in Threads, OngoingRequest(t)
      PROVE  NoVoid'
  BY <1>34 DEF OngoingRequest, Ends, Goto
<1>35. ASSUME NEW t \in Threads, HandlerError(t)
      PROVE  NoVoid'
  BY <1>35 DEF HandlerError, Ends, IncreaseError, Goto
<1>36. ASSUME NEW t \in Threads, GiveUp(t)
      PROVE  NoVoid'
  BY <1>36 DEF GiveUp, Ends, IncreaseError, Goto
<1>37. ASSUME NEW t \in Threads, NoSpace(t)
      PROVE  NoVoid'
  BY <1>37 DEF NoSpace, Ends, SuspendEngine, SuspendQueue, IncreaseError, Goto
<1>38. ASSUME NEW t \in Threads, Skip(t)
      PROVE  NoVoid'
  BY <1>38 DEF Skip, Ends, Goto
<1>40. ASSUME NEW p \in Pairs, FreeRow(p)
      PROVE  NoVoid'
  BY <1>40 DEF FreeRow
<1>41. ASSUME NEW S \in SUBSET Pairs, DeleteFolder(S)
      PROVE  NoVoid'
  BY <1>41 DEF DeleteFolder
<1>42. ASSUME NEW t \in Threads, Terminate(t)
      PROVE  NoVoid'
  BY <1>42 DEF Terminate
<1>43. ASSUME NEW t \in Threads, Raised(t)
      PROVE  NoVoid'
  BY <1>43 DEF Raised
<1>39. CASE UNCHANGED vars
  BY <1>39 DEF vars
<1> QED
  BY <1>1, <1>2, <1>3, <1>4, <1>5, <1>6, <1>7, <1>8, <1>9, <1>10, <1>11,
     <1>12, <1>13, <1>14, <1>15, <1>16, <1>17, <1>18, <1>19, <1>20, <1>21,
     <1>22, <1>23, <1>24, <1>25, <1>26, <1>27, <1>28, <1>29, <1>30, <1>31,
     <1>32, <1>33, <1>34, <1>35, <1>36, <1>37, <1>38, <1>39, <1>40, <1>41,
     <1>42, <1>43
  DEF Next, Main, Environment, Processor, HandlerEnds

\* Every step that leaves a pair owed a handler leaves it somewhere.
LEMMA LostStep ==
  ASSUME NothingForgotten, DeliveryInv, NoVoid', [Next]_vars
  PROVE  NoLostPair'
<1> SUFFICES ASSUME NEW r \in Pairs, r \in owed' PROVE Kept(r)'
  <2>1. owed' \subseteq Pairs
    BY TypeStep DEF DeliveryInv, RowInv, RowPart, TypeOK
  <2> QED
    BY <2>1 DEF NoLostPair, Kept, InHands, Queued
<1>a. r \in owed => Kept(r)
  BY DEF DeliveryInv, NoLostPair, Kept
<1> USE DEF TypeOK, DeliveryInv, RowInv, RowPart
<1>1. CASE InitProcessors
  BY <1>1, <1>a, KeptStill DEF InitProcessors, Queued
<1>2. CASE ShutdownProcessors
  BY <1>2, <1>a, KeptStill DEF ShutdownProcessors, Queued
<1>3. CASE LaunchProcessors
  BY <1>3, <1>a, KeptStill, LaunchPhase DEF LaunchProcessors, Queued
<1>4. CASE ThreadFinished
  BY <1>4, <1>a, KeptStill DEF ThreadFinished, ReapThreads, Finished, Queued
<1>5. CASE OnNewError
  BY <1>5, <1>a, KeptStill DEF OnNewError, Queued
<1>6. CASE OnErrorTimerIdle
  BY <1>6, <1>a, KeptStill DEF OnErrorTimerIdle, StopTimer, Queued
<1>7. ASSUME NEW p \in Pairs, OnErrorTimer(p)
      PROVE  Kept(r)'
  <2>1. onError[p] = "live" /\ Push(p)
    BY <1>7 DEF OnErrorTimer, NoVoid
  <2>2. Queued(p)' /\ (Queued(r) => Queued(r)')
    BY <2>1, PushQueues
  <2>3. CASE r = p
    BY <2>2, <2>3 DEF Kept
  <2>4. CASE r # p
    <3>1. UNCHANGED <<item, fate, phase>> /\ (onError[r] = "live" => onError'[r] = "live")
      BY <1>7, <2>4 DEF OnErrorTimer
    <3> QED
      BY <1>7, <1>a, <2>2, <3>1, KeptStill DEF OnErrorTimer
  <2> QED
    BY <2>3, <2>4
<1>8. ASSUME NEW p \in Pairs, PushPair(p)
      PROVE  Kept(r)'
  <2>1. Queued(p)' /\ (Queued(r) => Queued(r)')
    BY <1>8, PushQueues DEF PushPair
  <2>2. CASE r = p
    BY <2>1, <2>2 DEF Kept
  <2>3. CASE r # p
    BY <1>8, <1>a, <2>1, <2>3, KeptStill DEF PushPair
  <2> QED
    BY <2>2, <2>3
<1>9. ASSUME NEW p \in Pairs, RetryPair(p)
      PROVE  Kept(r)'
  <2>1. Queued(p)' /\ (Queued(r) => Queued(r)')
    BY <1>9, PushQueues DEF RetryPair
  <2>2. CASE r = p
    BY <2>1, <2>2 DEF Kept
  <2>3. CASE r # p
    BY <1>9, <1>a, <2>1, <2>3, KeptStill DEF RetryPair
  <2> QED
    BY <2>2, <2>3
<1>10. CASE Suspend
  BY <1>10, <1>a, KeptStill DEF Suspend, SuspendEngine, SuspendQueue, Queued
<1>11. CASE Resume
  BY <1>11, <1>a, KeptStill DEF Resume, ResumeQueue, Alive, Queued
<1>12. CASE SetOffline
  BY <1>12, <1>a, KeptStill DEF SetOffline, SuspendQueue, Queued
<1>13. CASE SetOnline
  BY <1>13, <1>a, KeptStill DEF SetOnline, ResumeQueue, Queued
<1>14. CASE ScanBegin
  BY <1>14, <1>a, KeptStill DEF ScanBegin, StopWorkers, Queued
<1>15. CASE ScanEnd
  BY <1>15, <1>a, KeptStill DEF ScanEnd, ResumeQueue, Queued
<1>16. ASSUME NEW t \in Threads, StartRun(t)
      PROVE  Kept(r)'
  <2>1. UNCHANGED <<queue, onError, owed, fate>>
    BY <1>16 DEF StartRun
  <2>2. \A u \in Threads \ {t} : phase'[u] = phase[u] /\ item'[u] = item[u]
    BY <1>16 DEF StartRun, Goto, First
  <2>3. ~Holds(t, r)
    BY <1>16 DEF StartRun, Goto, First, Holds
  <2> QED
    BY <1>a, <2>1, <2>2, <2>3, KeptFrame DEF Queued
<1>17. ASSUME NEW t \in Threads, ChooseFile(t)
      PROVE  Kept(r)'
  <2>1. UNCHANGED <<queue, onError, owed, fate>>
    BY <1>17 DEF ChooseFile
  <2>2. \A u \in Threads \ {t} : phase'[u] = phase[u] /\ item'[u] = item[u]
    BY <1>17 DEF ChooseFile, Goto, First
  <2>3. ~Holds(t, r)
    BY <1>17 DEF ChooseFile, Goto, First, Holds
  <2> QED
    BY <1>a, <2>1, <2>2, <2>3, KeptFrame DEF Queued
<1>18. ASSUME NEW t \in Threads, Pop(t)
      PROVE  Kept(r)'
  <2>1. UNCHANGED <<fate, onError, owed>> /\ phase[t] = "pop"
    BY <1>18 DEF Pop
  <2>2. \A u \in Threads \ {t} : phase'[u] = phase[u] /\ item'[u] = item[u]
    BY <1>18 DEF Pop, Goto
  <2>3. ~Holds(t, r)
    BY <2>1 DEF Holds
  <2>4. Queued(r) => Queued(r)' \/ Holds(t, r)'
    BY <1>18, PopQueues
  <2>5. CASE Holds(t, r)'
    BY <2>5, HandsOfOne DEF Kept
  <2>6. CASE ~Holds(t, r)'
    BY <1>a, <2>1, <2>2, <2>3, <2>4, <2>6, KeptFrame
  <2> QED
    BY <2>5, <2>6
<1>19. ASSUME NEW t \in Threads, CheckOnError(t)
      PROVE  Kept(r)'
  <2>1. UNCHANGED queue /\ (onError[r] = "live" => onError'[r] = "live") /\ r \in owed
    BY <1>19 DEF CheckOnError, Goto
  <2>2. \A u \in Threads \ {t} :
          phase'[u] = phase[u] /\ item'[u] = item[u] /\ fate'[u] = fate[u]
    BY <1>19 DEF CheckOnError, Goto
  <2>3. Holds(t, r) => Kept(r)'
    <3>1. CASE onError[item[t]] # "no"
      BY <3>1, <1>19 DEF CheckOnError, Kept, Holds, NoVoid, HasItem
    <3>2. CASE onError[item[t]] = "no"
      <4>1. UNCHANGED item /\ phase'[t] \in {"recheck", "acquire"}
        BY <3>2, <1>19 DEF CheckOnError, Goto
      <4> QED
        BY <4>1, HandsOfOne DEF Holds, Kept
    <3> QED
      BY <3>1, <3>2
  <2> QED
    BY <1>a, <2>1, <2>2, <2>3, KeptFrame DEF Queued
<1>20. ASSUME NEW t \in Threads, Acquire(t)
      PROVE  Kept(r)'
  <2>1. UNCHANGED queue /\ (onError[r] = "live" => onError'[r] = "live") /\ r \in owed
    BY <1>20 DEF Acquire, Goto, AcquireIf
  <2>2. \A u \in Threads \ {t} :
          phase'[u] = phase[u] /\ item'[u] = item[u] /\ fate'[u] = fate[u]
    BY <1>20 DEF Acquire, AcquireIf, Goto
  <2>3. ~Holds(t, r)
    BY <1>20 DEF Acquire, AcquireIf, Goto, Holds
  <2> QED
    BY <1>a, <2>1, <2>2, <2>3, KeptFrame DEF Queued
<1>21. ASSUME NEW t \in Threads, DropItem(t)
      PROVE  Kept(r)'
  <2>1. UNCHANGED queue /\ (onError[r] = "live" => onError'[r] = "live") /\ r \in owed
    BY <1>21 DEF DropItem, Goto, Forget
  <2>2. \A u \in Threads \ {t} :
          phase'[u] = phase[u] /\ item'[u] = item[u] /\ fate'[u] = fate[u]
    BY <1>21 DEF DropItem, Forget, Goto, First
  <2>3. ~Holds(t, r)
    BY <1>21 DEF DropItem, Forget, Goto, First, Holds
  <2> QED
    BY <1>a, <2>1, <2>2, <2>3, KeptFrame DEF Queued
<1>22. ASSUME NEW t \in Threads, PostponeItem(t)
      PROVE  Kept(r)'
  <2>1. UNCHANGED queue /\ (onError[r] = "live" => onError'[r] = "live") /\ r \in owed
    BY <1>22 DEF PostponeItem, Goto
  <2>2. \A u \in Threads \ {t} :
          phase'[u] = phase[u] /\ item'[u] = item[u] /\ fate'[u] = fate[u]
    BY <1>22 DEF PostponeItem, InUse, Goto
  <2>3. Holds(t, r) => Kept(r)'
    <3>1. phase'[t] = "fail" /\ fate'[t] = "busy" /\ UNCHANGED item
      BY <1>22 DEF PostponeItem, InUse, Goto
    <3> QED
      BY <3>1, HandsOfOne DEF Holds, Kept
  <2> QED
    BY <1>a, <2>1, <2>2, <2>3, KeptFrame DEF Queued
<1>23. ASSUME NEW t \in Threads, Synchronize(t)
      PROVE  Kept(r)'
  <2>1. UNCHANGED <<queue, onError, owed, fate>>
    BY <1>23 DEF Synchronize
  <2>2. \A u \in Threads \ {t} : phase'[u] = phase[u] /\ item'[u] = item[u]
    BY <1>23 DEF Synchronize, Goto
  <2>3. ~Holds(t, r)
    BY <1>23 DEF Synchronize, Goto, Holds
  <2> QED
    BY <1>a, <2>1, <2>2, <2>3, KeptFrame DEF Queued
<1>24. ASSUME NEW t \in Threads, PushErrorCheck(t)
      PROVE  Kept(r)'
  <2>1. UNCHANGED queue /\ (onError[r] = "live" => onError'[r] = "live") /\ r \in owed
    BY <1>24 DEF PushErrorCheck, Goto
  <2>2. \A u \in Threads \ {t} :
          phase'[u] = phase[u] /\ item'[u] = item[u] /\ fate'[u] = fate[u]
    BY <1>24 DEF PushErrorCheck, LeaveError, Goto, First
  <2>3. Holds(t, r) => Kept(r)'
    <3>1. CASE onError[item[t]] # "no"
      BY <3>1, <1>24 DEF PushErrorCheck, Kept, Holds, NoVoid, HasItem, Working
    <3>2. CASE onError[item[t]] = "no"
      <4>1. UNCHANGED <<item, fate>> /\ phase'[t] = "insert"
        BY <3>2, <1>24 DEF PushErrorCheck, Goto
      <4> QED
        BY <4>1, HandsOfOne DEF Holds, Kept, NoVoid
    <3> QED
      BY <3>1, <3>2
  <2> QED
    BY <1>a, <2>1, <2>2, <2>3, KeptFrame DEF Queued
<1>25. ASSUME NEW t \in Threads, PushErrorInsert(t)
      PROVE  Kept(r)'
  <2>1. UNCHANGED queue /\ (onError[r] = "live" => onError'[r] = "live") /\ r \in owed
    BY <1>25 DEF PushErrorInsert, NoVoid
  <2>2. \A u \in Threads \ {t} :
          phase'[u] = phase[u] /\ item'[u] = item[u] /\ fate'[u] = fate[u]
    BY <1>25 DEF PushErrorInsert, LeaveError, Goto, First
  <2>3. Holds(t, r) => Kept(r)'
    BY <1>25 DEF PushErrorInsert, Holds, Kept
  <2> QED
    BY <1>a, <2>1, <2>2, <2>3, KeptFrame DEF Queued
<1>26. ASSUME NEW t \in Threads, Release(t)
      PROVE  Kept(r)'
  <2>1. UNCHANGED <<queue, onError, owed, fate>>
    BY <1>26 DEF Release, ReleaseRows
  <2>2. \A u \in Threads \ {t} : phase'[u] = phase[u] /\ item'[u] = item[u]
    BY <1>26 DEF Release, ReleaseRows, Goto, First
  <2>3. ~Holds(t, r)
    BY <1>26 DEF Release, ReleaseRows, Goto, First, Holds
  <2> QED
    BY <1>a, <2>1, <2>2, <2>3, KeptFrame DEF Queued
<1>27. ASSUME NEW t \in Threads, Interact(t)
      PROVE  Kept(r)'
  <2>1. UNCHANGED <<queue, onError, owed, fate>>
    BY <1>27 DEF Interact
  <2>2. \A u \in Threads \ {t} : phase'[u] = phase[u] /\ item'[u] = item[u]
    BY <1>27 DEF Interact, Goto, First
  <2>3. ~Holds(t, r)
    BY <1>27 DEF Interact, Goto, First, Holds
  <2> QED
    BY <1>a, <2>1, <2>2, <2>3, KeptFrame DEF Queued
<1>28. ASSUME NEW t \in Threads, Done(t)
      PROVE  Kept(r)'
  <2>1. UNCHANGED <<queue, onError, owed, fate>>
    BY <1>28 DEF Done
  <2>2. \A u \in Threads \ {t} : phase'[u] = phase[u] /\ item'[u] = item[u]
    BY <1>28 DEF Done, Ends, Goto
  <2>3. ~Holds(t, r)
    BY <1>28 DEF Done, Ends, Goto, Holds
  <2> QED
    BY <1>a, <2>1, <2>2, <2>3, KeptFrame DEF Queued
<1>29. ASSUME NEW t \in Threads, Removed(t)
      PROVE  Kept(r)'
  <2>1. UNCHANGED <<queue, onError, owed, fate>>
    BY <1>29 DEF Removed
  <2>2. \A u \in Threads \ {t} : phase'[u] = phase[u] /\ item'[u] = item[u]
    BY <1>29 DEF Removed, Ends, Goto
  <2>3. ~Holds(t, r)
    BY <1>29 DEF Removed, Ends, Goto, Holds
  <2> QED
    BY <1>a, <2>1, <2>2, <2>3, KeptFrame DEF Queued
<1>30. ASSUME NEW t \in Threads, Requeue(t)
      PROVE  Kept(r)'
  <2>1. item[t] \in Pairs /\ phase[t] = "handling" /\ Push(item[t])
    BY <1>30 DEF HasItem, Working, Requeue, Ends, Goto
  <2>2. PICK p \in Pairs : p = item[t] /\ Push(p)
    BY <2>1
  <2>3. Queued(p)' /\ (Queued(r) => Queued(r)')
    BY <2>2, PushQueues
  <2>4. CASE r = p
    BY <2>3, <2>4 DEF Kept
  <2>5. CASE r # p
    <3>1. r \in owed /\ UNCHANGED <<item, fate, onError>>
      BY <1>30, <2>2, <2>5 DEF Requeue, Ends, Goto
    <3>2. \A u \in Threads \ {t} : phase'[u] = phase[u]
      BY <1>30 DEF Requeue, Ends, Goto
    <3>3. ~Holds(t, r)
      BY <2>1 DEF Holds
    <3> QED
      BY <1>a, <2>3, <3>1, <3>2, <3>3, KeptFrame
  <2> QED
    BY <2>4, <2>5
<1>31. ASSUME NEW t \in Threads, Interrupted(t)
      PROVE  Kept(r)'
  <2>1. item[t] \in Pairs /\ phase[t] = "handling" /\ Push(item[t])
    BY <1>31 DEF HasItem, Working, Interrupted, InterruptedBy, Ends, Goto
  <2>2. PICK p \in Pairs : p = item[t] /\ Push(p)
    BY <2>1
  <2>3. Queued(p)' /\ (Queued(r) => Queued(r)')
    BY <2>2, PushQueues
  <2>4. CASE r = p
    BY <2>3, <2>4 DEF Kept
  <2>5. CASE r # p
    <3>1. r \in owed /\ UNCHANGED <<item, fate, onError>>
      BY <1>31, <2>2, <2>5 DEF Interrupted, InterruptedBy, Ends, Goto
    <3>2. \A u \in Threads \ {t} : phase'[u] = phase[u]
      BY <1>31 DEF Interrupted, InterruptedBy, Ends, Goto
    <3>3. ~Holds(t, r)
      BY <2>1 DEF Holds
    <3> QED
      BY <1>a, <2>3, <3>1, <3>2, <3>3, KeptFrame
  <2> QED
    BY <2>4, <2>5
<1>32. ASSUME NEW t \in Threads, Postpone(t)
      PROVE  Kept(r)'
  <2>1. UNCHANGED <<queue, onError, item>> /\ phase[t] = "handling"
    BY <1>32 DEF Postpone, Ends, Goto
  <2>2. \A u \in Threads \ {t} : phase'[u] = phase[u] /\ fate'[u] = fate[u]
    BY <1>32 DEF Postpone, Ends, Goto
  <2>3. ~Holds(t, r)
    BY <2>1 DEF Holds
  <2>4. r \in owed \/ (r = item[t] /\ phase'[t] = "fail" /\ fate'[t] = "live")
    BY <1>32 DEF Postpone, Ends, Goto
  <2>5. CASE r \in owed
    BY <1>a, <2>1, <2>2, <2>3, <2>5, KeptFrame DEF Queued
  <2>6. CASE r = item[t] /\ phase'[t] = "fail" /\ fate'[t] = "live"
    BY <2>1, <2>6, HandsOfOne DEF Holds, Kept
  <2> QED
    BY <2>4, <2>5, <2>6
<1>33. ASSUME NEW t \in Threads, PostponeVoid(t)
      PROVE  Kept(r)'
  BY <1>33 DEF PostponeVoid, Ends, Goto, NothingForgotten
<1>34. ASSUME NEW t \in Threads, OngoingRequest(t)
      PROVE  Kept(r)'
  BY <1>34 DEF OngoingRequest, Ends, Goto, NothingForgotten
<1>35. ASSUME NEW t \in Threads, HandlerError(t)
      PROVE  Kept(r)'
  <2>1. UNCHANGED <<queue, onError, item>> /\ phase[t] = "handling"
    BY <1>35 DEF HandlerError, Ends, IncreaseError, Goto
  <2>2. \A u \in Threads \ {t} : phase'[u] = phase[u] /\ fate'[u] = fate[u]
    BY <1>35 DEF HandlerError, Ends, IncreaseError, Goto
  <2>3. ~Holds(t, r)
    BY <2>1 DEF Holds
  <2>4. r \in owed \/ (r = item[t] /\ phase'[t] = "fail" /\ fate'[t] = "live")
    BY <1>35 DEF HandlerError, Ends, IncreaseError, Goto
  <2>5. CASE r \in owed
    BY <1>a, <2>1, <2>2, <2>3, <2>5, KeptFrame DEF Queued
  <2>6. CASE r = item[t] /\ phase'[t] = "fail" /\ fate'[t] = "live"
    BY <2>1, <2>6, HandsOfOne DEF Holds, Kept
  <2> QED
    BY <2>4, <2>5, <2>6
<1>36. ASSUME NEW t \in Threads, GiveUp(t)
      PROVE  Kept(r)'
  <2>1. UNCHANGED <<queue, onError, item>> /\ phase[t] = "handling"
    BY <1>36 DEF GiveUp, Ends, IncreaseError, Goto
  <2>2. \A u \in Threads \ {t} : phase'[u] = phase[u] /\ fate'[u] = fate[u]
    BY <1>36 DEF GiveUp, Ends, IncreaseError, Goto
  <2>3. ~Holds(t, r)
    BY <2>1 DEF Holds
  <2>4. r \in owed \/ (r = item[t] /\ phase'[t] = "fail" /\ fate'[t] = "live")
    BY <1>36 DEF GiveUp, Ends, IncreaseError, Goto
  <2>5. CASE r \in owed
    BY <1>a, <2>1, <2>2, <2>3, <2>5, KeptFrame DEF Queued
  <2>6. CASE r = item[t] /\ phase'[t] = "fail" /\ fate'[t] = "live"
    BY <2>1, <2>6, HandsOfOne DEF Holds, Kept
  <2> QED
    BY <2>4, <2>5, <2>6
<1>37. ASSUME NEW t \in Threads, NoSpace(t)
      PROVE  Kept(r)'
  <2>1. UNCHANGED <<queue, onError, item>> /\ phase[t] = "handling"
    BY <1>37 DEF NoSpace, Ends, SuspendEngine, SuspendQueue, IncreaseError, Goto
  <2>2. \A u \in Threads \ {t} : phase'[u] = phase[u] /\ fate'[u] = fate[u]
    BY <1>37 DEF NoSpace, Ends, SuspendEngine, SuspendQueue, IncreaseError, Goto
  <2>3. ~Holds(t, r)
    BY <2>1 DEF Holds
  <2>4. r \in owed \/ (r = item[t] /\ phase'[t] = "fail" /\ fate'[t] = "live")
    BY <1>37 DEF NoSpace, Ends, SuspendEngine, SuspendQueue, IncreaseError, Goto
  <2>5. CASE r \in owed
    BY <1>a, <2>1, <2>2, <2>3, <2>5, KeptFrame DEF Queued
  <2>6. CASE r = item[t] /\ phase'[t] = "fail" /\ fate'[t] = "live"
    BY <2>1, <2>6, HandsOfOne DEF Holds, Kept
  <2> QED
    BY <2>4, <2>5, <2>6
<1>38. ASSUME NEW t \in Threads, Skip(t)
      PROVE  Kept(r)'
  <2>1. UNCHANGED <<queue, onError, owed, fate>>
    BY <1>38 DEF Skip
  <2>2. \A u \in Threads \ {t} : phase'[u] = phase[u] /\ item'[u] = item[u]
    BY <1>38 DEF Skip, Ends, Goto
  <2>3. ~Holds(t, r)
    BY <1>38 DEF Skip, Ends, Goto, Holds
  <2> QED
    BY <1>a, <2>1, <2>2, <2>3, KeptFrame DEF Queued
<1>40. ASSUME NEW p \in Pairs, FreeRow(p)
      PROVE  Kept(r)'
  BY <1>40, <1>a, KeptStill DEF FreeRow, Queued
<1>41. ASSUME NEW S \in SUBSET Pairs, DeleteFolder(S)
      PROVE  Kept(r)'
  BY <1>41, <1>a, KeptStill DEF DeleteFolder, Queued
<1>42. ASSUME NEW t \in Threads, Terminate(t)
      PROVE  Kept(r)'
  <2>1. UNCHANGED <<queue, onError, owed, fate>>
    BY <1>42 DEF Terminate
  <2>2. \A u \in Threads \ {t} : phase'[u] = phase[u] /\ item'[u] = item[u]
    BY <1>42 DEF Terminate, Goto
  <2>3. ~Holds(t, r)
    BY <1>42 DEF Terminate, Holds
  <2> QED
    BY <1>a, <2>1, <2>2, <2>3, KeptFrame DEF Queued
<1>43. ASSUME NEW t \in Threads, Raised(t)
      PROVE  Kept(r)'
  <2>1. UNCHANGED <<queue, onError, owed, fate>>
    BY <1>43 DEF Raised
  <2>2. \A u \in Threads \ {t} : phase'[u] = phase[u] /\ item'[u] = item[u]
    BY <1>43 DEF Raised, Ends, Goto
  <2>3. ~Holds(t, r)
    BY <1>43 DEF Raised, Ends, Goto, Holds
  <2> QED
    BY <1>a, <2>1, <2>2, <2>3, KeptFrame DEF Queued
<1>39. CASE UNCHANGED vars
  BY <1>39, <1>a, KeptStill DEF vars, Queued
<1> QED
  BY <1>1, <1>2, <1>3, <1>4, <1>5, <1>6, <1>7, <1>8, <1>9, <1>10, <1>11,
     <1>12, <1>13, <1>14, <1>15, <1>16, <1>17, <1>18, <1>19, <1>20, <1>21,
     <1>22, <1>23, <1>24, <1>25, <1>26, <1>27, <1>28, <1>29, <1>30, <1>31,
     <1>32, <1>33, <1>34, <1>35, <1>36, <1>37, <1>38, <1>39, <1>40, <1>41,
     <1>42, <1>43
  DEF Next, Main, Environment, Processor, HandlerEnds

\* Whatever the pairs, the pool and the threads: as long as no handler ends in
\* one of the two ways that forget its pair, a pair that is owed a handler is
\* in a queue, in the hands of a thread or waiting for the error timer.
THEOREM NoneLost ==
  ASSUME NothingForgotten
  PROVE  Spec => []NoLostPair
<1>1. Init => DeliveryInv
  BY RowInit DEF Init, DeliveryInv, NoVoid, NoLostPair
<1>2. DeliveryInv /\ [Next]_vars => DeliveryInv'
  <2> SUFFICES ASSUME DeliveryInv, [Next]_vars PROVE DeliveryInv'
    OBVIOUS
  <2>1. RowInv'
    BY RowStep DEF DeliveryInv
  <2>2. NoVoid'
    BY VoidStep DEF DeliveryInv
  <2>3. NoLostPair'
    BY <2>2, LostStep
  <2> QED
    BY <2>1, <2>2, <2>3 DEF DeliveryInv
<1>3. DeliveryInv => NoLostPair
  BY DEF DeliveryInv
<1> QED
  BY <1>1, <1>2, <1>3, PTL DEF Spec

-----------------------------------------------------------------------------
(* The queues implement PairDelivery                                       *)

DeliveryStep == [Delivery!Next]_(Delivery!vars)

\* What PairDelivery sees of the queues.
Seen == <<owed, owner, rows, enabled, connected, paused, hung>>

\* A step that touches nothing of it is invisible.
LEMMA Invisible ==
  ASSUME UNCHANGED Seen
  PROVE  DeliveryStep
  BY DEF Seen, DeliveryStep, Open, Delivery!vars

\* Suspensions, connections and scans open or close the processing.
LEMMA Gate ==
  ASSUME TypeOK', UNCHANGED <<owed, owner, rows>>
  PROVE  DeliveryStep
<1>1. Open' \in BOOLEAN
  BY DEF Open, TypeOK
<1>2. Delivery!OpenOrClose
  BY <1>1 DEF Delivery!OpenOrClose
<1> QED
  BY <1>2 DEF DeliveryStep, Delivery!Next

\* push() stops threads, the hung ones too, and starts none.
LEMMA PushQuits ==
  ASSUME NEW p \in Pairs, Push(p)
  PROVE  hung' \subseteq hung /\ enabled' = enabled /\ connected' = connected
  BY DEF Push, Put, Quit

\* A push, or a handler that wants another try, submits its pair.
LEMMA Submission ==
  ASSUME NEW p \in Pairs, owed' = owed \cup {p}, hung' \subseteq hung,
         UNCHANGED <<owner, rows, enabled, connected, paused>>
  PROVE  DeliveryStep
<1>1. Delivery!Submit(p)
  BY DEF Delivery!Submit, Open
<1> QED
  BY <1>1 DEF DeliveryStep, Delivery!Next

\* The thread that works on a row frees it.
LEMMA Ending ==
  ASSUME TypeOK, NEW p \in Pairs, owner[p] # Nobody,
         owner' = [owner EXCEPT ![p] = Nobody],
         UNCHANGED <<owed, rows, enabled, connected, paused, hung>>
  PROVE  DeliveryStep
<1>1. {r \in Pairs : owner[r] # Nobody}' = {r \in Pairs : owner[r] # Nobody} \ {p}
  BY DEF TypeOK
<1>2. {r \in Pairs : owner[r] = Ghost}' = {r \in Pairs : owner[r] = Ghost} \ {p}
  BY ConstantsAssumption DEF TypeOK, ConstantsAssumption
<1>3. Delivery!End(p)
  BY <1>1, <1>2 DEF Delivery!End, Open
<1> QED
  BY <1>3 DEF DeliveryStep, Delivery!Next

\* Every step of the queues is a step of PairDelivery or invisible to it.
LEMMA DeliverySteps ==
  ASSUME RowInv, [Next]_vars
  PROVE  DeliveryStep
<1>a. TypeOK' /\ RowInv'
  BY RowStep DEF RowInv
<1> USE DEF RowInv, RowPart, TypeOK
<1>1. CASE InitProcessors
  BY <1>1, <1>a, Gate DEF InitProcessors
<1>2. CASE ShutdownProcessors
  BY <1>2, <1>a, Gate DEF ShutdownProcessors
<1>3. CASE LaunchProcessors
  BY <1>3, Invisible DEF LaunchProcessors, Seen
<1>4. CASE ThreadFinished
  BY <1>4, Invisible DEF ThreadFinished, ReapThreads, Finished, Seen
<1>5. CASE OnNewError
  BY <1>5, Invisible DEF OnNewError, Seen
<1>6. CASE OnErrorTimerIdle
  BY <1>6, Invisible DEF OnErrorTimerIdle, StopTimer, Seen
<1>7. ASSUME NEW p \in Pairs, OnErrorTimer(p)
      PROVE  DeliveryStep
  BY <1>7, <1>a, Gate DEF OnErrorTimer
<1>8. ASSUME NEW p \in Pairs, PushPair(p)
      PROVE  DeliveryStep
  BY <1>8, PushQuits, Submission DEF PushPair
<1>9. ASSUME NEW p \in Pairs, RetryPair(p)
      PROVE  DeliveryStep
  BY <1>9, PushQuits, Submission DEF RetryPair
<1>10. CASE Suspend
  BY <1>10, <1>a, Gate DEF Suspend, SuspendEngine
<1>11. CASE Resume
  BY <1>11, <1>a, Gate DEF Resume
<1>12. CASE SetOffline
  BY <1>12, <1>a, Gate DEF SetOffline
<1>13. CASE SetOnline
  BY <1>13, <1>a, Gate DEF SetOnline
<1>14. CASE ScanBegin
  BY <1>14, <1>a, Gate DEF ScanBegin
<1>15. CASE ScanEnd
  BY <1>15, <1>a, Gate DEF ScanEnd
<1>16. ASSUME NEW t \in Threads, StartRun(t)
      PROVE  DeliveryStep
  BY <1>16, Invisible DEF StartRun, Seen
<1>17. ASSUME NEW t \in Threads, ChooseFile(t)
      PROVE  DeliveryStep
  BY <1>17, Invisible DEF ChooseFile, Seen
<1>18. ASSUME NEW t \in Threads, Pop(t)
      PROVE  DeliveryStep
  BY <1>18, Invisible DEF Pop, Seen
<1>19. ASSUME NEW t \in Threads, CheckOnError(t)
      PROVE  DeliveryStep
  BY <1>19, Invisible DEF CheckOnError, Seen
<1>20. ASSUME NEW t \in Threads, Acquire(t)
      PROVE  DeliveryStep
  <2>1. item[t] \in Pairs
    BY <1>20 DEF HasItem, Working, Acquire, AcquireIf
  <2>2. item[t] \in rows /\ owner[item[t]] = Nobody /\ t # Nobody
    BY <1>20, ConstantsAssumption DEF ConstantsAssumption, Acquire, AcquireIf
  <2>3. owner' = [owner EXCEPT ![item[t]] = t]
    BY <1>20 DEF Acquire, AcquireIf
  <2>4. {r \in Pairs : owner[r] # Nobody}' = {r \in Pairs : owner[r] # Nobody} \cup {item[t]}
    BY <2>1, <2>2, <2>3
  <2>8. {r \in Pairs : owner[r] = Ghost}' = {r \in Pairs : owner[r] = Ghost}
    BY <2>1, <2>2, <2>3, ConstantsAssumption DEF ConstantsAssumption
  <2>5. PICK p \in Pairs : p = item[t]
    BY <2>1
  <2>6. Delivery!Begin(p)
    BY <1>20, <2>2, <2>4, <2>5, <2>8 DEF Delivery!Begin, Acquire, AcquireIf, Open
  <2>7. Delivery!Next
    BY <2>6 DEF Delivery!Next
  <2> QED
    BY <2>7 DEF DeliveryStep
<1>21. ASSUME NEW t \in Threads, DropItem(t)
      PROVE  DeliveryStep
  <2>1. item[t] \in Pairs
    BY <1>21 DEF HasItem, Working, DropItem
  <2>2. Delivery!Discard(item[t])
    BY <1>21, <2>1 DEF Delivery!Discard, DropItem, Forget, Open
  <2> QED
    BY <2>1, <2>2 DEF DeliveryStep, Delivery!Next
<1>22. ASSUME NEW t \in Threads, PostponeItem(t)
      PROVE  DeliveryStep
  BY <1>22, Invisible DEF PostponeItem, Seen
<1>23. ASSUME NEW t \in Threads, Synchronize(t)
      PROVE  DeliveryStep
  <2>1. item[t] \in Pairs
    BY <1>23 DEF HasItem, Working, Synchronize
  <2>2. UNCHANGED <<owed, rows, enabled, connected, paused, hung>>
    BY <1>23 DEF Synchronize
  <2>3. owner' = [owner EXCEPT ![item[t]] = Nobody]
    BY <1>23 DEF Synchronize
  <2>4. CASE owner[item[t]] = Nobody
    <3>1. owner' = owner
      BY <2>1, <2>3, <2>4
    <3> QED
      BY <2>2, <3>1, Invisible DEF Seen
  <2>5. CASE owner[item[t]] # Nobody
    BY <2>1, <2>2, <2>3, <2>5, Ending
  <2> QED
    BY <2>4, <2>5
<1>24. ASSUME NEW t \in Threads, PushErrorCheck(t)
      PROVE  DeliveryStep
  BY <1>24, Invisible DEF PushErrorCheck, LeaveError, Seen
<1>25. ASSUME NEW t \in Threads, PushErrorInsert(t)
      PROVE  DeliveryStep
  BY <1>25, Invisible DEF PushErrorInsert, LeaveError, Seen
<1>26. ASSUME NEW t \in Threads, Release(t)
      PROVE  DeliveryStep
  <2>1. UNCHANGED <<owed, rows, enabled, connected, paused, hung>>
    BY <1>26 DEF Release, ReleaseRows
  <2>2. owner' = [p \in Pairs |-> IF owner[p] = t THEN Nobody ELSE owner[p]]
    BY <1>26 DEF Release, ReleaseRows
  <2>3. CASE \A p \in Pairs : owner[p] # t
    <3>1. owner' = owner
      BY <2>2, <2>3
    <3> QED
      BY <2>1, <3>1, Invisible DEF Seen
  <2>4. ASSUME NEW p \in Pairs, owner[p] = t
        PROVE  DeliveryStep
    <3>1. t # Nobody /\ t # Ghost /\ owner[p] # Nobody
      BY <2>4, ConstantsAssumption DEF ConstantsAssumption
    <3>2. \A r \in Pairs : owner[r] = t => r = p
      BY <2>4, <3>1 DEF OwnerWorks
    <3>3. owner' = [owner EXCEPT ![p] = Nobody]
      BY <2>2, <2>4, <3>2
    <3> QED
      BY <2>1, <3>1, <3>3, Ending
  <2> QED
    BY <2>3, <2>4
<1>27. ASSUME NEW t \in Threads, Interact(t)
      PROVE  DeliveryStep
  BY <1>27, Invisible DEF Interact, Seen
<1>28. ASSUME NEW t \in Threads, Done(t)
      PROVE  DeliveryStep
  BY <1>28, Invisible DEF Done, Seen
<1>29. ASSUME NEW t \in Threads, Removed(t)
      PROVE  DeliveryStep
  <2>1. item[t] \in Pairs
    BY <1>29 DEF HasItem, Working, Removed, Ends
  <2>3. Delivery!Remove(item[t])
    BY <1>29, <2>1 DEF Delivery!Remove, Removed, Open
  <2> QED
    BY <2>1, <2>3 DEF DeliveryStep, Delivery!Next
<1>30. ASSUME NEW t \in Threads, Requeue(t)
      PROVE  DeliveryStep
  <2>1. item[t] \in Pairs
    BY <1>30 DEF HasItem, Working, Requeue, Ends
  <2> QED
    BY <1>30, <2>1, PushQuits, Submission DEF Requeue
<1>31. ASSUME NEW t \in Threads, Interrupted(t)
      PROVE  DeliveryStep
  <2>1. item[t] \in Pairs
    BY <1>31 DEF HasItem, Working, Interrupted, Ends, InterruptedBy
  <2> QED
    BY <1>31, <2>1, PushQuits, Submission DEF Interrupted, InterruptedBy
<1>32. ASSUME NEW t \in Threads, Postpone(t)
      PROVE  DeliveryStep
  <2>1. item[t] \in Pairs
    BY <1>32 DEF HasItem, Working, Postpone, Ends
  <2> QED
    BY <1>32, <2>1, Submission DEF Postpone
<1>33. ASSUME NEW t \in Threads, PostponeVoid(t)
      PROVE  DeliveryStep
  BY <1>33, Invisible DEF PostponeVoid, Seen
<1>34. ASSUME NEW t \in Threads, OngoingRequest(t)
      PROVE  DeliveryStep
  <2>1. item[t] \in Pairs
    BY <1>34 DEF HasItem, Working, OngoingRequest, Ends
  <2> QED
    BY <1>34, <2>1, Submission DEF OngoingRequest
<1>35. ASSUME NEW t \in Threads, HandlerError(t)
      PROVE  DeliveryStep
  <2>1. item[t] \in Pairs
    BY <1>35 DEF HasItem, Working, HandlerError, Ends
  <2>2. UNCHANGED owed \/ owed' = owed \cup {item[t]}
    BY <1>35 DEF HandlerError, IncreaseError
  <2>3. UNCHANGED <<owner, rows, enabled, connected, paused, hung>>
    BY <1>35 DEF HandlerError
  <2> QED
    BY <2>1, <2>2, <2>3, Submission, Invisible DEF Seen
<1>36. ASSUME NEW t \in Threads, GiveUp(t)
      PROVE  DeliveryStep
  <2>1. item[t] \in Pairs
    BY <1>36 DEF HasItem, Working, GiveUp, Ends
  <2>2. UNCHANGED owed \/ owed' = owed \cup {item[t]}
    BY <1>36 DEF GiveUp, IncreaseError
  <2>3. UNCHANGED <<owner, rows, enabled, connected, paused, hung>>
    BY <1>36 DEF GiveUp
  <2> QED
    BY <2>1, <2>2, <2>3, Submission, Invisible DEF Seen
<1>37. ASSUME NEW t \in Threads, NoSpace(t)
      PROVE  DeliveryStep
  <2>1. item[t] \in Pairs
    BY <1>37 DEF HasItem, Working, NoSpace, Ends
  <2>3. UNCHANGED owed \/ owed' = owed \cup {item[t]}
    BY <1>37 DEF NoSpace, IncreaseError
  <2>4. UNCHANGED <<owner, rows>> /\ Open' = FALSE
    BY <1>37 DEF NoSpace, SuspendEngine, Open
  <2>5. Delivery!OpenOrClose
    BY <2>1, <2>3, <2>4 DEF Delivery!OpenOrClose
  <2> QED
    BY <2>5 DEF DeliveryStep, Delivery!Next
<1>38. ASSUME NEW t \in Threads, Skip(t)
      PROVE  DeliveryStep
  BY <1>38, Invisible DEF Skip, Seen
<1>40. ASSUME NEW p \in Pairs, FreeRow(p)
      PROVE  DeliveryStep
  <2>1. UNCHANGED <<owed, rows, enabled, connected, paused, hung>>
    BY <1>40 DEF FreeRow
  <2>2. owner' = [owner EXCEPT ![p] = Nobody]
    BY <1>40 DEF FreeRow
  <2>3. CASE owner[p] = Nobody
    <3>1. owner' = owner
      BY <2>2, <2>3
    <3> QED
      BY <2>1, <3>1, Invisible DEF Seen
  <2>4. CASE owner[p] # Nobody
    BY <2>1, <2>2, <2>4, Ending
  <2> QED
    BY <2>3, <2>4
<1>41. ASSUME NEW S \in SUBSET Pairs, DeleteFolder(S)
      PROVE  DeliveryStep
  BY <1>41, <1>a, Gate DEF DeleteFolder
<1>42. ASSUME NEW t \in Threads, Terminate(t)
      PROVE  DeliveryStep
  <2>1. UNCHANGED <<owed, rows, enabled, connected, paused, hung>>
    BY <1>42 DEF Terminate
  <2>2. owner' = [p \in Pairs |-> IF owner[p] = t THEN Ghost ELSE owner[p]]
    BY <1>42 DEF Terminate
  <2>3. CASE \A p \in Pairs : owner[p] # t
    <3>1. owner' = owner
      BY <2>2, <2>3
    <3> QED
      BY <2>1, <3>1, Invisible DEF Seen
  <2>4. ASSUME NEW p \in Pairs, owner[p] = t
        PROVE  DeliveryStep
    <3>1. Ghost # Nobody /\ t # Nobody /\ t # Ghost
      BY ConstantsAssumption DEF ConstantsAssumption
    <3>2. \A r \in Pairs : owner[r] = t => r = p
      BY <2>4, <3>1 DEF OwnerWorks
    <3>3. {r \in Pairs : owner[r] # Nobody}' = {r \in Pairs : owner[r] # Nobody}
      BY <2>2, <3>1
    <3>4. {r \in Pairs : owner[r] = Ghost}' = {r \in Pairs : owner[r] = Ghost} \cup {p}
      BY <2>2, <2>4, <3>1, <3>2
    <3>5. Delivery!Die(p)
      BY <2>1, <2>4, <3>1, <3>3, <3>4 DEF Delivery!Die, Open
    <3> QED
      BY <3>5 DEF DeliveryStep, Delivery!Next
  <2> QED
    BY <2>3, <2>4
<1>43. ASSUME NEW t \in Threads, Raised(t)
      PROVE  DeliveryStep
  BY <1>43, Invisible DEF Raised, Seen
<1>39. CASE UNCHANGED vars
  BY <1>39, Invisible DEF vars, Seen
<1> QED
  BY <1>1, <1>2, <1>3, <1>4, <1>5, <1>6, <1>7, <1>8, <1>9, <1>10, <1>11,
     <1>12, <1>13, <1>14, <1>15, <1>16, <1>17, <1>18, <1>19, <1>20, <1>21,
     <1>22, <1>23, <1>24, <1>25, <1>26, <1>27, <1>28, <1>29, <1>30, <1>31,
     <1>32, <1>33, <1>34, <1>35, <1>36, <1>37, <1>38, <1>39, <1>40, <1>41,
     <1>42, <1>43
  DEF Next, Main, Environment, Processor, HandlerEnds

\* The queues keep what PairDelivery promises of every step, whatever the
\* pairs, the pool and the outcomes: a pair stops being due only when a handler
\* starts on it or when its row is gone, none starts while another holds the
\* pair, a terminated one keeps it until the row is freed, and only a full disk
\* makes a pair due while it closes the processing.
THEOREM DeliveryPromise == Spec => Delivery!Promise
<1>1. Init => Delivery!Init
  <2>1. ASSUME Init
        PROVE  {p \in Pairs : owner[p] # Nobody} = {} /\ {p \in Pairs : owner[p] = Ghost} = {}
    BY <2>1, ConstantsAssumption DEF ConstantsAssumption, Init
  <2> QED
    BY <2>1 DEF Init, Open, Delivery!Init
<1>2. RowInv /\ [Next]_vars => DeliveryStep
  BY DeliverySteps
<1> QED
  BY <1>1, <1>2, RowInvariant, PTL DEF Spec, DeliveryStep, Delivery!Promise
===============================================================================
