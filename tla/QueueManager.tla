---------------------------- MODULE QueueManager ----------------------------
(***************************************************************************)
(* The processing queues of an engine: QueueManager, the Processor threads *)
(* it launches, and what the engine and the local watcher do to them.      *)
(*                                                                         *)
(* A pair (a row of the States table) is pushed into one of four queues.   *)
(* Each queue has a dedicated thread, and a pool of generic threads serves *)
(* the two file queues.  A thread pops an item, acquires its row in the    *)
(* database, handles it and releases it.  A pair whose handler failed      *)
(* waits in _on_error_queue until a timer pushes it again.  A thread that  *)
(* is told to stop and is still in its handler after five seconds is       *)
(* terminated there: its row keeps its id.                                 *)
(*                                                                         *)
(* Slots of the main thread's event loop (launch_processors,               *)
(* _thread_finished, _on_new_error, _on_error_timer) are one action each:  *)
(* they never interleave with one another.  A processor is one action per  *)
(* access to state it shares.                                              *)
(***************************************************************************)
EXTENDS Naturals, Sequences, FiniteSets

CONSTANTS
    Pairs,       \* ids of the rows of the States table
    NoPair,      \* None
    Nobody,      \* the value 0 of the column processor
    Ghost,       \* the id of a thread that was terminated
    Pool,        \* the slots of _processors_pool
    Home,        \* Home[p]: the queues the states of p may route it to
    Deletable,   \* pairs that may be pushed in a "deleted" state
    Outcomes,    \* the ways a handler may end (see Outcome below)
    MaxErrors,   \* _error_threshold
    MaxPush,     \* bound: pushes by watchers and by the user
    MaxToggle    \* bound: suspensions, disconnections and local scans

FileQueues == {"local_file", "remote_file"}
Queues == FileQueues \cup {"local_folder", "remote_folder"}

\* The dedicated thread of a queue is named after it.
Threads == Queues \cup Pool

\* done: returned, or an error that asks for nothing more
\* removed: the row was deleted            requeue: PairInterrupt and the like
\* interrupt: ThreadInterrupt              postpone: a connection issue, ...
\* error: increase_error                   giveup: giveup_error
\* no_space: the engine suspends itself    ongoing: OngoingRequestError
\* void: postponed while its pair_state is one that push() refuses
\* skip: the pair has a state that needs no handler
\* raise: a RuntimeError that nobody catches
Outcome == {"done", "skip", "removed", "requeue", "interrupt", "postpone", "error",
            "giveup", "no_space", "ongoing", "void", "raise"}

ASSUME ConstantsAssumption ==
    /\ Home \in [Pairs -> SUBSET Queues]
    /\ Pool \cap Queues = {}
    /\ NoPair \notin Pairs
    /\ Nobody \notin Threads
    /\ Ghost \notin Threads \cup {Nobody}
    /\ Deletable \subseteq Pairs
    /\ Outcomes \subseteq Outcome
    /\ MaxErrors \in Nat
    /\ MaxPush \in Nat
    /\ MaxToggle \in Nat

VARIABLES
    queue,      \* the four Queues
    enabled,    \* the four _*_enable flags, which change together
    connected,  \* newItem is connected to launch_processors
    launch,     \* launch_processors has been posted to the main thread
    hung,       \* terminated threads that were started again: an event loop
                \* in the slot, and a worker that still believes it runs
    phase,      \* where a thread is; "none": its slot is empty
    from,       \* the queue a thread is popping from
    item,       \* the item in the hands of a thread
    current,    \* Processor._current_doc_pair
    goesOn,     \* Worker._continue
    pause,      \* Worker._pause
    fate,       \* what push_error is about to insert: "live", "void", "busy"
    owner,      \* the column processor of a row
    rows,       \* the rows that still exist
    errors,     \* the column error_count, saturated above MaxErrors
    freed,      \* history: rows that another than their owner has freed
    onError,    \* _on_error_queue: "no", "live" or "void" for each pair
    newError,   \* _on_new_error has been posted to the main thread
    timer,      \* _error_timer is active
    paused,     \* Engine._pause
    offline,    \* Engine._offline_state
    scan,       \* a local scan: "no", "own" (it suspended the queue), "other"
    stopping,   \* the threads that Worker.stop() waits for
    owed,       \* history: pairs pushed, or to be retried, since last acquired
    pushes,     \* what is left of MaxPush
    toggles     \* what is left of MaxToggle

queueVars == <<queue, enabled, connected, launch, hung>>
workerVars == <<phase, from, item, current, goesOn, pause, fate>>
rowVars == <<owner, rows, errors, freed>>
errorVars == <<onError, newError, timer>>
engineVars == <<paused, offline, scan, stopping>>
budget == <<pushes, toggles>>
vars == <<queueVars, workerVars, rowVars, errorVars, engineVars, owed, budget>>

Phases == {"none", "starting", "fetch", "pop", "check", "recheck", "acquire",
           "handling", "tail", "fail", "insert", "release", "skip",
           "abort", "interact", "ended", "killed"}

\* From the acquisition of a row to its release.
Working == {"handling", "tail", "fail", "insert", "release", "skip", "abort"}

-----------------------------------------------------------------------------
(* Helpers                                                                 *)

Queued(p) == \E q \in Queues : \E i \in 1..Len(queue[q]) : queue[q][i] = p

\* A thread asks its getter for the next item: _get_file first chooses one of
\* two queues, the other getters have only one.
First(t) == IF t \in Pool THEN "fetch" ELSE "pop"

Goto(t, ph) == phase' = [phase EXCEPT ![t] = ph]

\* Worker.quit() to the threads of T: their flag, and their event loop.
Quit(T) ==
    /\ goesOn' = [t \in Threads |-> goesOn[t] /\ t \notin T]
    /\ hung' = hung \ T

\* push(): into the queue of its kind and direction.  A file in a "deleted"
\* state first stops the threads whose current pair it is (cancel_action_on).
\* newItem reaches launch_processors only while they are connected.
Put(p, q, deleted) ==
    /\ queue' = [queue EXCEPT ![q] = Append(@, p)]
    /\ launch' = (launch \/ connected)
    /\ Quit({t \in Threads : deleted /\ q \in FileQueues /\ current[t] = p})

Push(p) ==
    /\ \E q \in Home[p] : \E deleted \in {FALSE, (p \in Deletable)} : Put(p, q, deleted)
    /\ UNCHANGED <<enabled, connected>>

\* Fault: resume() does not emit queueProcessing.
ResumeQueueSilently == enabled' = TRUE /\ UNCHANGED <<queue, connected, launch>>

\* resume(): the four queues are enabled and queueProcessing is emitted.
ResumeQueue == enabled' = TRUE /\ launch' = TRUE /\ UNCHANGED <<queue, connected>>

\* suspend(): the QThread.quit() it sends to the dedicated threads has no
\* effect on a running worker.
SuspendQueue ==
    /\ enabled' = FALSE
    /\ hung' = hung \ Queues
    /\ UNCHANGED <<queue, connected, launch>>

\* QThread.isFinished and QThread.isRunning.
Finished(t) == phase[t] \in {"ended", "killed"} /\ t \notin hung
Alive(t) == phase[t] # "none" /\ ~Finished(t)

Init ==
    /\ queue = [q \in Queues |-> <<>>]
    /\ enabled = TRUE
    /\ connected = FALSE
    /\ launch = FALSE
    /\ hung = {}
    /\ phase = [t \in Threads |-> "none"]
    /\ from = [t \in Threads |-> IF t \in Queues THEN t ELSE "local_file"]
    /\ item = [t \in Threads |-> NoPair]
    /\ current = [t \in Threads |-> NoPair]
    /\ goesOn = [t \in Threads |-> FALSE]
    /\ pause = [t \in Threads |-> FALSE]
    /\ fate = [t \in Threads |-> "live"]
    /\ owner = [p \in Pairs |-> Nobody]
    /\ rows = Pairs
    /\ errors = [p \in Pairs |-> 0]
    /\ freed = {}
    /\ onError = [p \in Pairs |-> "no"]
    /\ newError = FALSE
    /\ timer = FALSE
    /\ paused = FALSE
    /\ offline = FALSE
    /\ scan = "no"
    /\ stopping = {}
    /\ owed = {}
    /\ pushes = MaxPush
    /\ toggles = MaxToggle

-----------------------------------------------------------------------------
(* The main thread                                                         *)

InitProcessors ==
    /\ ~connected
    /\ connected' = TRUE
    /\ launch' = TRUE
    /\ UNCHANGED <<queue, enabled, hung, workerVars, rowVars, errorVars, engineVars, owed, budget>>

ShutdownProcessors ==
    /\ connected /\ toggles > 0
    /\ connected' = FALSE
    /\ toggles' = toggles - 1
    /\ UNCHANGED <<queue, enabled, launch, hung, workerVars, rowVars, errorVars, engineVars, owed, pushes>>

\* launch_processors: a thread for each queue that has items and none, then
\* the pool is filled if a file is waiting.
Wanted(t) ==
    /\ phase[t] = "none"
    /\ IF t \in Pool THEN \E q \in FileQueues : queue[q] # <<>> ELSE queue[t] # <<>>

LaunchProcessors ==
    /\ launch
    /\ launch' = FALSE
    /\ IF enabled
       THEN phase' = [t \in Threads |-> IF Wanted(t) THEN "starting" ELSE phase[t]]
       ELSE UNCHANGED phase
    /\ UNCHANGED <<queue, enabled, connected, hung, from, item, current, goesOn, pause, fate,
                   rowVars, errorVars, engineVars, owed, budget>>

\* _thread_finished: the slots of finished threads are emptied; the next
\* worker of a slot starts with no current pair and its flags down.
ReapThreads(wakes) ==
    /\ \E t \in Threads : Finished(t)
    /\ phase' = [t \in Threads |-> IF Finished(t) THEN "none" ELSE phase[t]]
    /\ current' = [t \in Threads |-> IF Finished(t) THEN NoPair ELSE current[t]]
    /\ goesOn' = [t \in Threads |-> goesOn[t] /\ ~Finished(t)]
    /\ pause' = [t \in Threads |-> pause[t] /\ ~Finished(t)]
    /\ launch' = (launch \/ wakes)
    /\ stopping' = {t \in stopping : ~Finished(t)}
    /\ UNCHANGED <<queue, enabled, connected, hung, from, item, fate, rowVars, errorVars,
                   paused, offline, scan, owed, budget>>

\* Fault: newItem is not emitted when a thread is reaped.
ThreadFinishedSilently == ReapThreads(FALSE)

ThreadFinished == ReapThreads(connected /\ ~paused)

OnNewError ==
    /\ newError
    /\ newError' = FALSE
    /\ timer' = TRUE
    /\ UNCHANGED <<queueVars, workerVars, rowVars, onError, engineVars, owed, budget>>

\* _on_error_timer, for one pair whose time has come; several are several
\* ticks.  push() refuses a pair whose state is synchronized or conflicted.
OnErrorTimer(p) ==
    /\ timer
    /\ onError[p] # "no"
    /\ onError' = [onError EXCEPT ![p] = "no"]
    /\ timer' = \E r \in Pairs \ {p} : onError[r] # "no"
    /\ IF onError[p] = "live" THEN Push(p) ELSE UNCHANGED <<queueVars, goesOn>>
    /\ UNCHANGED <<phase, from, item, current, pause, fate, rowVars, newError, engineVars,
                   owed, budget>>

StopTimer(empty) ==
    /\ timer
    /\ empty
    /\ timer' = FALSE
    /\ UNCHANGED <<queueVars, workerVars, rowVars, onError, newError, engineVars, owed, budget>>

\* Fault: a tick at which no pair is due stops the timer.
OnErrorTimerStops == StopTimer(TRUE)

\* A tick that finds nothing on error stops the timer.
OnErrorTimerIdle == StopTimer(\A p \in Pairs : onError[p] = "no")

-----------------------------------------------------------------------------
(* The engine, the watchers and the user                                   *)

\* A watcher or a handler of another pair updates a row and pushes it.
PushPair(p) ==
    /\ p \in rows /\ pushes > 0
    /\ Push(p)
    /\ owed' = owed \cup {p}
    /\ pushes' = pushes - 1
    /\ UNCHANGED <<phase, from, item, current, pause, fate, rowVars, errorVars, engineVars, toggles>>

\* retry_pair: the user asks for another try.
RetryPair(p) ==
    /\ p \in rows /\ pushes > 0 /\ errors[p] > 0
    /\ errors' = [errors EXCEPT ![p] = 0]
    /\ Push(p)
    /\ owed' = owed \cup {p}
    /\ pushes' = pushes - 1
    /\ UNCHANGED <<phase, from, item, current, pause, fate, owner, rows, freed, errorVars,
                   engineVars, toggles>>

\* Another than a handler writes the row and frees it (synchronize_state in
\* the remote watcher, ignore_pair): the handler at work on it goes on.
FreeRow(p) ==
    /\ p \in rows /\ pushes > 0
    /\ owner' = [owner EXCEPT ![p] = Nobody]
    /\ errors' = [errors EXCEPT ![p] = 0]
    /\ freed' = IF owner[p] = Nobody THEN freed ELSE freed \cup {p}
    /\ pushes' = pushes - 1
    /\ UNCHANGED <<queueVars, workerVars, rows, errorVars, engineVars, owed, toggles>>

\* Engine.suspend, shared with the handler that finds the disk full.
SuspendEngine ==
    /\ paused' = TRUE
    /\ IF paused THEN UNCHANGED <<queueVars, pause>>
       ELSE /\ SuspendQueue
            /\ pause' = [t \in Threads |-> pause[t] \/ phase[t] # "none"]
    /\ UNCHANGED <<offline, scan, stopping>>

Suspend ==
    /\ ~paused /\ toggles > 0
    /\ SuspendEngine
    /\ toggles' = toggles - 1
    /\ UNCHANGED <<phase, from, item, current, goesOn, fate, rowVars, errorVars, owed, pushes>>

\* Engine.resume: a finished thread that is not reaped yet is started again.
\* Worker.run returns at once if the thread was terminated: _running is still
\* set, and nothing leaves the event loop.
Resume ==
    /\ paused
    /\ paused' = FALSE
    /\ ResumeQueue
    /\ pause' = [t \in Threads |-> pause[t] /\ ~Alive(t)]
    /\ phase' = [t \in Threads |-> IF phase[t] = "ended" THEN "starting" ELSE phase[t]]
    /\ hung' = hung \cup {t \in Threads : phase[t] = "killed"}
    /\ stopping' = {t \in stopping : Alive(t)}
    /\ UNCHANGED <<from, item, current, goesOn, fate, rowVars, errorVars, offline, scan, owed, budget>>

SetOffline ==
    /\ ~offline /\ toggles > 0
    /\ offline' = TRUE
    /\ SuspendQueue
    /\ toggles' = toggles - 1
    /\ UNCHANGED <<workerVars, rowVars, errorVars, paused, scan, stopping, owed, pushes>>

SetOnline ==
    /\ offline
    /\ offline' = FALSE
    /\ ResumeQueue
    /\ UNCHANGED <<hung, workerVars, rowVars, errorVars, paused, scan, stopping, owed, budget>>

\* get_processors_on: the first dedicated thread whose current pair is in S
\* (what is below the path), in this order, and the pool only when there is none.
ProcessorsOn(S) ==
    LET has(t) == phase[t] # "none" /\ current[t] \in S
        order == <<"local_folder", "remote_folder", "local_file", "remote_file">>
    IN  IF \E t \in Queues : has(t)
        THEN {order[i] : i \in {j \in 1..4 : has(order[j]) /\ \A k \in 1..(j-1) : ~has(order[k])}}
        ELSE {t \in Pool : has(t)}

\* Worker.stop() to the threads of T: told to quit, then waited for.
StopWorkers(T) ==
    /\ goesOn' = [t \in Threads |-> goesOn[t] /\ t \notin T]
    /\ stopping' = stopping \cup {t \in T : Alive(t) /\ t \notin hung}

\* LocalWatcher._scan and scan_pair: the queue is suspended, its processors
\* are told to stop, and it is resumed when the scan is over.
ScanBegin ==
    /\ scan = "no" /\ toggles > 0
    /\ scan' = IF enabled THEN "own" ELSE "other"
    /\ IF enabled
       THEN /\ enabled' = FALSE
            /\ hung' = hung \ (Queues \cup ProcessorsOn(Pairs))
            /\ StopWorkers(ProcessorsOn(Pairs))
       ELSE UNCHANGED <<enabled, hung, goesOn, stopping>>
    /\ toggles' = toggles - 1
    /\ UNCHANGED <<queue, connected, launch, phase, from, item, current, pause, fate, rowVars,
                   errorVars, paused, offline, owed, pushes>>

\* The scan goes on when the processors are stopped.
ScanEnd ==
    /\ scan # "no"
    /\ \A t \in stopping : ~Alive(t)
    /\ scan' = "no"
    /\ IF scan = "own" THEN ResumeQueue ELSE UNCHANGED <<queue, enabled, connected, launch>>
    /\ UNCHANGED <<hung, workerVars, rowVars, errorVars, paused, offline, stopping, owed, budget>>

\* delete_local_state of the folder that holds S (interrupt_processors_on).
DeleteFolder(S) ==
    /\ S # {} /\ toggles > 0
    /\ hung' = hung \ ProcessorsOn(S)
    /\ StopWorkers(ProcessorsOn(S))
    /\ toggles' = toggles - 1
    /\ UNCHANGED <<queue, enabled, connected, launch, phase, from, item, current, pause, fate,
                   rowVars, errorVars, paused, offline, scan, owed, pushes>>

\* QThread.terminate: five seconds have passed and the handler is at work.  The
\* finally clauses do not run: its id stays in the row, and nothing is pushed.
Terminate(t) ==
    /\ t \in stopping
    /\ phase[t] \in {"handling", "tail"}
    /\ Goto(t, "killed")
    /\ owner' = [p \in Pairs |-> IF owner[p] = t THEN Ghost ELSE owner[p]]
    /\ item' = [item EXCEPT ![t] = NoPair]
    /\ stopping' = stopping \ {t}
    /\ UNCHANGED <<queueVars, from, current, goesOn, pause, fate, rows, errors, freed,
                   errorVars, paused, offline, scan, owed, budget>>

-----------------------------------------------------------------------------
(* A processor thread: getting an item                                     *)

\* Worker.run: the flags are set whatever was asked of the worker before.
StartRun(t) ==
    /\ phase[t] = "starting"
    /\ Goto(t, First(t))
    /\ goesOn' = [goesOn EXCEPT ![t] = TRUE]
    /\ pause' = [pause EXCEPT ![t] = FALSE]
    /\ UNCHANGED <<queueVars, from, item, current, fate, rowVars, errorVars, engineVars, owed, budget>>

\* _get_file, under _get_file_lock: the longer of the two file queues.
ChooseFile(t) ==
    /\ phase[t] = "fetch"
    /\ \A u \in Pool : phase[u] \notin {"pop", "check"}
    /\ IF \A q \in FileQueues : queue[q] = <<>>
       THEN Goto(t, "ended") /\ UNCHANGED from
       ELSE /\ from' = [from EXCEPT ![t] =
                          IF Len(queue["remote_file"]) > Len(queue["local_file"])
                          THEN "remote_file" ELSE "local_file"]
            /\ Goto(t, "pop")
    /\ UNCHANGED <<queueVars, item, current, goesOn, pause, fate, rowVars, errorVars,
                   engineVars, owed, budget>>

\* The getter finds its queue empty, and the thread ends, or pops an item.
Pop(t) ==
    /\ phase[t] = "pop"
    /\ LET q == from[t]
       IN  IF queue[q] = <<>>
           THEN Goto(t, "ended") /\ UNCHANGED <<queue, item>>
           ELSE /\ item' = [item EXCEPT ![t] = Head(queue[q])]
                /\ queue' = [queue EXCEPT ![q] = Tail(@)]
                /\ Goto(t, "check")
    /\ UNCHANGED <<enabled, connected, launch, hung, from, current, goesOn, pause, fate, rowVars,
                   errorVars, engineVars, owed, budget>>

\* A popped item whose pair is on error is dropped: the timer will push it.
\* _get_file looks a second time, once it has left its lock.
CheckOnError(t) ==
    /\ phase[t] \in {"check", "recheck"}
    /\ IF onError[item[t]] # "no"
       THEN /\ item' = [item EXCEPT ![t] = NoPair]
            /\ Goto(t, IF phase[t] = "check" THEN "pop" ELSE "fetch")
       ELSE /\ Goto(t, IF phase[t] = "check" /\ t \in Pool THEN "recheck" ELSE "acquire")
            /\ UNCHANGED item
    /\ UNCHANGED <<queueVars, from, current, goesOn, pause, fate, rowVars, errorVars,
                   engineVars, owed, budget>>

-----------------------------------------------------------------------------
(* A processor thread: the row                                             *)

\* acquire_state: only one thread may put its id in the column processor.
\* The handler will work on the row as it is now.
AcquireIf(t, free) ==
    LET p == item[t] IN
    /\ phase[t] = "acquire"
    /\ p \in rows /\ free
    /\ owner' = [owner EXCEPT ![p] = t]
    /\ current' = [current EXCEPT ![t] = p]
    /\ owed' = owed \ {p}
    /\ Goto(t, "handling")
    /\ UNCHANGED <<queueVars, from, item, goesOn, pause, fate, rows, errors, freed, errorVars,
                   engineVars, budget>>

\* Fault: the row is taken whoever owns it.
AcquireUnchecked(t) == AcquireIf(t, TRUE)

Acquire(t) == AcquireIf(t, owner[item[t]] = Nobody)

Forget(t) ==
    /\ item' = [item EXCEPT ![t] = NoPair]
    /\ current' = [current EXCEPT ![t] = NoPair]
    /\ Goto(t, First(t))
    /\ UNCHANGED <<queueVars, from, goesOn, pause, fate, rowVars, errorVars, engineVars, budget>>

\* The row is gone: the item is dropped.
DropItem(t) ==
    /\ phase[t] = "acquire" /\ item[t] \notin rows
    /\ owed' = owed \ {item[t]}
    /\ Forget(t)

InUse(t) == phase[t] = "acquire" /\ item[t] \in rows /\ owner[item[t]] # Nobody

\* Fault: an item whose row is in use is dropped.
PostponeItemNever(t) == InUse(t) /\ Forget(t) /\ UNCHANGED owed

\* The row is in use: the item is postponed ("Pair in use").
PostponeItem(t) ==
    /\ InUse(t)
    /\ fate' = [fate EXCEPT ![t] = "busy"]
    /\ Goto(t, "fail")
    /\ UNCHANGED <<queueVars, from, item, current, goesOn, pause, rowVars, errorVars,
                   engineVars, owed, budget>>

\* synchronize_state or unsynchronize_state in the middle of a handler: the
\* row is free for another thread while this handler goes on.
Synchronize(t) ==
    /\ phase[t] = "handling"
    /\ owner' = [owner EXCEPT ![item[t]] = Nobody]
    /\ errors' = [errors EXCEPT ![item[t]] = 0]
    /\ Goto(t, "tail")
    /\ UNCHANGED <<queueVars, from, item, current, goesOn, pause, fate, rows, freed, errorVars,
                   engineVars, owed, budget>>

\* release_state, in the finally clause.  After a ThreadInterrupt the thread
\* ends, a skipped pair is followed by the next item, else _interact is reached.
ReleaseRows(t, released, free) ==
    /\ phase[t] \in {"release", "skip", "abort"}
    /\ owner' = [p \in Pairs |-> IF owner[p] = t /\ released THEN free ELSE owner[p]]
    /\ item' = [item EXCEPT ![t] = NoPair]
    /\ Goto(t, CASE phase[t] = "abort" -> "ended"
                 [] phase[t] = "skip" -> First(t)
                 [] OTHER -> "interact")
    /\ UNCHANGED <<queueVars, from, current, goesOn, pause, fate, rows, errors, freed, errorVars,
                   engineVars, owed, budget>>

\* Faults: not in the finally clause; NULL is written and not 0.
ReleaseUnlessInterrupted(t) == ReleaseRows(t, phase[t] # "abort", Nobody)
ReleaseToNull(t) == ReleaseRows(t, TRUE, NoPair)

Release(t) == ReleaseRows(t, TRUE, Nobody)

\* _interact: wait while suspended, end if told to.
Interact(t) ==
    /\ phase[t] = "interact"
    /\ pause[t] => ~goesOn[t]
    /\ Goto(t, IF goesOn[t] THEN First(t) ELSE "ended")
    /\ UNCHANGED <<queueVars, from, item, current, goesOn, pause, fate, rowVars, errorVars,
                   engineVars, owed, budget>>

-----------------------------------------------------------------------------
(* A processor thread: how its handler ends                                *)

Ends(t, how) == phase[t] = "handling" /\ how \in Outcomes

Done(t) ==
    /\ Ends(t, "done") \/ phase[t] = "tail"
    /\ Goto(t, "release")
    /\ UNCHANGED <<queueVars, from, item, current, goesOn, pause, fate, rowVars, errorVars,
                   engineVars, owed, budget>>

\* check_pair_state refuses the pair, or no handler has the name of its state.
Skip(t) ==
    /\ Ends(t, "skip")
    /\ Goto(t, "skip")
    /\ UNCHANGED <<queueVars, from, item, current, goesOn, pause, fate, rowVars, errorVars,
                   engineVars, owed, budget>>

\* remove_state: a document that no longer exists on one side or on both.
Removed(t) ==
    /\ Ends(t, "removed")
    /\ rows' = rows \ {item[t]}
    /\ Goto(t, "release")
    /\ UNCHANGED <<queueVars, from, item, current, goesOn, pause, fate, owner, errors, freed,
                   errorVars, engineVars, owed, budget>>

\* PairInterrupt, ParentNotSynced: pushed again before the row is released.
Requeue(t) ==
    /\ Ends(t, "requeue")
    /\ Push(item[t])
    /\ owed' = owed \cup {item[t]}
    /\ Goto(t, "release")
    /\ UNCHANGED <<from, item, current, pause, fate, rowVars, errorVars, engineVars, budget>>

\* ThreadInterrupt, from _interact or from suspend_client.
InterruptedBy(t, push) ==
    /\ Ends(t, "interrupt")
    /\ ~goesOn[t] \/ paused
    /\ push
    /\ owed' = owed \cup {item[t]}
    /\ Goto(t, "abort")
    /\ UNCHANGED <<from, item, current, pause, fate, rowVars, errorVars, engineVars, budget>>

\* Fault: the pair is not pushed again.
InterruptedSilently(t) == InterruptedBy(t, UNCHANGED <<queueVars, goesOn>>)

Interrupted(t) == InterruptedBy(t, Push(item[t]))

\* A RuntimeError ends the thread; the row is released and the pair forgotten.
Raised(t) ==
    /\ Ends(t, "raise")
    /\ Goto(t, "abort")
    /\ UNCHANGED <<queueVars, from, item, current, goesOn, pause, fate, rowVars, errorVars,
                   engineVars, owed, budget>>

\* _postpone_pair.
Postpone(t) ==
    /\ Ends(t, "postpone")
    /\ owed' = owed \cup {item[t]}
    /\ fate' = [fate EXCEPT ![t] = "live"]
    /\ Goto(t, "fail")
    /\ UNCHANGED <<queueVars, from, item, current, goesOn, pause, rowVars, errorVars,
                   engineVars, budget>>

\* _postpone_pair of a pair that is conflicted, or synchronized in memory.
PostponeVoid(t) ==
    /\ Ends(t, "void") \/ (phase[t] = "tail" /\ "void" \in Outcomes)
    /\ fate' = [fate EXCEPT ![t] = "void"]
    /\ Goto(t, "fail")
    /\ UNCHANGED <<queueVars, from, item, current, goesOn, pause, rowVars, errorVars,
                   engineVars, owed, budget>>

\* _postpone_pair with RemoteOngoingRequestError: push_error inserts nothing.
OngoingRequest(t) ==
    /\ Ends(t, "ongoing")
    /\ owed' = owed \cup {item[t]}
    /\ Goto(t, "release")
    /\ UNCHANGED <<queueVars, from, item, current, goesOn, pause, fate, rowVars, errorVars,
                   engineVars, budget>>

\* increase_error: above the threshold push_error gives up on the pair.
IncreaseError(t, incr) ==
    LET p == item[t]
        count == IF errors[p] + incr > MaxErrors THEN MaxErrors + 1 ELSE errors[p] + incr
    IN  /\ errors' = [errors EXCEPT ![p] = count]
        /\ fate' = [fate EXCEPT ![t] = "live"]
        /\ IF count > MaxErrors
           THEN Goto(t, "release") /\ UNCHANGED owed
           ELSE Goto(t, "fail") /\ owed' = owed \cup {p}

HandlerError(t) ==
    /\ Ends(t, "error")
    /\ IncreaseError(t, 1)
    /\ UNCHANGED <<queueVars, from, item, current, goesOn, pause, owner, rows, freed,
                   errorVars, engineVars, budget>>

GiveUp(t) ==
    /\ Ends(t, "giveup")
    /\ IncreaseError(t, MaxErrors + 1)
    /\ UNCHANGED <<queueVars, from, item, current, goesOn, pause, owner, rows, freed,
                   errorVars, engineVars, budget>>

\* NO_SPACE_LEFT_ON_DEVICE: the processor suspends the whole engine.
NoSpace(t) ==
    /\ Ends(t, "no_space")
    /\ SuspendEngine
    /\ IncreaseError(t, 1)
    /\ UNCHANGED <<from, item, current, goesOn, owner, rows, freed, errorVars, budget>>

-----------------------------------------------------------------------------
(* A processor thread: push_error                                          *)

\* An item postponed because its row is in use skips release and _interact.
LeaveError(t) ==
    /\ Goto(t, IF fate[t] = "busy" THEN First(t) ELSE "release")
    /\ fate' = [fate EXCEPT ![t] = "live"]
    /\ IF fate[t] = "busy"
       THEN item' = [item EXCEPT ![t] = NoPair] /\ current' = [current EXCEPT ![t] = NoPair]
       ELSE UNCHANGED <<item, current>>

\* emit_sig is computed before _error_lock is taken.
PushErrorCheck(t) ==
    /\ phase[t] = "fail"
    /\ IF onError[item[t]] = "no"
       THEN Goto(t, "insert") /\ UNCHANGED <<item, current, fate>>
       ELSE LeaveError(t)
    /\ UNCHANGED <<queueVars, from, goesOn, pause, rowVars, errorVars, engineVars, owed, budget>>

PushErrorInsert(t) ==
    /\ phase[t] = "insert"
    /\ onError' = [onError EXCEPT ![item[t]] = IF fate[t] = "void" THEN "void" ELSE "live"]
    /\ newError' = TRUE
    /\ LeaveError(t)
    /\ UNCHANGED <<queueVars, from, goesOn, pause, rowVars, timer, engineVars, owed, budget>>

-----------------------------------------------------------------------------
Main ==
    \/ InitProcessors \/ ShutdownProcessors
    \/ LaunchProcessors \/ ThreadFinished
    \/ OnNewError \/ OnErrorTimerIdle
    \/ \E p \in Pairs : OnErrorTimer(p)

Environment ==
    \/ \E p \in Pairs : PushPair(p) \/ RetryPair(p) \/ FreeRow(p)
    \/ Suspend \/ Resume \/ SetOffline \/ SetOnline \/ ScanBegin \/ ScanEnd
    \/ \E S \in SUBSET Pairs : DeleteFolder(S)
    \/ \E t \in Threads : Terminate(t)

HandlerEnds(t) ==
    \/ Done(t) \/ Skip(t) \/ Removed(t) \/ Requeue(t) \/ Interrupted(t)
    \/ Postpone(t) \/ PostponeVoid(t) \/ OngoingRequest(t)
    \/ HandlerError(t) \/ GiveUp(t) \/ NoSpace(t) \/ Raised(t)

Processor(t) ==
    \/ StartRun(t) \/ ChooseFile(t) \/ Pop(t) \/ CheckOnError(t)
    \/ Acquire(t) \/ DropItem(t) \/ PostponeItem(t)
    \/ Synchronize(t) \/ HandlerEnds(t)
    \/ PushErrorCheck(t) \/ PushErrorInsert(t)
    \/ Release(t) \/ Interact(t)

Next == Main \/ Environment \/ \E t \in Threads : Processor(t)

Spec == Init /\ [][Next]_vars

\* The main thread runs what is posted to it and its timers, and no handler,
\* no scan and no processor stops for ever by itself.  Nothing obliges the
\* watchers, the user or the network.
Fairness ==
    /\ WF_vars(LaunchProcessors) /\ WF_vars(ThreadFinished) /\ WF_vars(OnNewError)
    /\ \A p \in Pairs : WF_vars(OnErrorTimer(p))
    /\ \A t \in Threads : WF_vars(Processor(t))
    /\ WF_vars(ScanEnd)

FairSpec == Spec /\ Fairness

-----------------------------------------------------------------------------
(* Properties                                                              *)

TypeOK ==
    /\ queue \in [Queues -> Seq(Pairs)]
    /\ enabled \in BOOLEAN /\ connected \in BOOLEAN /\ launch \in BOOLEAN
    /\ phase \in [Threads -> Phases]
    /\ from \in [Threads -> Queues]
    /\ item \in [Threads -> Pairs \cup {NoPair}]
    /\ current \in [Threads -> Pairs \cup {NoPair}]
    /\ goesOn \in [Threads -> BOOLEAN] /\ pause \in [Threads -> BOOLEAN]
    /\ fate \in [Threads -> {"live", "void", "busy"}]
    /\ hung \subseteq Threads
    /\ owner \in [Pairs -> Threads \cup {Nobody, Ghost}]
    /\ rows \subseteq Pairs
    /\ errors \in [Pairs -> 0..(MaxErrors + 1)]
    /\ onError \in [Pairs -> {"no", "live", "void"}]
    /\ newError \in BOOLEAN /\ timer \in BOOLEAN
    /\ paused \in BOOLEAN /\ offline \in BOOLEAN
    /\ scan \in {"no", "own", "other"}
    /\ stopping \subseteq Threads /\ freed \subseteq Pairs
    /\ owed \subseteq Pairs
    /\ pushes \in 0..MaxPush /\ toggles \in 0..MaxToggle

\* A thread has popped p and not yet looked at its row, or is about to put it
\* on error.
InHands(p) ==
    \E t \in Threads :
        /\ item[t] = p
        /\ phase[t] \in {"check", "recheck", "acquire", "fail", "insert"}
        /\ phase[t] \in {"fail", "insert"} => fate[t] # "void"

\* A pair that was pushed, or whose handler asked for another try, is always
\* in a queue, in the hands of a thread that popped it, or waiting for the
\* error timer: neither the getters that drop pairs on error, nor the check of
\* push_error made before its lock, nor an interruption loses it.
NoLostPair == \A p \in owed : Queued(p) \/ InHands(p) \/ onError[p] = "live"

\* Until it writes the state of its pair, a handler is the only one working on
\* it, whatever the number of copies of the pair in the queues (acquire_state),
\* unless another than a handler freed the row.
HandlersExclusive ==
    \A t, u \in Threads :
        phase[t] = "handling" /\ phase[u] = "handling" /\ t # u /\ item[t] = item[u]
            => item[t] \in freed

\* The column processor of a row never keeps the id of a thread that is not
\* working on it, or the pair would be "in use" for ever: only a thread that
\* was terminated in its handler leaves its id, until the next start.
NoOrphanOwner ==
    \A p \in Pairs : owner[p] \notin {Nobody, Ghost} =>
        item[owner[p]] = p /\ phase[owner[p]] \in Working

\* While a pair is on error the error timer is active, or is about to be
\* started: its stop and the insertions race under _error_lock.
ErrorTimerArmed == (\E p \in Pairs : onError[p] # "no") => timer \/ newError

\* While the queue runs, a waiting item has a launch posted or a thread in the
\* slot of its queue, if only one that is finished and not yet reaped: no
\* newItem is lost between a thread that finds its queue empty and its reaping.
NoLostWakeup ==
    enabled /\ connected /\ ~paused =>
        \A q \in Queues : queue[q] # <<>> => launch \/ phase[q] # "none"

\* The queue runs, and no slot is taken by a thread that does nothing.
Open == enabled /\ connected /\ ~paused /\ hung = {}

\* Once the queue runs for good, every pair that is owed a handler gets one,
\* but those whose row keeps the id of a terminated thread.
Delivered ==
    <>[]Open => \A p \in Pairs : p \in owed ~> p \notin owed \/ owner[p] = Ghost

\* The queues implement PairDelivery: a pair is busy while its row is acquired.
Delivery == INSTANCE PairDelivery WITH
    due <- owed,
    busy <- {p \in Pairs : owner[p] # Nobody},
    stuck <- {p \in Pairs : owner[p] = Ghost},
    alive <- rows,
    open <- Open

\* Every step of the queues is a step of PairDelivery or invisible to it: in
\* particular a pair that is owed a handler is handled, or its row is gone, or
\* the thread that had it was terminated.
ImplementsDelivery == Delivery!Spec
=============================================================================
