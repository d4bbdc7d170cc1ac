------------------------ MODULE DirectTransferProofs ------------------------
(***************************************************************************)
(* Proofs about DirectTransfer, for every set of items, tree of folders,   *)
(* operations of the user and faults.                                      *)
(***************************************************************************)
EXTENDS DirectTransfer, FiniteSetTheorems, TLAPS

USE DEF planVars, sessionVars, userVars, lossVars, historyVars

-----------------------------------------------------------------------------
(* The base invariant                                                      *)

\* The handler has made the document, or found it on the server.
Ended(i) == step[i] \in {"ok_transfer", "ok_state", "ok_session", "ok_count"}

\* Only planned items are handled, an item that is about to be counted has no
\* row any more, a lost one is handled no more, and a session that is not
\* created has no history.
Base ==
    /\ TypeOK
    /\ \A i \in Items : step[i] # "idle" => i \in planned
    /\ \A i \in Items : Counting(i) => i \notin rows
    /\ \A i \in Items : Ended(i) => i \in linked
    /\ \A i \in lost : i \notin rows /\ step[i] = "idle"
    /\ stage = "create" <=> status = "none"
    /\ stage = "create" => planned = {} /\ uploaded = 0 /\ gui = "idle"

LEMMA BaseInit == Init => Base
<1> SUFFICES ASSUME Init PROVE Base
  OBVIOUS
<1>1. /\ step \in [Items -> Steps]
      /\ upload \in [Items -> Status \cup {"none"}]
  BY DEF Init, Steps
<1>2. uploaded \in Nat /\ total \in Nat /\ ops \in 0..MaxOps /\ faults \in 0..MaxFaults
  BY ConstantsAssumption DEF ConstantsAssumption, Init
<1>3. TypeOK
  BY <1>1, <1>2 DEF Init, TypeOK
<1> QED
  BY <1>3 DEF Init, Base, Counting, Ended

\* SetUploads and RemoveUploads keep the type of the uploads.
LEMMA SetUploadsType ==
  ASSUME TypeOK, NEW S, NEW s \in Status, SetUploads(S, s)
  PROVE  upload' \in [Items -> Status \cup {"none"}]
  BY DEF TypeOK, SetUploads

LEMMA RemoveUploadsType ==
  ASSUME TypeOK, NEW S, RemoveUploads(S)
  PROVE  upload' \in [Items -> Status \cup {"none"}]
  BY DEF TypeOK, RemoveUploads

LEMMA BaseStep == Base /\ [Next]_vars => Base'
<1> SUFFICES ASSUME Base, [Next]_vars PROVE Base'
  OBVIOUS
<1> USE ConstantsAssumption DEF ConstantsAssumption
<1>1. CASE CreateSession
  <2>1. Cardinality(Items) \in Nat
    BY FS_CardinalityType
  <2> QED
    BY <1>1, <2>1 DEF CreateSession, Base, TypeOK, Counting, Ended, Steps, Status
<1>2. CASE PlanItems
  BY <1>2 DEF PlanItems, Base, TypeOK, Counting, Ended, Steps, Status
<1>3. CASE QueueItems
  BY <1>3 DEF QueueItems, Base, TypeOK, Counting, Ended, Steps, Status
<1>4. CASE ResumeSession
  <2>1. upload' \in [Items -> Status \cup {"none"}]
    BY <1>4, SetUploadsType DEF ResumeSession, Base, Status
  <2> QED
    BY <1>4, <2>1 DEF ResumeSession, Base, TypeOK, Counting, Ended, Steps, Status
<1>5. CASE CancelSession
  <2>1. upload' \in [Items -> Status \cup {"none"}]
    BY <1>5, RemoveUploadsType DEF CancelSession, Base
  <2> QED
    BY <1>5, <2>1 DEF CancelSession, Base, TypeOK, Counting, Ended, Steps, Status
<1>6. CASE DeclineCancel
  BY <1>6 DEF DeclineCancel, Base, TypeOK, Counting, Ended, Steps, Status
<1>7. CASE TellProcessor
  <2>1. upload' \in [Items -> Status \cup {"none"}]
    BY <1>7, SetUploadsType DEF TellProcessor, Base, Status
  <2> QED
    BY <1>7, <2>1 DEF TellProcessor, Base, TypeOK, Counting, Ended, Steps, Status
<1>8. CASE DropTransfer
  <2>1. upload' \in [Items -> Status \cup {"none"}]
    BY <1>8, RemoveUploadsType DEF DropTransfer, Base
  <2> QED
    BY <1>8, <2>1 DEF DropTransfer, Base, TypeOK, Counting, Ended, Steps, Status
<1>9. CASE DropState
  BY <1>9 DEF DropState, Base, TypeOK, Counting, Ended, Steps, Status
<1>10. CASE DropCount
  BY <1>10 DEF DropCount, DecreaseSession, Base, TypeOK, Counting, Ended, Steps, Status
<1>11. CASE Pause
  <2>1. upload' \in [Items -> Status \cup {"none"}]
    BY <1>11, SetUploadsType DEF Pause, PauseSession, Base, Status
  <2> QED
    BY <1>11, <2>1 DEF Pause, Click, PauseSession, Base, TypeOK, Counting, Ended, Steps, Status
<1>12. CASE Resume
  BY <1>12 DEF Resume, Click, Base, TypeOK, Counting, Ended, Steps, Status
<1>13. CASE AskCancelSession
  BY <1>13 DEF AskCancelSession, Click, Base, TypeOK, Counting, Ended, Steps, Status
<1>14. CASE Suspend
  <2>1. upload' \in [Items -> Status \cup {"none"}]
    BY <1>14, SetUploadsType DEF Suspend, Base, Status
  <2> QED
    BY <1>14, <2>1 DEF Suspend, Click, Base, TypeOK, Counting, Ended, Steps, Status
<1>15. CASE ResumeEngine
  <2>1. upload' \in [Items -> Status \cup {"none"}]
    BY <1>15, SetUploadsType DEF ResumeEngine, ResumeSuspended, Base, Status
  <2> QED
    BY <1>15, <2>1 DEF ResumeEngine, ResumeSuspended, Base, TypeOK, Counting, Ended, Steps, Status
<1>16. CASE Restart
  <2>1. upload' \in [Items -> Status \cup {"none"}]
    BY <1>16, SetUploadsType DEF Restart, Base, Status
  <2>2. step' \in [Items -> Steps]
    BY <1>16 DEF Restart, Base, TypeOK, Steps
  <2>3. due' \subseteq planned /\ ops' \in 0..MaxOps
    BY <1>16 DEF Restart, Base, TypeOK
  <2>4. TypeOK'
    <3>1. UNCHANGED <<planned, rows, todo, sessionVars, linked, lost, faults>> /\ abandoned' \subseteq abandoned
      BY <1>16 DEF Restart
    <3>2. /\ stage' = "done"
          /\ gui' = "idle"
          /\ target' = NoItem
          /\ suspended' = FALSE
      BY <1>16 DEF Restart
    <3> QED
      BY <2>1, <2>2, <2>3, <3>1, <3>2 DEF Base, TypeOK
  <2> QED
    BY <1>16, <2>4 DEF Restart, Base, TypeOK, Counting, Ended
<1>17. ASSUME NEW i \in Items, Take(i) PROVE Base'
  BY <1>17 DEF Take, Goto, Base, TypeOK, Counting, Ended, Steps, Status
<1>18. ASSUME NEW i \in Items, ReadSession(i) PROVE Base'
  BY <1>18 DEF ReadSession, At, Goto, Base, TypeOK, Counting, Ended, Steps, Status
<1>19. ASSUME NEW i \in Items, PathExists(i) PROVE Base'
  BY <1>19 DEF PathExists, At, Goto, Base, TypeOK, Counting, Ended, Steps, Status
<1>20. ASSUME NEW i \in Items, MakeFolder(i) PROVE Base'
  BY <1>20 DEF MakeFolder, At, Children, Goto, Base, TypeOK, Counting, Ended, Steps, Status
<1>21. ASSUME NEW i \in Items, FindTransfer(i) PROVE Base'
  BY <1>21 DEF FindTransfer, At, Goto, Base, TypeOK, Counting, Ended, Steps, Status
<1>22. ASSUME NEW i \in Items, NoTransfer(i) PROVE Base'
  BY <1>22 DEF NoTransfer, At, Faulty, Goto, Base, TypeOK, Counting, Ended, Steps, Status
<1>23. ASSUME NEW i \in Items, NewTransfer(i) PROVE Base'
  BY <1>23 DEF NewTransfer, At, Goto, Base, TypeOK, Counting, Ended, Steps, Status
<1>24. ASSUME NEW i \in Items, Chunk(i) PROVE Base'
  BY <1>24 DEF Chunk, At, Goto, Base, TypeOK, Counting, Ended, Steps, Status
<1>25. ASSUME NEW i \in Items, SendInOneGo(i) PROVE Base'
  BY <1>25 DEF SendInOneGo, At, Goto, Base, TypeOK, Counting, Ended, Steps, Status
<1>26. ASSUME NEW i \in Items, Complete(i) PROVE Base'
  <2>1. upload' \in [Items -> Status \cup {"none"}]
    BY <1>26, SetUploadsType DEF Complete, Base, Status
  <2> QED
    BY <1>26, <2>1 DEF Complete, At, Goto, Base, TypeOK, Counting, Ended, Steps, Status
<1>27. ASSUME NEW i \in Items, Link(i) PROVE Base'
  BY <1>27 DEF Link, At, Goto, Base, TypeOK, Counting, Ended, Steps, Status
<1>28. ASSUME NEW i \in Items, UploadCancelled(i) PROVE Base'
  BY <1>28 DEF UploadCancelled, At, Goto, Base, TypeOK, Counting, Ended, Steps, Status
<1>29. ASSUME NEW i \in Items, EndTransfer(i) PROVE Base'
  <2>1. upload' \in [Items -> Status \cup {"none"}]
    BY <1>29, RemoveUploadsType DEF EndTransfer, Base
  <2> QED
    BY <1>29, <2>1 DEF EndTransfer, At, Goto, Base, TypeOK, Counting, Ended, Steps, Status
<1>30. ASSUME NEW i \in Items, EndUploaded(i) PROVE Base'
  BY <1>30 DEF EndUploaded, At, Goto, Base, TypeOK, Counting, Ended, Steps, Status
<1>31. ASSUME NEW i \in Items, EndGivenUp(i) PROVE Base'
  BY <1>31 DEF EndGivenUp, At, Goto, Base, TypeOK, Counting, Ended, Steps, Status
<1>32. ASSUME NEW i \in Items, EndSession(i) PROVE Base'
  BY <1>32 DEF EndSession, At, Goto, Base, TypeOK, Counting, Ended, Steps, Status
<1>33. ASSUME NEW i \in Items, CountUploaded(i) PROVE Base'
  BY <1>33 DEF CountUploaded, At, UpdateSession, Goto, Base, TypeOK, Counting, Ended, Steps, Status
<1>34. ASSUME NEW i \in Items, CountGivenUp(i) PROVE Base'
  BY <1>34 DEF CountGivenUp, At, DecreaseSession, Goto, Base, TypeOK, Counting, Ended, Steps, Status
<1>35. ASSUME NEW i \in Items, PathMissing(i) PROVE Base'
  <2>1. upload' \in [Items -> Status \cup {"none"}]
    BY <1>35, SetUploadsType DEF PathMissing, PauseSession, Base, Status
  <2>2. step' \in [Items -> Steps]
    BY <1>35 DEF PathMissing, At, Goto, Faulty, PauseSession, Base, TypeOK, Steps
  <2>3. TypeOK'
    BY <1>35, <2>1, <2>2 DEF PathMissing, At, Goto, Faulty, PauseSession, Base, TypeOK, Status
  <2> QED
    BY <1>35, <2>3 DEF PathMissing, At, Goto, Faulty, PauseSession, Base, TypeOK, Counting, Ended
<1>36. ASSUME NEW i \in Items, Ignored(i) PROVE Base'
  BY <1>36 DEF Ignored, At, Faulty, Goto, Base, TypeOK, Counting, Ended, Steps, Status
<1>37. ASSUME NEW i \in Items, LinkNotFound(i) PROVE Base'
  <2>1. upload' \in [Items -> Status \cup {"none"}]
    BY <1>37, SetUploadsType DEF LinkNotFound, Base, Status
  <2>2. step' \in [Items -> Steps]
    BY <1>37 DEF LinkNotFound, At, Goto, Faulty, Base, TypeOK, Steps
  <2>3. TypeOK'
    BY <1>37, <2>1, <2>2 DEF LinkNotFound, At, Goto, Faulty, Base, TypeOK, Status
  <2> QED
    BY <1>37, <2>3 DEF LinkNotFound, At, Goto, Faulty, Base, TypeOK, Counting, Ended
<1>38. ASSUME NEW i \in Items, Disconnected(i) PROVE Base'
  BY <1>38 DEF Disconnected, Faulty, Goto, Base, TypeOK, Counting, Ended, Steps, Status
<1>39. ASSUME NEW i \in Items, GiveUp(i) PROVE Base'
  BY <1>39 DEF GiveUp, Faulty, Goto, Base, TypeOK, Counting, Ended, Steps, Status
<1>40. ASSUME NEW i \in Items, CancelUpload(i) PROVE Base'
  BY <1>40 DEF CancelUpload, Click, Base, TypeOK, Counting, Ended, Steps, Status
<1>41. CASE UNCHANGED vars
  BY <1>41 DEF vars, Base, TypeOK, Counting, Ended, Steps, Status
<1>42. ASSUME NEW i \in Items, Forbidden(i) PROVE Base'
  BY <1>42 DEF Forbidden, LeaveBehind, Faulty, Goto, Base, TypeOK, Counting, Ended, Steps, Status
<1>43. ASSUME NEW i \in Items, CredentialsExpired(i) PROVE Base'
  <2>1. upload' \in [Items -> Status \cup {"none"}]
    BY <1>43, RemoveUploadsType DEF CredentialsExpired, Base
  <2>2. step' \in [Items -> Steps] /\ faults' \in 0..MaxFaults /\ abandoned' \subseteq planned
    BY <1>43 DEF CredentialsExpired, LeaveBehind, Faulty, Goto, Base, TypeOK, Steps
  <2>3. UNCHANGED <<planVars, rows, todo, due, sessionVars, userVars, linked, lost>>
    BY <1>43 DEF CredentialsExpired
  <2>4. TypeOK'
    BY <2>1, <2>2, <2>3 DEF Base, TypeOK
  <2> QED
    BY <1>43, <2>3, <2>4 DEF CredentialsExpired, LeaveBehind, Goto, Base, TypeOK, Counting, Ended
<1>44. ASSUME NEW i \in Items, Vanished(i) PROVE Base'
  BY <1>44 DEF Vanished, Faulty, Goto, Base, TypeOK, Counting, Ended, Steps, Status
<1> QED
  BY <1>1, <1>2, <1>3, <1>4, <1>5, <1>6, <1>7, <1>8, <1>9, <1>10, <1>11, <1>12, <1>13, <1>14,
     <1>15, <1>16, <1>17, <1>18, <1>19, <1>20, <1>21, <1>22, <1>23, <1>24, <1>25, <1>26, <1>27,
     <1>28, <1>29, <1>30, <1>31, <1>32, <1>33, <1>34, <1>35, <1>36, <1>37, <1>38, <1>39, <1>40,
     <1>41, <1>42, <1>43, <1>44
  DEF Next, Runner, Gui, User, Handle, Suffer
-----------------------------------------------------------------------------
(* The count of a session                                                  *)

\* The items counted as uploaded are among these.
Counted == {i \in linked : i \notin rows /\ step[i] = "idle"}

CountInv == Base /\ uploaded <= Cardinality(Counted)

\* What every step but CountUploaded respects.
CountFrame ==
    /\ uploaded' = uploaded
    /\ linked \subseteq linked'
    /\ rows' \cap planned \subseteq rows
    /\ \A i \in Items \ rows : step[i] = "idle" => step'[i] = "idle"

LEMMA LinkedIsFinite ==
  ASSUME TypeOK
  PROVE  IsFiniteSet(linked) /\ IsFiniteSet(Counted)
<1>1. linked \subseteq Items /\ Counted \subseteq Items
  BY DEF TypeOK, Counted
<1> QED
  BY <1>1, FS_Subset, ConstantsAssumption DEF ConstantsAssumption

LEMMA CountFrameStep ==
  ASSUME Base, [Next]_vars, \A i \in Items : ~CountUploaded(i)
  PROVE  CountFrame
<1> USE DEF CountFrame, Base, TypeOK
<1>1. CASE CreateSession
  BY <1>1 DEF CreateSession
<1>2. CASE PlanItems
  BY <1>2 DEF PlanItems
<1>3. CASE QueueItems
  BY <1>3 DEF QueueItems
<1>4. CASE ResumeSession
  BY <1>4 DEF ResumeSession
<1>5. CASE CancelSession
  BY <1>5 DEF CancelSession
<1>6. CASE DeclineCancel
  BY <1>6 DEF DeclineCancel
<1>7. CASE TellProcessor
  BY <1>7 DEF TellProcessor
<1>8. CASE DropTransfer
  BY <1>8 DEF DropTransfer
<1>9. CASE DropState
  BY <1>9 DEF DropState
<1>10. CASE DropCount
  BY <1>10 DEF DropCount, DecreaseSession
<1>11. CASE Pause
  BY <1>11 DEF Pause, PauseSession
<1>12. CASE Resume
  BY <1>12 DEF Resume
<1>13. CASE AskCancelSession
  BY <1>13 DEF AskCancelSession
<1>14. CASE Suspend
  BY <1>14 DEF Suspend
<1>15. CASE ResumeEngine
  BY <1>15 DEF ResumeEngine
<1>16. CASE Restart
  BY <1>16 DEF Restart
<1>17. ASSUME NEW i \in Items, Take(i) PROVE CountFrame
  BY <1>17 DEF Take, Goto
<1>18. ASSUME NEW i \in Items, ReadSession(i) PROVE CountFrame
  BY <1>18 DEF ReadSession, At, Goto
<1>19. ASSUME NEW i \in Items, PathExists(i) PROVE CountFrame
  BY <1>19 DEF PathExists, At, Goto
<1>20. ASSUME NEW i \in Items, MakeFolder(i) PROVE CountFrame
  BY <1>20 DEF MakeFolder, At, Goto
<1>21. ASSUME NEW i \in Items, FindTransfer(i) PROVE CountFrame
  BY <1>21 DEF FindTransfer, At, Goto
<1>22. ASSUME NEW i \in Items, NoTransfer(i) PROVE CountFrame
  BY <1>22 DEF NoTransfer, At, Goto
<1>23. ASSUME NEW i \in Items, NewTransfer(i) PROVE CountFrame
  BY <1>23 DEF NewTransfer, At, Goto
<1>24. ASSUME NEW i \in Items, Chunk(i) PROVE CountFrame
  BY <1>24 DEF Chunk, At, Goto
<1>25. ASSUME NEW i \in Items, SendInOneGo(i) PROVE CountFrame
  BY <1>25 DEF SendInOneGo, At, Goto
<1>26. ASSUME NEW i \in Items, Complete(i) PROVE CountFrame
  BY <1>26 DEF Complete, At, Goto
<1>27. ASSUME NEW i \in Items, Link(i) PROVE CountFrame
  BY <1>27 DEF Link, At, Goto
<1>28. ASSUME NEW i \in Items, UploadCancelled(i) PROVE CountFrame
  BY <1>28 DEF UploadCancelled, At, Goto
<1>29. ASSUME NEW i \in Items, EndTransfer(i) PROVE CountFrame
  BY <1>29 DEF EndTransfer, At, Goto
<1>30. ASSUME NEW i \in Items, EndUploaded(i) PROVE CountFrame
  BY <1>30 DEF EndUploaded, At, Goto
<1>31. ASSUME NEW i \in Items, EndGivenUp(i) PROVE CountFrame
  BY <1>31 DEF EndGivenUp, At, Goto
<1>32. ASSUME NEW i \in Items, EndSession(i) PROVE CountFrame
  BY <1>32 DEF EndSession, At, Goto
<1>33. ASSUME NEW i \in Items, CountGivenUp(i) PROVE CountFrame
  BY <1>33 DEF CountGivenUp, At, DecreaseSession, Goto
<1>34. ASSUME NEW i \in Items, PathMissing(i) PROVE CountFrame
  BY <1>34 DEF PathMissing, At, PauseSession, Goto
<1>35. ASSUME NEW i \in Items, Ignored(i) PROVE CountFrame
  BY <1>35 DEF Ignored, At, Goto
<1>36. ASSUME NEW i \in Items, LinkNotFound(i) PROVE CountFrame
  BY <1>36 DEF LinkNotFound, At, Goto
<1>37. ASSUME NEW i \in Items, Disconnected(i) PROVE CountFrame
  BY <1>37 DEF Disconnected, Goto
<1>38. ASSUME NEW i \in Items, GiveUp(i) PROVE CountFrame
  BY <1>38 DEF GiveUp, Goto
<1>39. ASSUME NEW i \in Items, CancelUpload(i) PROVE CountFrame
  BY <1>39 DEF CancelUpload
<1>40. CASE UNCHANGED vars
  BY <1>40 DEF vars
<1>41. ASSUME NEW i \in Items, Forbidden(i) PROVE CountFrame
  BY <1>41 DEF Forbidden, LeaveBehind, Goto
<1>42. ASSUME NEW i \in Items, CredentialsExpired(i) PROVE CountFrame
  BY <1>42 DEF CredentialsExpired, LeaveBehind, Goto
<1>43. ASSUME NEW i \in Items, Vanished(i) PROVE CountFrame
  BY <1>43 DEF Vanished, Goto
<1> QED
  BY <1>1, <1>2, <1>3, <1>4, <1>5, <1>6, <1>7, <1>8, <1>9, <1>10, <1>11, <1>12, <1>13, <1>14,
     <1>15, <1>16, <1>17, <1>18, <1>19, <1>20, <1>21, <1>22, <1>23, <1>24, <1>25, <1>26, <1>27,
     <1>28, <1>29, <1>30, <1>31, <1>32, <1>33, <1>34, <1>35, <1>36, <1>37, <1>38, <1>39, <1>40, <1>41, <1>42, <1>43
  DEF Next, Runner, Gui, User, Handle, Suffer

\* A step that counts an upload counts one more item; the others keep those
\* that were counted.
LEMMA CountStep == CountInv /\ [Next]_vars => CountInv'
<1> SUFFICES ASSUME CountInv, [Next]_vars PROVE CountInv'
  OBVIOUS
<1>1. Base /\ Base'
  BY BaseStep DEF CountInv
<1>2. /\ IsFiniteSet(Counted) /\ IsFiniteSet(Counted')
      /\ Cardinality(Counted) \in Nat /\ Cardinality(Counted') \in Nat
  <2>1. TypeOK'
    BY <1>1 DEF Base
  <2>2. IsFiniteSet(Counted')
    BY <2>1, FS_Subset, ConstantsAssumption DEF ConstantsAssumption, TypeOK, Counted
  <2> QED
    BY <1>1, <2>2, LinkedIsFinite, FS_CardinalityType DEF Base
<1>3. uploaded \in Nat /\ uploaded <= Cardinality(Counted)
  BY DEF CountInv, Base, TypeOK
<1>4. ASSUME NEW i \in Items, CountUploaded(i) PROVE CountInv'
  <2>1. i \in linked /\ i \notin rows /\ step[i] = "ok_count"
    BY <1>1, <1>4 DEF CountUploaded, At, Base, Counting, Ended
  <2>2. UNCHANGED <<linked, rows>> /\ step' = [step EXCEPT ![i] = "idle"] /\ uploaded' = uploaded + 1
    BY <1>4 DEF CountUploaded, At, Goto, UpdateSession
  <2>3. Counted' = Counted \cup {i} /\ i \notin Counted
    BY <1>1, <2>1, <2>2 DEF Counted, Base, TypeOK
  <2>4. Cardinality(Counted') = Cardinality(Counted) + 1
    BY <1>2, <2>3, FS_AddElement
  <2> QED
    BY <1>1, <1>2, <1>3, <2>2, <2>4 DEF CountInv
<1>5. CASE \A i \in Items : ~CountUploaded(i)
  <2>1. CountFrame
    BY <1>1, <1>5, CountFrameStep
  <2>2. Counted \subseteq Counted'
    BY <1>1, <2>1 DEF Counted, CountFrame, Base, TypeOK
  <2>3. Cardinality(Counted) <= Cardinality(Counted')
    BY <1>2, <2>2, FS_Subset
  <2> QED
    BY <1>1, <1>2, <1>3, <2>1, <2>3 DEF CountInv, CountFrame
<1> QED
  BY <1>4, <1>5

\* Types: the tables only hold what the code writes (EngineDAO).
THEOREM TransferTypes == Spec => []TypeOK
<1>1. Base => TypeOK
  BY DEF Base
<1> QED
  BY <1>1, BaseInit, BaseStep, PTL DEF Spec

\* A session never counts more uploads than there are documents, whatever the
\* user cancels, the server answers and however often the application restarts.
THEOREM CountIsTrue == Spec => []CountedIsLinked
<1>1. Init => CountInv
  <2> SUFFICES ASSUME Init PROVE CountInv
    OBVIOUS
  <2>1. Counted = {} /\ uploaded = 0
    BY DEF Init, Counted
  <2> QED
    BY <2>1, BaseInit, FS_EmptySet DEF CountInv
<1>2. CountInv => CountedIsLinked
  <2> SUFFICES ASSUME CountInv PROVE CountedIsLinked
    OBVIOUS
  <2>1. IsFiniteSet(linked) /\ IsFiniteSet(Counted)
    BY LinkedIsFinite DEF CountInv, Base
  <2>2. Counted \subseteq linked
    BY DEF Counted
  <2>3. /\ Cardinality(Counted) <= Cardinality(linked)
        /\ Cardinality(Counted) \in Nat /\ Cardinality(linked) \in Nat
    BY <2>1, <2>2, FS_Subset, FS_CardinalityType
  <2> QED
    BY <2>3 DEF CountInv, Base, TypeOK, CountedIsLinked
<1> QED
  BY <1>1, <1>2, CountStep, PTL DEF Spec

-----------------------------------------------------------------------------
(* The session                                                             *)

\* Where the session keeps its contract: no upload is cancelled alone, nothing
\* restarts, no folder is given up, and a session that may be cancelled is not
\* paused by a missing path.
Orderly ==
    /\ Ops \cap {"cancel_upload", "restart"} = {}
    /\ "not_found" \in Faults => Folders = {}
    /\ "missing" \in Faults => "cancel_session" \notin Ops

\* A processor works on an item that it has not begun to count.
Busy(i) == step[i] # "idle" /\ ~Counting(i)

\* The main thread is at what an orderly user asks for, and folders are not uploaded.
Shape ==
    /\ gui \in {"idle", "confirm", "resume"}
    /\ gui = "confirm" => "cancel_session" \in Ops
    /\ \A i \in Items :
          step[i] \in {"get", "new", "chunks", "complete", "link", "cancelled",
                      "no_transfer", "no_state", "no_count"} => i \notin Folders

WasCancelled == status = "CANCELLED" /\ "cancel_session" \in Ops

\* An item being handled keeps its row, but for a cancellation of the session.
Present == \A i \in Items : Busy(i) => i \in rows \/ WasCancelled

Counts ==
    /\ Accounting
    /\ status = "CANCELLED" => total <= uploaded
    /\ status = "CANCELLED" => Left = {} \/ WasCancelled
    /\ status = "DONE" => Left = {}

SessionInv == Base /\ Shape /\ Present /\ Counts

\* What a step does to the counters and to the items that are left.
SameLeft == Left' = Left \/ WasCancelled
Still == UNCHANGED sessionVars /\ SameLeft
Created ==
    /\ status = "none" /\ status' \in {"ONGOING", "PAUSED"}
    /\ uploaded = 0 /\ uploaded' = 0 /\ total' = Cardinality(Items)
    /\ Left = Items /\ Left' = Items
Paused ==
    /\ status \in {"ONGOING", "PAUSED"} /\ status' = "PAUSED"
    /\ UNCHANGED <<uploaded, total>> /\ Left' = Left
Resumed ==
    /\ status = "PAUSED" /\ status' = "ONGOING"
    /\ UNCHANGED <<uploaded, total>> /\ Left' = Left
Cancelled ==
    /\ status # "none" /\ status' = "CANCELLED" /\ "cancel_session" \in Ops
    /\ uploaded' = uploaded /\ total' = uploaded
CountedOne(i) ==
    /\ status # "none" /\ i \in Left \ lost /\ Left' = Left \ {i}
    /\ UpdateSession \/ DecreaseSession

Losing(i) ==
    /\ i \in rows /\ lost' = lost \cup {i}
    /\ UNCHANGED sessionVars /\ Left' = Left

Effect ==
    \/ UNCHANGED lost /\ (Still \/ Created \/ Paused \/ Resumed \/ Cancelled)
    \/ UNCHANGED lost /\ \E i \in Items : CountedOne(i)
    \/ \E i \in Items : Losing(i)

LEMMA SessionInvInit == Init => SessionInv
<1> SUFFICES ASSUME Init PROVE SessionInv
  OBVIOUS
<1>1. Shape /\ Present /\ Counts
  BY DEF Init, Shape, Present, Busy, Counts, Accounting
<1> QED
  BY <1>1, BaseInit DEF SessionInv

\* The shape is kept by an orderly step.
LEMMA ShapeStep ==
  ASSUME Orderly, Base, Shape, [Next]_vars
  PROVE  Shape'
<1> USE DEF Shape, Base, TypeOK
<1>1. CASE CreateSession
  BY <1>1 DEF CreateSession
<1>2. CASE PlanItems
  BY <1>2 DEF PlanItems
<1>3. CASE QueueItems
  BY <1>3 DEF QueueItems
<1>4. CASE ResumeSession
  BY <1>4 DEF ResumeSession
<1>5. CASE CancelSession
  BY <1>5 DEF CancelSession
<1>6. CASE DeclineCancel
  BY <1>6 DEF DeclineCancel
<1>7. CASE TellProcessor
  BY <1>7 DEF TellProcessor
<1>8. CASE DropTransfer
  BY <1>8 DEF DropTransfer
<1>9. CASE DropState
  BY <1>9 DEF DropState
<1>10. CASE DropCount
  BY <1>10 DEF DropCount, DecreaseSession
<1>11. CASE Pause
  BY <1>11 DEF Pause, PauseSession
<1>12. CASE Resume
  BY <1>12 DEF Resume
<1>13. CASE AskCancelSession
  BY <1>13 DEF AskCancelSession, Click
<1>14. CASE Suspend
  BY <1>14 DEF Suspend
<1>15. CASE ResumeEngine
  BY <1>15 DEF ResumeEngine
<1>16. CASE Restart
  BY <1>16 DEF Restart, Orderly
<1>17. ASSUME NEW i \in Items, Take(i) PROVE Shape'
  BY <1>17 DEF Take, Goto
<1>18. ASSUME NEW i \in Items, ReadSession(i) PROVE Shape'
  BY <1>18 DEF ReadSession, At, Goto
<1>19. ASSUME NEW i \in Items, PathExists(i) PROVE Shape'
  BY <1>19 DEF PathExists, At, Goto
<1>20. ASSUME NEW i \in Items, MakeFolder(i) PROVE Shape'
  BY <1>20 DEF MakeFolder, At, Goto
<1>21. ASSUME NEW i \in Items, FindTransfer(i) PROVE Shape'
  BY <1>21 DEF FindTransfer, At, Goto
<1>22. ASSUME NEW i \in Items, NoTransfer(i) PROVE Shape'
  BY <1>22 DEF NoTransfer, At, Goto
<1>23. ASSUME NEW i \in Items, NewTransfer(i) PROVE Shape'
  BY <1>23 DEF NewTransfer, At, Goto
<1>24. ASSUME NEW i \in Items, Chunk(i) PROVE Shape'
  BY <1>24 DEF Chunk, At, Goto
<1>25. ASSUME NEW i \in Items, SendInOneGo(i) PROVE Shape'
  BY <1>25 DEF SendInOneGo, At, Goto
<1>26. ASSUME NEW i \in Items, Complete(i) PROVE Shape'
  BY <1>26 DEF Complete, At, Goto
<1>27. ASSUME NEW i \in Items, Link(i) PROVE Shape'
  BY <1>27 DEF Link, At, Goto
<1>28. ASSUME NEW i \in Items, UploadCancelled(i) PROVE Shape'
  BY <1>28 DEF UploadCancelled, At, Goto
<1>29. ASSUME NEW i \in Items, EndTransfer(i) PROVE Shape'
  BY <1>29 DEF EndTransfer, At, Goto
<1>30. ASSUME NEW i \in Items, EndUploaded(i) PROVE Shape'
  BY <1>30 DEF EndUploaded, At, Goto
<1>31. ASSUME NEW i \in Items, EndGivenUp(i) PROVE Shape'
  BY <1>31 DEF EndGivenUp, At, Goto
<1>32. ASSUME NEW i \in Items, EndSession(i) PROVE Shape'
  BY <1>32 DEF EndSession, At, Goto
<1>33. ASSUME NEW i \in Items, CountUploaded(i) PROVE Shape'
  BY <1>33 DEF CountUploaded, At, UpdateSession, Goto
<1>34. ASSUME NEW i \in Items, CountGivenUp(i) PROVE Shape'
  BY <1>34 DEF CountGivenUp, At, DecreaseSession, Goto
<1>35. ASSUME NEW i \in Items, PathMissing(i) PROVE Shape'
  BY <1>35 DEF PathMissing, At, PauseSession, Goto
<1>36. ASSUME NEW i \in Items, Ignored(i) PROVE Shape'
  BY <1>36 DEF Ignored, At, Goto
<1>37. ASSUME NEW i \in Items, LinkNotFound(i) PROVE Shape'
  BY <1>37 DEF LinkNotFound, At, Goto
<1>38. ASSUME NEW i \in Items, Disconnected(i) PROVE Shape'
  BY <1>38 DEF Disconnected, Goto
<1>39. ASSUME NEW i \in Items, GiveUp(i) PROVE Shape'
  BY <1>39 DEF GiveUp, Goto, Faulty, Orderly
<1>40. ASSUME NEW i \in Items, CancelUpload(i) PROVE Shape'
  BY <1>40 DEF CancelUpload, Click, Orderly
<1>41. CASE UNCHANGED vars
  BY <1>41 DEF vars
<1>42. ASSUME NEW i \in Items, Forbidden(i) PROVE Shape'
  BY <1>42 DEF Forbidden, LeaveBehind, Goto
<1>43. ASSUME NEW i \in Items, CredentialsExpired(i) PROVE Shape'
  BY <1>43 DEF CredentialsExpired, LeaveBehind, Goto
<1>44. ASSUME NEW i \in Items, Vanished(i) PROVE Shape'
  BY <1>44 DEF Vanished, Goto
<1> QED
  BY <1>1, <1>2, <1>3, <1>4, <1>5, <1>6, <1>7, <1>8, <1>9, <1>10, <1>11, <1>12, <1>13, <1>14,
     <1>15, <1>16, <1>17, <1>18, <1>19, <1>20, <1>21, <1>22, <1>23, <1>24, <1>25, <1>26, <1>27,
     <1>28, <1>29, <1>30, <1>31, <1>32, <1>33, <1>34, <1>35, <1>36, <1>37, <1>38, <1>39, <1>40,
     <1>41, <1>42, <1>43, <1>44
  DEF Next, Runner, Gui, User, Handle, Suffer

\* A step that leaves the rows, the plan and who is counting leaves what is left.
LEMMA LeftFrame ==
  ASSUME UNCHANGED <<planned, rows, lost>>, \A j \in Items : Counting(j)' <=> Counting(j)
  PROVE  Left' = Left
  BY DEF Left

\* Every orderly step has one of the effects above.
LEMMA EffectStep ==
  ASSUME Orderly, SessionInv, [Next]_vars
  PROVE  Effect
<1>0. Base /\ Shape /\ Present /\ Counts
  BY DEF SessionInv
<1>1. CASE QueueItems
  <2>1. UNCHANGED <<planned, rows, lost, step, sessionVars>>
    BY <1>1 DEF QueueItems
  <2> QED
    BY <2>1, LeftFrame DEF Counting, Effect, Still, SameLeft
<1>2. CASE ResumeSession
  <2>1. UNCHANGED <<planned, rows, lost, step, sessionVars>>
    BY <1>2 DEF ResumeSession
  <2> QED
    BY <2>1, LeftFrame DEF Counting, Effect, Still, SameLeft
<1>3. CASE DeclineCancel
  <2>1. UNCHANGED <<planned, rows, lost, step, sessionVars>>
    BY <1>3 DEF DeclineCancel
  <2> QED
    BY <2>1, LeftFrame DEF Counting, Effect, Still, SameLeft
<1>4. CASE AskCancelSession
  <2>1. UNCHANGED <<planned, rows, lost, step, sessionVars>>
    BY <1>4 DEF AskCancelSession
  <2> QED
    BY <2>1, LeftFrame DEF Counting, Effect, Still, SameLeft
<1>5. CASE Suspend
  <2>1. UNCHANGED <<planned, rows, lost, step, sessionVars>>
    BY <1>5 DEF Suspend
  <2> QED
    BY <2>1, LeftFrame DEF Counting, Effect, Still, SameLeft
<1>6. CASE ResumeEngine
  <2>1. UNCHANGED <<planned, rows, lost, step, sessionVars>>
    BY <1>6 DEF ResumeEngine
  <2> QED
    BY <2>1, LeftFrame DEF Counting, Effect, Still, SameLeft
<1>7. ASSUME NEW i \in Items, Take(i) PROVE Effect
  <2>1. UNCHANGED <<planned, rows, lost, sessionVars>>
    BY <1>7 DEF Take, Goto
  <2>2. \A j \in Items : Counting(j)' <=> Counting(j)
    BY <1>0, <1>7 DEF Take, Goto, Counting, Base, TypeOK
  <2> QED
    BY <2>1, <2>2, LeftFrame DEF Effect, Still, SameLeft
<1>8. ASSUME NEW i \in Items, ReadSession(i) PROVE Effect
  <2>1. UNCHANGED <<planned, rows, lost, sessionVars>>
    BY <1>8 DEF ReadSession, At, Goto
  <2>2. \A j \in Items : Counting(j)' <=> Counting(j)
    BY <1>0, <1>8 DEF ReadSession, At, Goto, Counting, Base, TypeOK
  <2> QED
    BY <2>1, <2>2, LeftFrame DEF Effect, Still, SameLeft
<1>9. ASSUME NEW i \in Items, PathExists(i) PROVE Effect
  <2>1. UNCHANGED <<planned, rows, lost, sessionVars>>
    BY <1>9 DEF PathExists, At, Goto
  <2>2. \A j \in Items : Counting(j)' <=> Counting(j)
    BY <1>0, <1>9 DEF PathExists, At, Goto, Counting, Base, TypeOK
  <2> QED
    BY <2>1, <2>2, LeftFrame DEF Effect, Still, SameLeft
<1>10. ASSUME NEW i \in Items, MakeFolder(i) PROVE Effect
  <2>1. UNCHANGED <<planned, rows, lost, sessionVars>>
    BY <1>10 DEF MakeFolder, At, Goto
  <2>2. \A j \in Items : Counting(j)' <=> Counting(j)
    BY <1>0, <1>10 DEF MakeFolder, At, Goto, Counting, Base, TypeOK
  <2> QED
    BY <2>1, <2>2, LeftFrame DEF Effect, Still, SameLeft
<1>11. ASSUME NEW i \in Items, FindTransfer(i) PROVE Effect
  <2>1. UNCHANGED <<planned, rows, lost, sessionVars>>
    BY <1>11 DEF FindTransfer, At, Goto
  <2>2. \A j \in Items : Counting(j)' <=> Counting(j)
    BY <1>0, <1>11 DEF FindTransfer, At, Goto, Counting, Base, TypeOK
  <2> QED
    BY <2>1, <2>2, LeftFrame DEF Effect, Still, SameLeft
<1>12. ASSUME NEW i \in Items, NoTransfer(i) PROVE Effect
  <2>1. UNCHANGED <<planned, rows, lost, sessionVars>>
    BY <1>12 DEF NoTransfer, At, Goto
  <2>2. \A j \in Items : Counting(j)' <=> Counting(j)
    BY <1>0, <1>12 DEF NoTransfer, At, Goto, Counting, Base, TypeOK
  <2> QED
    BY <2>1, <2>2, LeftFrame DEF Effect, Still, SameLeft
<1>13. ASSUME NEW i \in Items, NewTransfer(i) PROVE Effect
  <2>1. UNCHANGED <<planned, rows, lost, sessionVars>>
    BY <1>13 DEF NewTransfer, At, Goto
  <2>2. \A j \in Items : Counting(j)' <=> Counting(j)
    BY <1>0, <1>13 DEF NewTransfer, At, Goto, Counting, Base, TypeOK
  <2> QED
    BY <2>1, <2>2, LeftFrame DEF Effect, Still, SameLeft
<1>14. ASSUME NEW i \in Items, Chunk(i) PROVE Effect
  <2>1. UNCHANGED <<planned, rows, lost, sessionVars>>
    BY <1>14 DEF Chunk, At, Goto
  <2>2. \A j \in Items : Counting(j)' <=> Counting(j)
    BY <1>0, <1>14 DEF Chunk, At, Goto, Counting, Base, TypeOK
  <2> QED
    BY <2>1, <2>2, LeftFrame DEF Effect, Still, SameLeft
<1>15. ASSUME NEW i \in Items, SendInOneGo(i) PROVE Effect
  <2>1. UNCHANGED <<planned, rows, lost, sessionVars>>
    BY <1>15 DEF SendInOneGo, At, Goto
  <2>2. \A j \in Items : Counting(j)' <=> Counting(j)
    BY <1>0, <1>15 DEF SendInOneGo, At, Goto, Counting, Base, TypeOK
  <2> QED
    BY <2>1, <2>2, LeftFrame DEF Effect, Still, SameLeft
<1>16. ASSUME NEW i \in Items, Complete(i) PROVE Effect
  <2>1. UNCHANGED <<planned, rows, lost, sessionVars>>
    BY <1>16 DEF Complete, At, Goto
  <2>2. \A j \in Items : Counting(j)' <=> Counting(j)
    BY <1>0, <1>16 DEF Complete, At, Goto, Counting, Base, TypeOK
  <2> QED
    BY <2>1, <2>2, LeftFrame DEF Effect, Still, SameLeft
<1>17. ASSUME NEW i \in Items, Link(i) PROVE Effect
  <2>1. UNCHANGED <<planned, rows, lost, sessionVars>>
    BY <1>17 DEF Link, At, Goto
  <2>2. \A j \in Items : Counting(j)' <=> Counting(j)
    BY <1>0, <1>17 DEF Link, At, Goto, Counting, Base, TypeOK
  <2> QED
    BY <2>1, <2>2, LeftFrame DEF Effect, Still, SameLeft
<1>18. ASSUME NEW i \in Items, UploadCancelled(i) PROVE Effect
  <2>1. UNCHANGED <<planned, rows, lost, sessionVars>>
    BY <1>18 DEF UploadCancelled, At, Goto
  <2>2. \A j \in Items : Counting(j)' <=> Counting(j)
    BY <1>0, <1>18 DEF UploadCancelled, At, Goto, Counting, Base, TypeOK
  <2> QED
    BY <2>1, <2>2, LeftFrame DEF Effect, Still, SameLeft
<1>19. ASSUME NEW i \in Items, EndTransfer(i) PROVE Effect
  <2>1. UNCHANGED <<planned, rows, lost, sessionVars>>
    BY <1>19 DEF EndTransfer, At, Goto
  <2>2. \A j \in Items : Counting(j)' <=> Counting(j)
    BY <1>0, <1>19 DEF EndTransfer, At, Goto, Counting, Base, TypeOK
  <2> QED
    BY <2>1, <2>2, LeftFrame DEF Effect, Still, SameLeft
<1>20. ASSUME NEW i \in Items, Ignored(i) PROVE Effect
  <2>1. UNCHANGED <<planned, rows, lost, sessionVars>>
    BY <1>20 DEF Ignored, At, Goto
  <2>2. \A j \in Items : Counting(j)' <=> Counting(j)
    BY <1>0, <1>20 DEF Ignored, At, Goto, Counting, Base, TypeOK
  <2> QED
    BY <2>1, <2>2, LeftFrame DEF Effect, Still, SameLeft
<1>21. ASSUME NEW i \in Items, LinkNotFound(i) PROVE Effect
  <2>1. UNCHANGED <<planned, rows, lost, sessionVars>>
    BY <1>21 DEF LinkNotFound, At, Goto
  <2>2. \A j \in Items : Counting(j)' <=> Counting(j)
    BY <1>0, <1>21 DEF LinkNotFound, At, Goto, Counting, Base, TypeOK
  <2> QED
    BY <2>1, <2>2, LeftFrame DEF Effect, Still, SameLeft
<1>22. ASSUME NEW i \in Items, Disconnected(i) PROVE Effect
  <2>1. UNCHANGED <<planned, rows, lost, sessionVars>>
    BY <1>22 DEF Disconnected, Goto
  <2>2. \A j \in Items : Counting(j)' <=> Counting(j)
    BY <1>0, <1>22 DEF Disconnected, Goto, Counting, Base, TypeOK
  <2> QED
    BY <2>1, <2>2, LeftFrame DEF Effect, Still, SameLeft
<1>23. ASSUME NEW i \in Items, GiveUp(i) PROVE Effect
  <2>1. UNCHANGED <<planned, rows, lost, sessionVars>>
    BY <1>23 DEF GiveUp, Goto
  <2>2. \A j \in Items : Counting(j)' <=> Counting(j)
    BY <1>0, <1>23 DEF GiveUp, Goto, Counting, Base, TypeOK
  <2> QED
    BY <2>1, <2>2, LeftFrame DEF Effect, Still, SameLeft
<1>24. CASE TellProcessor
  BY <1>0, <1>24 DEF TellProcessor, Shape
<1>25. CASE DropTransfer
  BY <1>0, <1>25 DEF DropTransfer, Shape
<1>26. CASE DropState
  BY <1>0, <1>26 DEF DropState, Shape
<1>27. CASE DropCount
  BY <1>0, <1>27 DEF DropCount, Shape
<1>28. CASE Restart
  BY <1>28 DEF Restart, Orderly
<1>29. ASSUME NEW i \in Items, CancelUpload(i) PROVE Effect
  BY <1>29 DEF CancelUpload, Click, Orderly
<1>30. CASE CreateSession
  <2>1. status = "none" /\ planned = {} /\ uploaded = 0
    BY <1>0, <1>30 DEF CreateSession, Base
  <2>2. Left = Items
    BY <1>0, <2>1 DEF Left, Base, TypeOK
  <2>3. UNCHANGED <<planned, rows, lost, step>>
    BY <1>30 DEF CreateSession
  <2>4. Left' = Left
    BY <2>3, LeftFrame DEF Counting
  <2> QED
    BY <1>30, <2>1, <2>2, <2>4 DEF CreateSession, Effect, Created
<1>31. CASE PlanItems
  <2>1. Left' = Left
    <3>1. PICK b \in SUBSET (Items \ planned) : planned' = planned \cup b /\ rows' = rows \cup b
      BY <1>31 DEF PlanItems
    <3>2. step' = step /\ lost' = lost
      BY <1>31 DEF PlanItems
    <3> QED
      BY <3>1, <3>2 DEF Left, Counting
  <2> QED
    BY <1>31, <2>1 DEF PlanItems, Effect, Still, SameLeft
<1>32. CASE CancelSession
  BY <1>0, <1>32 DEF CancelSession, Effect, Cancelled, Shape, Base
<1>33. CASE Pause
  <2>1. UNCHANGED <<planned, rows, lost, step>>
    BY <1>33 DEF Pause, PauseSession
  <2>2. Left' = Left
    BY <2>1, LeftFrame DEF Counting
  <2> QED
    BY <1>33, <2>2 DEF Pause, PauseSession, Effect, Paused
<1>34. CASE Resume
  <2>1. UNCHANGED <<planned, rows, lost, step>>
    BY <1>34 DEF Resume
  <2>2. Left' = Left
    BY <2>1, LeftFrame DEF Counting
  <2> QED
    BY <1>34, <2>2 DEF Resume, Effect, Resumed
<1>35. ASSUME NEW i \in Items, PathMissing(i) PROVE Effect
  <2>1. UNCHANGED <<planned, rows, lost>> /\ \A j \in Items : Counting(j)' <=> Counting(j)
    BY <1>0, <1>35 DEF PathMissing, At, Goto, Counting, Base, TypeOK
  <2>2. Left' = Left
    BY <2>1, LeftFrame
  <2>3. ~WasCancelled
    BY <1>35 DEF PathMissing, Faulty, Orderly, WasCancelled
  <2>4. i \in rows /\ i \in Left
    BY <1>0, <1>35, <2>3 DEF PathMissing, At, Present, Busy, Counting, Left
  <2>5. status \in {"ONGOING", "PAUSED"}
    BY <1>0, <1>35, <2>3, <2>4 DEF Counts, Base, TypeOK, Status, PathMissing, At
  <2> QED
    BY <1>35, <2>2, <2>5 DEF PathMissing, PauseSession, Effect, Paused
<1>36. ASSUME NEW i \in Items, EndUploaded(i) PROVE Effect
  <2>1. UNCHANGED <<planned, lost, sessionVars>> /\ rows' = rows \ {i}
    BY <1>0, <1>36 DEF EndUploaded, At, Shape
  <2>2. /\ step[i] = "ok_state" /\ Busy(i) /\ Counting(i)'
        /\ \A j \in Items \ {i} : Counting(j)' <=> Counting(j)
    BY <1>0, <1>36 DEF EndUploaded, At, Goto, Counting, Busy, Base, TypeOK
  <2>3. CASE i \in rows
    BY <2>1, <2>2, <2>3 DEF Left, Effect, Still, SameLeft
  <2>4. CASE i \notin rows
    BY <1>0, <2>1, <2>2, <2>4 DEF Present, Effect, Still, SameLeft
  <2> QED
    BY <2>3, <2>4
<1>37. ASSUME NEW i \in Items, EndGivenUp(i) PROVE Effect
  <2>1. UNCHANGED <<planned, lost, sessionVars>> /\ rows' = rows \ {i}
    BY <1>0, <1>37 DEF EndGivenUp, At, Shape
  <2>2. /\ step[i] = "no_state" /\ Busy(i) /\ Counting(i)'
        /\ \A j \in Items \ {i} : Counting(j)' <=> Counting(j)
    BY <1>0, <1>37 DEF EndGivenUp, At, Goto, Counting, Busy, Base, TypeOK
  <2>3. CASE i \in rows
    BY <2>1, <2>2, <2>3 DEF Left, Effect, Still, SameLeft
  <2>4. CASE i \notin rows
    BY <1>0, <2>1, <2>2, <2>4 DEF Present, Effect, Still, SameLeft
  <2> QED
    BY <2>3, <2>4
<1>38. ASSUME NEW i \in Items, EndSession(i) PROVE Effect
  <2>1. UNCHANGED <<planned, rows, lost, sessionVars>> /\ step[i] = "ok_session"
    BY <1>38 DEF EndSession, At
  <2>2. CASE status = "CANCELLED"
    <3>1. i \in Left
      BY <2>1 DEF Left, Counting
    <3> QED
      BY <1>0, <2>1, <2>2, <3>1 DEF Counts, Effect, Still, SameLeft
  <2>3. CASE status # "CANCELLED"
    <3>1. \A j \in Items : Counting(j)' <=> Counting(j)
      BY <1>0, <1>38, <2>3 DEF EndSession, At, Goto, Counting, Base, TypeOK
    <3> QED
      BY <2>1, <3>1, LeftFrame DEF Effect, Still, SameLeft
  <2> QED
    BY <2>2, <2>3
<1>39. ASSUME NEW i \in Items, CountUploaded(i) PROVE Effect
  <2>1. UNCHANGED <<planned, rows, lost>> /\ step[i] = "ok_count" /\ step' = [step EXCEPT ![i] = "idle"]
    BY <1>39 DEF CountUploaded, At, Goto
  <2>2. i \in planned /\ i \notin rows /\ status # "none"
    BY <1>0, <2>1 DEF Base, Counting
  <2>3. i \in Left \ lost /\ Left' = Left \ {i}
    BY <1>0, <2>1, <2>2 DEF Left, Counting, Base, TypeOK
  <2> QED
    BY <1>39, <2>2, <2>3 DEF CountUploaded, Effect, CountedOne
<1>40. ASSUME NEW i \in Items, CountGivenUp(i) PROVE Effect
  <2>1. UNCHANGED <<planned, rows, lost>> /\ step[i] = "no_count" /\ step' = [step EXCEPT ![i] = "idle"]
    BY <1>40 DEF CountGivenUp, At, Goto
  <2>2. i \in planned /\ i \notin rows /\ status # "none"
    BY <1>0, <2>1 DEF Base, Counting
  <2>3. i \in Left \ lost /\ Left' = Left \ {i}
    BY <1>0, <2>1, <2>2 DEF Left, Counting, Base, TypeOK
  <2> QED
    BY <1>40, <2>2, <2>3 DEF CountGivenUp, Effect, CountedOne
<1>41. CASE UNCHANGED vars
  <2>1. UNCHANGED <<planned, rows, lost, step, sessionVars>>
    BY <1>41 DEF vars
  <2> QED
    BY <2>1, LeftFrame DEF Counting, Effect, Still, SameLeft
<1>42. ASSUME NEW i \in Items, Forbidden(i) PROVE Effect
  <2>1. UNCHANGED <<planned, rows, lost, sessionVars>>
    BY <1>42 DEF Forbidden, LeaveBehind, Goto
  <2>2. \A j \in Items : Counting(j)' <=> Counting(j)
    BY <1>0, <1>42 DEF Forbidden, LeaveBehind, Goto, Counting, Base, TypeOK
  <2> QED
    BY <2>1, <2>2, LeftFrame DEF Effect, Still, SameLeft
<1>43. ASSUME NEW i \in Items, CredentialsExpired(i) PROVE Effect
  <2>1. UNCHANGED <<planned, rows, lost, sessionVars>>
    BY <1>43 DEF CredentialsExpired, LeaveBehind, Goto
  <2>2. \A j \in Items : Counting(j)' <=> Counting(j)
    BY <1>0, <1>43 DEF CredentialsExpired, LeaveBehind, Goto, Counting, Base, TypeOK
  <2> QED
    BY <2>1, <2>2, LeftFrame DEF Effect, Still, SameLeft
<1>44. ASSUME NEW i \in Items, Vanished(i) PROVE Effect
  <2>1. /\ UNCHANGED <<planned, sessionVars>>
        /\ rows' = rows \ {i}
        /\ lost' = lost \cup ({i} \cap rows)
    BY <1>44 DEF Vanished
  <2>2. \A j \in Items : Counting(j)' <=> Counting(j)
    BY <1>0, <1>44 DEF Vanished, Goto, Counting, Base, TypeOK
  <2>3. Left' = Left
    BY <2>1, <2>2 DEF Left
  <2> QED
    BY <2>1, <2>3 DEF Effect, Still, SameLeft, Losing
<1> QED
  BY <1>1, <1>2, <1>3, <1>4, <1>5, <1>6, <1>7, <1>8, <1>9, <1>10, <1>11, <1>12, <1>13, <1>14,
     <1>15, <1>16, <1>17, <1>18, <1>19, <1>20, <1>21, <1>22, <1>23, <1>24, <1>25, <1>26, <1>27,
     <1>28, <1>29, <1>30, <1>31, <1>32, <1>33, <1>34, <1>35, <1>36, <1>37, <1>38, <1>39, <1>40,
     <1>41, <1>42, <1>43, <1>44
  DEF Next, Runner, Gui, User, Handle, Suffer

\* A cancellation by the user is final.
LEMMA CancelStays ==
  ASSUME SessionInv, Effect, WasCancelled
  PROVE  WasCancelled'
<1>1. status = "CANCELLED" /\ total <= uploaded /\ uploaded \in Nat /\ total \in Nat
  BY DEF SessionInv, Base, TypeOK, Counts, WasCancelled
<1>2. status' = "CANCELLED"
  BY <1>1 DEF Effect, Still, Created, Paused, Resumed, Cancelled, CountedOne, Losing, UpdateSession, DecreaseSession
<1> QED
  BY <1>2 DEF WasCancelled

\* The counters follow what is left.
LEMMA CountsStep ==
  ASSUME SessionInv, Base', Effect
  PROVE  Counts'
<1>1. /\ IsFiniteSet(Left) /\ IsFiniteSet(Left')
      /\ Cardinality(Left) \in Nat /\ Cardinality(Left') \in Nat
  <2>1. Left \subseteq Items /\ Left' \subseteq Items
    BY DEF SessionInv, Base, TypeOK, Left
  <2> QED
    BY <2>1, FS_Subset, FS_CardinalityType, ConstantsAssumption DEF ConstantsAssumption
<1>2. uploaded \in Nat /\ total \in Nat /\ uploaded' \in Nat /\ total' \in Nat
  BY DEF SessionInv, Base, TypeOK
<1>3. Counts
  BY DEF SessionInv
<1>4. CASE Still
  BY <1>2, <1>3, <1>4 DEF Still, SameLeft, Counts, Accounting, WasCancelled
<1>5. CASE Created
  BY <1>1, <1>5 DEF Created, Counts, Accounting
<1>6. CASE Paused
  BY <1>3, <1>6 DEF Paused, Counts, Accounting
<1>7. CASE Resumed
  BY <1>3, <1>7 DEF Resumed, Counts, Accounting
<1>8. CASE Cancelled
  BY <1>2, <1>8 DEF Cancelled, Counts, Accounting, WasCancelled
<1>10. ASSUME NEW i \in Items, Losing(i) PROVE Counts'
  BY <1>2, <1>3, <1>10 DEF Losing, Counts, Accounting, WasCancelled
<1>9. ASSUME NEW i \in Items, UNCHANGED lost, CountedOne(i) PROVE Counts'
  <2>1. Cardinality(Left') = Cardinality(Left) - 1 /\ (Cardinality(Left') = 0 <=> Left' = {})
    BY <1>1, <1>9, FS_RemoveElement, FS_EmptySet DEF CountedOne
  <2>2. CASE WasCancelled
    <3>1. WasCancelled'
      BY <1>9, <2>2, CancelStays DEF Effect
    <3>2. total' <= uploaded'
      BY <1>2, <1>3, <1>9, <2>2 DEF Counts, WasCancelled, CountedOne, UpdateSession, DecreaseSession
    <3> QED
      BY <3>1, <3>2 DEF Counts, Accounting, WasCancelled
  <2>3. CASE ~WasCancelled
    <3>1. status \notin {"none", "CANCELLED", "DONE"}
      BY <1>3, <1>9, <2>3 DEF Counts, CountedOne
    <3>2. total = uploaded + Cardinality(Left)
      BY <1>3, <3>1 DEF Counts, Accounting
    <3>3. Cardinality(Left) >= 1
      BY <1>1, <2>1
    <3>4. CASE UpdateSession
      <4>1. uploaded' = uploaded + 1 /\ total' = total
        BY <3>4 DEF UpdateSession
      <4>2. total' = uploaded' + Cardinality(Left')
        BY <1>1, <1>2, <2>1, <3>2, <4>1
      <4>3. status' = "DONE" <=> Left' = {}
        BY <1>1, <1>2, <2>1, <3>1, <3>2, <4>1, <3>4 DEF UpdateSession
      <4>4. status' # "CANCELLED"
        BY <3>1, <3>4 DEF UpdateSession
      <4> QED
        BY <4>2, <4>3, <4>4 DEF Counts, Accounting
    <3>5. CASE DecreaseSession
      <4>1. uploaded' = uploaded /\ total' = total - 1
        BY <1>1, <1>2, <3>2, <3>3, <3>5 DEF DecreaseSession
      <4>2. total' = uploaded' + Cardinality(Left')
        BY <1>1, <1>2, <2>1, <3>2, <4>1
      <4>3. status' \in {"DONE", "CANCELLED"} <=> Left' = {}
        BY <1>1, <1>2, <2>1, <3>1, <4>1, <4>2, <3>5 DEF DecreaseSession
      <4> QED
        BY <1>2, <2>1, <4>1, <4>2, <4>3 DEF Counts, Accounting
    <3> QED
      BY <1>9, <3>4, <3>5 DEF CountedOne
  <2> QED
    BY <2>2, <2>3
<1> QED
  BY <1>4, <1>5, <1>6, <1>7, <1>8, <1>9, <1>10 DEF Effect

\* An item keeps its row as long as a processor is busy with it.
LEMMA PresentStep ==
  ASSUME Orderly, SessionInv, [Next]_vars
  PROVE  Present'
<1> DEFINE Kept == \A j \in Items : Busy(j)' => j \in rows' \/ (Busy(j) /\ j \notin rows)
<1>0. Base /\ Shape
  BY DEF SessionInv
<1>a. Effect
  BY EffectStep
<1>b. ASSUME Kept PROVE Present'
  <2> SUFFICES ASSUME NEW j \in Items, Busy(j)', j \notin rows' PROVE WasCancelled'
    BY DEF Present
  <2>1. WasCancelled
    BY <1>b DEF SessionInv, Present
  <2> QED
    BY <2>1, <1>a, CancelStays
<1>c. CASE CancelSession
  BY <1>0, <1>c DEF CancelSession, Present, WasCancelled, Shape
<1>1. CASE CreateSession
  <2>1. Kept
    BY <1>0, <1>1 DEF CreateSession, Busy, Counting, Base, TypeOK
  <2> QED
    BY <2>1, <1>b
<1>2. CASE PlanItems
  <2>1. Kept
    BY <1>0, <1>2 DEF PlanItems, Busy, Counting, Base, TypeOK
  <2> QED
    BY <2>1, <1>b
<1>3. CASE QueueItems
  <2>1. Kept
    BY <1>0, <1>3 DEF QueueItems, Busy, Counting, Base, TypeOK
  <2> QED
    BY <2>1, <1>b
<1>4. CASE ResumeSession
  <2>1. Kept
    BY <1>0, <1>4 DEF ResumeSession, Busy, Counting, Base, TypeOK
  <2> QED
    BY <2>1, <1>b
<1>5. CASE DeclineCancel
  <2>1. Kept
    BY <1>0, <1>5 DEF DeclineCancel, Busy, Counting, Base, TypeOK
  <2> QED
    BY <2>1, <1>b
<1>6. CASE TellProcessor
  <2>1. Kept
    BY <1>0, <1>6 DEF TellProcessor, Busy, Counting, Base, TypeOK
  <2> QED
    BY <2>1, <1>b
<1>7. CASE DropTransfer
  <2>1. Kept
    BY <1>0, <1>7 DEF DropTransfer, Busy, Counting, Base, TypeOK
  <2> QED
    BY <2>1, <1>b
<1>8. CASE DropState
  <2>1. Kept
    BY <1>0, <1>8 DEF DropState, Busy, Counting, Base, TypeOK, Shape
  <2> QED
    BY <2>1, <1>b
<1>9. CASE DropCount
  <2>1. Kept
    BY <1>0, <1>9 DEF DropCount, DecreaseSession, Busy, Counting, Base, TypeOK
  <2> QED
    BY <2>1, <1>b
<1>10. CASE Pause
  <2>1. Kept
    BY <1>0, <1>10 DEF Pause, PauseSession, Busy, Counting, Base, TypeOK
  <2> QED
    BY <2>1, <1>b
<1>11. CASE Resume
  <2>1. Kept
    BY <1>0, <1>11 DEF Resume, Busy, Counting, Base, TypeOK
  <2> QED
    BY <2>1, <1>b
<1>12. CASE AskCancelSession
  <2>1. Kept
    BY <1>0, <1>12 DEF AskCancelSession, Busy, Counting, Base, TypeOK
  <2> QED
    BY <2>1, <1>b
<1>13. CASE Suspend
  <2>1. Kept
    BY <1>0, <1>13 DEF Suspend, Busy, Counting, Base, TypeOK
  <2> QED
    BY <2>1, <1>b
<1>14. CASE ResumeEngine
  <2>1. Kept
    BY <1>0, <1>14 DEF ResumeEngine, Busy, Counting, Base, TypeOK
  <2> QED
    BY <2>1, <1>b
<1>15. CASE Restart
  <2>1. Kept
    BY <1>0, <1>15 DEF Restart, Busy, Counting, Base, TypeOK, Orderly
  <2> QED
    BY <2>1, <1>b
<1>16. ASSUME NEW i \in Items, Take(i) PROVE Present'
  <2>1. Kept
    BY <1>0, <1>16 DEF Take, Goto, Busy, Counting, Base, TypeOK
  <2> QED
    BY <2>1, <1>b
<1>17. ASSUME NEW i \in Items, ReadSession(i) PROVE Present'
  <2>1. Kept
    BY <1>0, <1>17 DEF ReadSession, At, Goto, Busy, Counting, Base, TypeOK
  <2> QED
    BY <2>1, <1>b
<1>18. ASSUME NEW i \in Items, PathExists(i) PROVE Present'
  <2>1. Kept
    BY <1>0, <1>18 DEF PathExists, At, Goto, Busy, Counting, Base, TypeOK
  <2> QED
    BY <2>1, <1>b
<1>19. ASSUME NEW i \in Items, MakeFolder(i) PROVE Present'
  <2>1. Kept
    BY <1>0, <1>19 DEF MakeFolder, At, Goto, Busy, Counting, Base, TypeOK
  <2> QED
    BY <2>1, <1>b
<1>20. ASSUME NEW i \in Items, FindTransfer(i) PROVE Present'
  <2>1. Kept
    BY <1>0, <1>20 DEF FindTransfer, At, Goto, Busy, Counting, Base, TypeOK
  <2> QED
    BY <2>1, <1>b
<1>21. ASSUME NEW i \in Items, NoTransfer(i) PROVE Present'
  <2>1. Kept
    BY <1>0, <1>21 DEF NoTransfer, At, Goto, Busy, Counting, Base, TypeOK
  <2> QED
    BY <2>1, <1>b
<1>22. ASSUME NEW i \in Items, NewTransfer(i) PROVE Present'
  <2>1. Kept
    BY <1>0, <1>22 DEF NewTransfer, At, Goto, Busy, Counting, Base, TypeOK
  <2> QED
    BY <2>1, <1>b
<1>23. ASSUME NEW i \in Items, Chunk(i) PROVE Present'
  <2>1. Kept
    BY <1>0, <1>23 DEF Chunk, At, Goto, Busy, Counting, Base, TypeOK
  <2> QED
    BY <2>1, <1>b
<1>24. ASSUME NEW i \in Items, SendInOneGo(i) PROVE Present'
  <2>1. Kept
    BY <1>0, <1>24 DEF SendInOneGo, At, Goto, Busy, Counting, Base, TypeOK
  <2> QED
    BY <2>1, <1>b
<1>25. ASSUME NEW i \in Items, Complete(i) PROVE Present'
  <2>1. Kept
    BY <1>0, <1>25 DEF Complete, At, Goto, Busy, Counting, Base, TypeOK
  <2> QED
    BY <2>1, <1>b
<1>26. ASSUME NEW i \in Items, Link(i) PROVE Present'
  <2>1. Kept
    BY <1>0, <1>26 DEF Link, At, Goto, Busy, Counting, Base, TypeOK
  <2> QED
    BY <2>1, <1>b
<1>27. ASSUME NEW i \in Items, UploadCancelled(i) PROVE Present'
  <2>1. Kept
    BY <1>0, <1>27 DEF UploadCancelled, At, Goto, Busy, Counting, Base, TypeOK
  <2> QED
    BY <2>1, <1>b
<1>28. ASSUME NEW i \in Items, EndTransfer(i) PROVE Present'
  <2>1. Kept
    BY <1>0, <1>28 DEF EndTransfer, At, Goto, Busy, Counting, Base, TypeOK
  <2> QED
    BY <2>1, <1>b
<1>29. ASSUME NEW i \in Items, EndUploaded(i) PROVE Present'
  <2>1. Kept
    BY <1>0, <1>29 DEF EndUploaded, At, Goto, Busy, Counting, Base, TypeOK
  <2> QED
    BY <2>1, <1>b
<1>30. ASSUME NEW i \in Items, EndGivenUp(i) PROVE Present'
  <2>1. Kept
    BY <1>0, <1>30 DEF EndGivenUp, At, Goto, Busy, Counting, Base, TypeOK, Shape
  <2> QED
    BY <2>1, <1>b
<1>31. ASSUME NEW i \in Items, EndSession(i) PROVE Present'
  <2>1. Kept
    BY <1>0, <1>31 DEF EndSession, At, Goto, Busy, Counting, Base, TypeOK
  <2> QED
    BY <2>1, <1>b
<1>32. ASSUME NEW i \in Items, CountUploaded(i) PROVE Present'
  <2>1. Kept
    BY <1>0, <1>32 DEF CountUploaded, At, UpdateSession, Goto, Busy, Counting, Base, TypeOK
  <2> QED
    BY <2>1, <1>b
<1>33. ASSUME NEW i \in Items, CountGivenUp(i) PROVE Present'
  <2>1. Kept
    BY <1>0, <1>33 DEF CountGivenUp, At, DecreaseSession, Goto, Busy, Counting, Base, TypeOK
  <2> QED
    BY <2>1, <1>b
<1>34. ASSUME NEW i \in Items, PathMissing(i) PROVE Present'
  <2>1. Kept
    BY <1>0, <1>34 DEF PathMissing, At, PauseSession, Goto, Busy, Counting, Base, TypeOK
  <2> QED
    BY <2>1, <1>b
<1>35. ASSUME NEW i \in Items, Ignored(i) PROVE Present'
  <2>1. Kept
    BY <1>0, <1>35 DEF Ignored, At, Goto, Busy, Counting, Base, TypeOK
  <2> QED
    BY <2>1, <1>b
<1>36. ASSUME NEW i \in Items, LinkNotFound(i) PROVE Present'
  <2>1. Kept
    BY <1>0, <1>36 DEF LinkNotFound, At, Goto, Busy, Counting, Base, TypeOK
  <2> QED
    BY <2>1, <1>b
<1>37. ASSUME NEW i \in Items, Disconnected(i) PROVE Present'
  <2>1. Kept
    BY <1>0, <1>37 DEF Disconnected, Goto, Busy, Counting, Base, TypeOK
  <2> QED
    BY <2>1, <1>b
<1>38. ASSUME NEW i \in Items, GiveUp(i) PROVE Present'
  <2>1. Kept
    BY <1>0, <1>38 DEF GiveUp, Goto, Busy, Counting, Base, TypeOK
  <2> QED
    BY <2>1, <1>b
<1>39. ASSUME NEW i \in Items, CancelUpload(i) PROVE Present'
  <2>1. Kept
    BY <1>0, <1>39 DEF CancelUpload, Busy, Counting, Base, TypeOK
  <2> QED
    BY <2>1, <1>b
<1>40. CASE UNCHANGED vars
  <2>1. Kept
    BY <1>40 DEF vars, Busy, Counting
  <2> QED
    BY <2>1, <1>b
<1>41. ASSUME NEW i \in Items, Forbidden(i) PROVE Present'
  <2>1. Kept
    BY <1>0, <1>41 DEF Forbidden, LeaveBehind, Goto, Busy, Counting, Base, TypeOK
  <2> QED
    BY <2>1, <1>b
<1>42. ASSUME NEW i \in Items, CredentialsExpired(i) PROVE Present'
  <2>1. Kept
    BY <1>0, <1>42 DEF CredentialsExpired, LeaveBehind, Goto, Busy, Counting, Base, TypeOK
  <2> QED
    BY <2>1, <1>b
<1>43. ASSUME NEW i \in Items, Vanished(i) PROVE Present'
  <2>1. Kept
    BY <1>0, <1>43 DEF Vanished, Goto, Busy, Counting, Base, TypeOK
  <2> QED
    BY <2>1, <1>b
<1> QED
  BY <1>c, <1>1, <1>2, <1>3, <1>4, <1>5, <1>6, <1>7, <1>8, <1>9, <1>10, <1>11, <1>12, <1>13, <1>14, <1>15, <1>16, <1>17, <1>18, <1>19, <1>20, <1>21, <1>22, <1>23, <1>24, <1>25, <1>26, <1>27, <1>28, <1>29, <1>30, <1>31, <1>32, <1>33, <1>34, <1>35, <1>36, <1>37, <1>38, <1>39, <1>40, <1>41, <1>42, <1>43
  DEF Next, Runner, Gui, User, Handle, Suffer

LEMMA SessionStep ==
  ASSUME Orderly
  PROVE  SessionInv /\ [Next]_vars => SessionInv'
<1> SUFFICES ASSUME SessionInv, [Next]_vars PROVE SessionInv'
  OBVIOUS
<1>1. Base'
  BY BaseStep DEF SessionInv
<1>2. Shape'
  BY ShapeStep DEF SessionInv
<1>3. Present'
  BY PresentStep
<1>4. Counts'
  BY <1>1, EffectStep, CountsStep
<1> QED
  BY <1>1, <1>2, <1>3, <1>4 DEF SessionInv

\* The counters of a session agree with the tables, for every orderly use.
THEOREM AccountingHolds ==
  ASSUME Orderly
  PROVE  Spec => []Accounting
<1>1. SessionInv => Accounting
  BY DEF SessionInv, Counts
<1>2. SessionInv /\ [Next]_vars => SessionInv'
  BY SessionStep
<1> QED
  BY <1>1, <1>2, SessionInvInit, PTL DEF Spec

\* An item that is counted ends a session that is not cancelled if and only if
\* it is the last one.
LEMMA LastIsCounted ==
  ASSUME SessionInv, NEW i \in Items, CountedOne(i), ~WasCancelled
  PROVE  IF Left' = {} THEN status' \in {"DONE", "CANCELLED"} ELSE status' = status
<1>1. /\ IsFiniteSet(Left) /\ IsFiniteSet(Left')
      /\ Cardinality(Left) \in Nat /\ Cardinality(Left') \in Nat
  <2>1. Left \subseteq Items
    BY DEF SessionInv, Base, TypeOK, Left
  <2>2. Left' \subseteq Items
    BY <2>1 DEF CountedOne
  <2> QED
    BY <2>1, <2>2, FS_Subset, FS_CardinalityType, ConstantsAssumption DEF ConstantsAssumption
<1>2. uploaded \in Nat /\ total \in Nat
  BY DEF SessionInv, Base, TypeOK
<1>3. Cardinality(Left') = Cardinality(Left) - 1 /\ (Cardinality(Left') = 0 <=> Left' = {})
  BY <1>1, FS_RemoveElement, FS_EmptySet DEF CountedOne
<1>4. status \notin {"none", "CANCELLED", "DONE"}
  BY DEF SessionInv, Counts, CountedOne
<1>5. total = uploaded + Cardinality(Left)
  BY <1>4 DEF SessionInv, Counts, Accounting
<1>6. CASE UpdateSession
  <2>1. uploaded' = total <=> Left' = {}
    BY <1>1, <1>2, <1>3, <1>5, <1>6 DEF UpdateSession
  <2> QED
    BY <2>1, <1>6 DEF UpdateSession
<1>7. CASE DecreaseSession
  <2>1. uploaded = total' <=> Left' = {}
    BY <1>1, <1>2, <1>3, <1>5, <1>7 DEF DecreaseSession
  <2> QED
    BY <2>1, <1>7 DEF DecreaseSession
<1> QED
  BY <1>6, <1>7 DEF CountedOne

\* The initial states, and each effect on the counters, are a session's.
LEMMA ContractInit == Init => Contract!Init
<1> SUFFICES ASSUME Init PROVE Contract!Init
  OBVIOUS
<1>1. Left = Items /\ status = "none" /\ lost = {}
  BY DEF Init, Left
<1> QED
  BY <1>1 DEF Contract!Init, Pending

LEMMA ContractStep ==
  ASSUME SessionInv, SessionInv', Effect
  PROVE  [Contract!Next]_<<Pending, lost, status>>
<1>1. Counts /\ Counts' /\ Base /\ Base'
  BY DEF SessionInv
<1>2. CASE UNCHANGED lost /\ Still
  <2>1. Pending' = Pending /\ status' = status /\ lost' = lost
    BY <1>2 DEF Still, SameLeft, WasCancelled, Pending, sessionVars
  <2> QED
    BY <2>1
<1>3. CASE UNCHANGED lost /\ Created
  BY <1>3 DEF Created, Pending, Contract!Next, Contract!Create
<1>4. CASE UNCHANGED lost /\ Paused
  BY <1>4 DEF Paused, Pending, Contract!Next, Contract!Pause
<1>5. CASE UNCHANGED lost /\ Resumed
  BY <1>5 DEF Resumed, Pending, Contract!Next, Contract!Resume
<1>6. CASE UNCHANGED lost /\ Cancelled
  BY <1>6 DEF Cancelled, Pending, Contract!Next, Contract!Cancel
<1>7. ASSUME NEW i \in Items, UNCHANGED lost, CountedOne(i)
      PROVE  [Contract!Next]_<<Pending, lost, status>>
  <2>1. CASE WasCancelled
    <3>1. WasCancelled'
      BY <1>7, <2>1, CancelStays DEF Effect
    <3> QED
      BY <1>7, <2>1, <3>1 DEF WasCancelled, Pending
  <2>2. CASE ~WasCancelled
    <3>1. status \in {"ONGOING", "PAUSED"} /\ i \in Left /\ Left' = Left \ {i}
      BY <1>1, <1>7, <2>2 DEF Counts, CountedOne, Base, TypeOK, Status
    <3>2. status' \in {status, "DONE", "CANCELLED"}
      BY <1>7 DEF CountedOne, UpdateSession, DecreaseSession
    <3>3. Pending = Left /\ i \notin lost
      BY <1>1, <1>7, <3>1 DEF Pending, CountedOne
    <3>4. CASE Left' = {}
      <4>1. status' \in {"DONE", "CANCELLED"}
        BY <1>7, <2>2, <3>1, <3>4, LastIsCounted
      <4>2. Pending' = {}
        BY <3>4 DEF Pending
      <4>3. Contract!End(i)
        BY <1>7, <3>1, <3>3, <3>4, <4>1, <4>2 DEF Contract!End
      <4> QED
        BY <4>3 DEF Contract!Next
    <3>5. CASE Left' # {}
      <4>1. status' = status
        BY <1>7, <2>2, <3>1, <3>5, LastIsCounted
      <4>2. Pending' = Left'
        BY <3>1, <4>1 DEF Pending
      <4>3. Contract!End(i)
        BY <1>7, <3>1, <3>3, <3>5, <4>1, <4>2 DEF Contract!End
      <4> QED
        BY <4>3 DEF Contract!Next
    <3> QED
      BY <3>4, <3>5
  <2> QED
    BY <2>1, <2>2
<1>8. ASSUME NEW i \in Items, Losing(i)
      PROVE  [Contract!Next]_<<Pending, lost, status>>
  <2>1. /\ i \in Pending \/ status = "CANCELLED"
        /\ UNCHANGED <<Pending, status>>
    BY <1>8 DEF Losing, Left, Pending
  <2> QED
    BY <1>8, <2>1 DEF Losing, Contract!Next, Contract!Lose
<1> QED
  BY <1>2, <1>3, <1>4, <1>5, <1>6, <1>7, <1>8 DEF Effect

\* The tables and the counters implement the session of TransferSession: it is
\* done or cancelled when its last item ends, and a cancellation is final.
THEOREM SessionContract ==
  ASSUME Orderly
  PROVE  Spec => ImplementsSession
<1>1. SessionInv /\ [Next]_vars => SessionInv'
  BY SessionStep
<1>2. SessionInv /\ SessionInv' /\ [Next]_vars => [Contract!Next]_<<Pending, lost, status>>
  BY EffectStep, ContractStep
<1> QED
  BY <1>1, <1>2, SessionInvInit, ContractInit, PTL DEF Spec, ImplementsSession, Contract!Spec

-----------------------------------------------------------------------------
(* No item is forgotten                                                    *)

\* The user leaves the session alone until it is planned, and every item below
\* a folder is directly below one.
Attended ==
    /\ ~EarlyClicks
    /\ \A i \in Items : HasParent(i) => \E f \in Folders : i \in Children(f)

\* Nothing is handled before the end of the planning.
Fresh ==
    stage # "done" =>
        /\ due = {} /\ gui = "idle" /\ rows = planned
        /\ status # "none" => status = IF StartPaused THEN "PAUSED" ELSE "ONGOING"
        /\ \A i \in Items : step[i] = "idle" /\ upload[i] = "none"

\* An item waits for a folder that has a row and is not made yet.
Waiting ==
    /\ \A i \in todo : HasParent(i)
    /\ \A f \in Folders : \A i \in Children(f) : i \in todo => f \in rows /\ ~Ended(f)

Gone == status = "CANCELLED" => rows = {}

Active == stage = "done" /\ status = "ONGOING" /\ gui # "resume"

\* No upload of an active session is left paused, suspended or cancelled.
Uploads ==
    /\ \A i \in rows : upload[i] # "CANCELLED" /\ step[i] # "cancelled"
    /\ ~suspended => \A i \in Items : upload[i] # "SUSPENDED"
    /\ Active => \A i \in rows : upload[i] # "PAUSED"

Covered ==
    Active => \A i \in rows \ abandoned :
                 i \in due \/ step[i] # "idle" \/ i \in todo \/ upload[i] = "SUSPENDED"

Remembered == Fresh /\ Waiting /\ Gone /\ Uploads /\ Covered

LEMMA RememberedInit == Init => Remembered
  BY DEF Init, Remembered, Fresh, Waiting, Gone, Uploads, Covered, Active

LEMMA RememberedStep ==
  ASSUME Orderly, Attended, SessionInv, Remembered, [Next]_vars
  PROVE  Remembered'
<1> USE DEF Remembered, Fresh, Waiting, Gone, Uploads, Covered, Active
<1>0. Base /\ Shape
  BY DEF SessionInv
<1>1. CASE CreateSession
  BY <1>0, <1>1 DEF CreateSession, Base, TypeOK, Ended
<1>2. CASE PlanItems
  <2>1. PICK b \in SUBSET (Items \ planned) :
           /\ \A f \in Folders : Below[f] \cap b # {} => f \in planned \cup b
           /\ planned' = planned \cup b
           /\ rows' = rows \cup b
           /\ todo' = todo \cup {i \in b : HasParent(i)}
    BY <1>2 DEF PlanItems
  <2>2. /\ stage = "plan" /\ stage' # "done" /\ rows = planned /\ due = {}
        /\ UNCHANGED <<due, step, upload, status, gui, suspended>>
        /\ \A i \in Items : step[i] = "idle" /\ upload[i] = "none"
    BY <1>2 DEF PlanItems
  <2>3. Fresh' /\ Gone' /\ Uploads' /\ Covered'
    BY <1>0, <2>1, <2>2 DEF Base, TypeOK
  <2>4. Waiting'
    <3>1. \A i \in todo' : HasParent(i)
      BY <2>1
    <3>2. ASSUME NEW f \in Folders, NEW i \in Children(f), i \in todo'
          PROVE  f \in rows' /\ ~Ended(f)'
      <4>1. CASE i \in todo
        BY <2>1, <2>2, <3>2, <4>1 DEF Ended
      <4>2. CASE i \notin todo
        <5>1. f \in planned \cup b
          BY <2>1, <3>2, <4>2 DEF Children
        <5> QED
          BY <2>1, <2>2, <5>1, ConstantsAssumption DEF ConstantsAssumption, Ended
      <4> QED
        BY <4>1, <4>2
    <3> QED
      BY <3>1, <3>2
  <2> QED
    BY <2>3, <2>4
<1>3. CASE QueueItems
  BY <1>0, <1>3 DEF QueueItems, Base, TypeOK, Ended
<1>4. CASE ResumeSession
  BY <1>0, <1>4 DEF ResumeSession, SetUploads, Base, TypeOK, Ended
<1>5. CASE CancelSession
  BY <1>0, <1>5 DEF CancelSession, RemoveUploads, Base, TypeOK, Ended
<1>6. CASE DeclineCancel
  BY <1>0, <1>6 DEF DeclineCancel, Base, TypeOK, Ended
<1>7. CASE Pause
  <2>1. stage = "done" /\ status' = "PAUSED" /\ UNCHANGED <<stage, rows, todo, due, step, suspended, gui>>
    BY <1>7 DEF Pause, PauseSession, Click, Attended
  <2>2. \A i \in Items : upload'[i] = upload[i] \/ upload'[i] = "PAUSED"
    BY <1>7 DEF Pause, PauseSession, SetUploads
  <2> QED
    BY <1>0, <2>1, <2>2 DEF Base, TypeOK, Ended
<1>8. CASE Resume
  BY <1>0, <1>8 DEF Resume, Click, Attended, Base, TypeOK, Ended
<1>9. CASE AskCancelSession
  BY <1>0, <1>9 DEF AskCancelSession, Click, Attended, Base, TypeOK, Ended
<1>10. CASE Suspend
  BY <1>0, <1>10 DEF Suspend, Click, SetUploads, Base, TypeOK, Ended
<1>11. CASE ResumeEngine
  BY <1>0, <1>11 DEF ResumeEngine, ResumeSuspended, SetUploads, Base, TypeOK, Ended
<1>12. ASSUME NEW i \in Items, Take(i) PROVE Remembered'
  BY <1>0, <1>12 DEF Take, Goto, Base, TypeOK, Ended
<1>13. ASSUME NEW i \in Items, ReadSession(i) PROVE Remembered'
  BY <1>0, <1>13 DEF ReadSession, At, Goto, Base, TypeOK, Ended
<1>14. ASSUME NEW i \in Items, PathExists(i) PROVE Remembered'
  BY <1>0, <1>14 DEF PathExists, At, Goto, Base, TypeOK, Ended
<1>15. ASSUME NEW i \in Items, MakeFolder(i) PROVE Remembered'
  BY <1>0, <1>15 DEF MakeFolder, At, Goto, Base, TypeOK, Ended
<1>16. ASSUME NEW i \in Items, FindTransfer(i) PROVE Remembered'
  <2>1. /\ step[i] = "get" /\ i \in Items
        /\ UNCHANGED <<stage, planned, rows, todo, due, upload, status, suspended, gui, abandoned>>
        /\ \A j \in Items \ {i} : step'[j] = step[j]
        /\ step'[i] \in {"chunks", "link", "complete", "cancelled", "idle"}
        /\ step'[i] = "cancelled" => upload[i] = "CANCELLED"
        /\ step'[i] = "idle" => upload[i] \in {"PAUSED", "SUSPENDED", "CANCELLED"}
    BY <1>0, <1>16 DEF FindTransfer, At, Goto, Base, TypeOK, Status
  <2>2. stage = "done"
    BY <2>1
  <2>3. Waiting' /\ Gone' /\ Fresh'
    BY <1>0, <2>1, <2>2 DEF Base, TypeOK, Ended
  <2>4. Uploads' /\ Covered'
    BY <1>0, <2>1, <2>2 DEF Base, TypeOK
  <2> QED
    BY <2>3, <2>4
<1>17. ASSUME NEW i \in Items, NoTransfer(i) PROVE Remembered'
  BY <1>0, <1>17 DEF NoTransfer, At, Goto, Base, TypeOK, Ended
<1>18. ASSUME NEW i \in Items, NewTransfer(i) PROVE Remembered'
  BY <1>0, <1>18 DEF NewTransfer, At, Goto, Base, TypeOK, Ended
<1>19. ASSUME NEW i \in Items, Chunk(i) PROVE Remembered'
  <2>1. /\ step[i] = "chunks" /\ i \in Items
        /\ UNCHANGED <<stage, planned, rows, todo, due, upload, status, suspended, gui, abandoned>>
        /\ \A j \in Items \ {i} : step'[j] = step[j]
        /\ step'[i] \in {"chunks", "link", "complete", "cancelled", "idle"}
        /\ step'[i] = "cancelled" => upload[i] = "CANCELLED"
        /\ step'[i] = "idle" => upload[i] \in {"PAUSED", "SUSPENDED", "CANCELLED"}
    BY <1>0, <1>19 DEF Chunk, At, Goto, Base, TypeOK, Status
  <2>2. stage = "done"
    BY <2>1
  <2>3. Waiting' /\ Gone' /\ Fresh'
    BY <1>0, <2>1, <2>2 DEF Base, TypeOK, Ended
  <2>4. Uploads' /\ Covered'
    BY <1>0, <2>1, <2>2 DEF Base, TypeOK
  <2> QED
    BY <2>3, <2>4
<1>20. ASSUME NEW i \in Items, SendInOneGo(i) PROVE Remembered'
  BY <1>0, <1>20 DEF SendInOneGo, At, Goto, Base, TypeOK, Ended
<1>21. ASSUME NEW i \in Items, Complete(i) PROVE Remembered'
  BY <1>0, <1>21 DEF Complete, At, Goto, SetUploads, Base, TypeOK, Ended
<1>22. ASSUME NEW i \in Items, Link(i) PROVE Remembered'
  BY <1>0, <1>22 DEF Link, At, Goto, Shape, Base, TypeOK, Ended
<1>23. ASSUME NEW i \in Items, UploadCancelled(i) PROVE Remembered'
  BY <1>0, <1>23 DEF UploadCancelled, At, Goto, Base, TypeOK, Ended
<1>24. ASSUME NEW i \in Items, EndTransfer(i) PROVE Remembered'
  BY <1>0, <1>24 DEF EndTransfer, At, Goto, RemoveUploads, Base, TypeOK, Ended
<1>25. ASSUME NEW i \in Items, EndUploaded(i) PROVE Remembered'
  BY <1>0, <1>25 DEF EndUploaded, At, Goto, Base, TypeOK, Ended
<1>26. ASSUME NEW i \in Items, EndGivenUp(i) PROVE Remembered'
  BY <1>0, <1>26 DEF EndGivenUp, At, Goto, Shape, Base, TypeOK, Ended
<1>27. ASSUME NEW i \in Items, EndSession(i) PROVE Remembered'
  BY <1>0, <1>27 DEF EndSession, At, Goto, Base, TypeOK, Ended
<1>28. ASSUME NEW i \in Items, CountUploaded(i) PROVE Remembered'
  <2>1. step[i] = "ok_count" /\ i \notin rows /\ stage = "done" /\ status' \in {status, "DONE"}
    BY <1>0, <1>28 DEF CountUploaded, At, UpdateSession, Base, Counting
  <2> QED
    BY <1>0, <2>1, <1>28 DEF CountUploaded, At, Goto, Base, TypeOK, Ended
<1>29. ASSUME NEW i \in Items, CountGivenUp(i) PROVE Remembered'
  <2>1. /\ step[i] = "no_count" /\ step' = [step EXCEPT ![i] = "idle"] /\ i \notin rows /\ stage = "done"
        /\ UNCHANGED <<stage, planned, rows, todo, due, upload, suspended, gui, abandoned, lost>>
        /\ status' \in {status, "DONE", "CANCELLED"}
    BY <1>0, <1>29 DEF CountGivenUp, At, Goto, DecreaseSession, Base, Counting
  <2>2. Gone'
    <3>1. i \in Left \ lost /\ Left' = Left \ {i} /\ status # "none"
      BY <1>0, <2>1 DEF Left, Counting, Base, TypeOK
    <3>2. CountedOne(i)
      BY <1>29, <3>1 DEF CountGivenUp, CountedOne
    <3>3. CASE status # "CANCELLED" /\ status' = "CANCELLED"
      <4>1. Left' = {}
        BY <3>2, <3>3, LastIsCounted DEF WasCancelled
      <4> QED
        BY <4>1 DEF Left
    <3> QED
      BY <2>1, <3>3
  <2> QED
    BY <1>0, <2>1, <2>2 DEF Base, TypeOK, Ended
<1>30. ASSUME NEW i \in Items, PathMissing(i) PROVE Remembered'
  BY <1>0, <1>30 DEF PathMissing, At, Goto, PauseSession, SetUploads, Base, TypeOK, Ended
<1>31. ASSUME NEW i \in Items, Ignored(i) PROVE Remembered'
  BY <1>0, <1>31 DEF Ignored, At, Goto, Base, TypeOK, Ended
<1>32. ASSUME NEW i \in Items, LinkNotFound(i) PROVE Remembered'
  BY <1>0, <1>32 DEF LinkNotFound, At, Goto, SetUploads, Base, TypeOK, Ended
<1>33. ASSUME NEW i \in Items, Disconnected(i) PROVE Remembered'
  BY <1>0, <1>33 DEF Disconnected, Goto, Base, TypeOK, Ended
<1>34. ASSUME NEW i \in Items, GiveUp(i) PROVE Remembered'
  BY <1>0, <1>34 DEF GiveUp, Goto, Base, TypeOK, Ended
<1>35. CASE UNCHANGED vars
  BY <1>0, <1>35 DEF vars, Base, TypeOK, Ended
<1>36. ~Restart /\ ~TellProcessor /\ ~DropTransfer /\ ~DropState /\ ~DropCount /\ \A i \in Items : ~CancelUpload(i)
  BY <1>0 DEF Orderly, Shape, Restart, TellProcessor, DropTransfer, DropState, DropCount, CancelUpload, Click
<1>37. ASSUME NEW i \in Items, Forbidden(i) PROVE Remembered'
  BY <1>0, <1>37 DEF Forbidden, LeaveBehind, Goto, Base, TypeOK, Ended
<1>38. ASSUME NEW i \in Items, CredentialsExpired(i) PROVE Remembered'
  BY <1>0, <1>38 DEF CredentialsExpired, LeaveBehind, Goto, RemoveUploads, Base, TypeOK, Ended
<1>39. ASSUME NEW i \in Items, Vanished(i) PROVE Remembered'
  BY <1>0, <1>39 DEF Vanished, Goto, Base, TypeOK, Ended
<1> QED
  BY <1>1, <1>2, <1>3, <1>4, <1>5, <1>6, <1>7, <1>8, <1>9, <1>10, <1>11, <1>12, <1>13, <1>14,
     <1>15, <1>16, <1>17, <1>18, <1>19, <1>20, <1>21, <1>22, <1>23, <1>24, <1>25, <1>26, <1>27,
     <1>28, <1>29, <1>30, <1>31, <1>32, <1>33, <1>34, <1>35, <1>36, <1>37, <1>38, <1>39
  DEF Next, Runner, Gui, User, Handle, Suffer

\* No item of a session that goes on is forgotten by pauses, suspensions and
\* errors: its row is queued, handled, or waits for a folder that is.
THEOREM NothingIsForgotten ==
  ASSUME Orderly, Attended
  PROVE  Spec => []NothingForgotten
<1>1. SessionInv /\ Remembered => NothingForgotten
  <2> SUFFICES ASSUME SessionInv, Remembered, stage = "done", status = "ONGOING", ~suspended,
                      gui = "idle", NEW i \in rows \ abandoned, i \notin due, step[i] = "idle"
               PROVE  \E f \in rows \cap Folders : i \in todo /\ i \in Children(f)
    BY DEF NothingForgotten
  <2>1. i \in Items /\ i \in todo
    BY DEF Remembered, Covered, Active, Uploads, SessionInv, Base, TypeOK
  <2>2. PICK f \in Folders : i \in Children(f)
    BY <2>1 DEF Remembered, Waiting, Attended
  <2> QED
    BY <2>1, <2>2 DEF Remembered, Waiting
<1>2. SessionInv /\ Remembered /\ [Next]_vars => (SessionInv /\ Remembered)'
  BY SessionStep, RememberedStep
<1> QED
  BY <1>1, <1>2, SessionInvInit, RememberedInit, PTL DEF Spec

=============================================================================
