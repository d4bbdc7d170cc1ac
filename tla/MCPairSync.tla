----------------------------- MODULE MCPairSync -----------------------------
(***************************************************************************)
(* PairSync for TLC: three contents, the third of another size, so that an *)
(* edit is seen with and without a change of size.  A behaviour (part) has *)
(* one round, the documents of the .cfg and stops or crashes; or two       *)
(* rounds, two documents and restorations on the server, and no stop.      *)
(***************************************************************************)
EXTENDS PairSync

VARIABLE part

MCSize == [c \in Contents |-> IF c = 3 THEN 2 ELSE 1]

Two == INSTANCE PairSync WITH
         Docs <- 1 .. 2, Rounds <- 2, MaxStops <- 0, Others <- {"edit", "trash", "restore"}

-------------------------------------------------------------------------------
MCInit ==
    \/ part = "restart" /\ Init
    \/ part = "rounds" /\ Two!Init

RestartStep == part = "restart" /\ Next /\ UNCHANGED part
RoundsStep == part = "rounds" /\ Two!Next /\ UNCHANGED part

Restart(A) == part = "restart" /\ A

MCNext == RestartStep \/ RoundsStep
MCSpec == /\ MCInit /\ [][MCNext]_<<part, vars>>
          /\ WF_vars(Restart(LocalWatcher)) /\ WF_vars(Restart(RemoteWatcher))
          /\ WF_vars(Restart(Processor)) /\ WF_vars(Restart(Engine))

-------------------------------------------------------------------------------
(* Whatever states the two watchers and the processor wrote, a row has a   *)
(* type the code knows, no combination the table of states does not list,  *)
(* and when all is handled both sides agree or the user is told.           *)
PairKept ==
    /\ NoUnknownPair
    /\ part = "restart" => TypeOK /\ Agree
    /\ part = "rounds" => Two!TypeOK /\ Two!Agree

(* One file never has two live documents, unless the application stopped   *)
(* between creating one and writing its reference, or another user has     *)
(* restored one, which happens in two rounds only.                         *)
NoTwin == part = "restart" => OneDocument

(* No step of the client replaces or deletes what somebody wrote and did   *)
(* not remove: an edit of another user that was never read, an edit of the *)
(* file that the database knows, a document whose file the user did not    *)
(* remove, a file whose document is not gone.                              *)
NothingUndone ==
    [][part = "rounds" => /\ Two!ServerEditKept /\ Two!RecordedEditKept
                          /\ Two!DeletionWanted /\ Two!LocalKept]_vars

(* Once the users are done, the threads come to rest, after a restart too. *)
RestartSettles == part = "restart" => Settles
=============================================================================
