------------------------------ MODULE PairStates ------------------------------
(***************************************************************************)
(* The rows of the States table of the engine's database and the methods   *)
(* of EngineDAO that write the state of one row: what the processor, the   *)
(* local watcher and the remote watcher know of a document that lives both *)
(* in the synchronised folder and on the server.                           *)
(*                                                                         *)
(* A thread works on a copy of a row (a DocPair).  A copy remembers        *)
(*   here   whether the row it was read from is still in the table: a      *)
(*          write is "WHERE id = ?" and does nothing once it is gone;      *)
(*   cur    whether the version of the row is still the one that was read: *)
(*          versions are only ever compared for equality.                  *)
(* Digests stand for contents; Unaccessible is UNACCESSIBLE_HASH.          *)
(***************************************************************************)
EXTENDS Naturals, TLC

CONSTANTS Contents,       \* what a file may contain (its digest)
          Size,           \* the size of each content
          None,           \* no row, no content, no digest
          Unaccessible    \* the digest of a file that is still being copied

(* PAIR_STATES: the state of the pair, from the state of its two sides. *)
StateTable ==
    LET of(side, remotes, pair) == [s \in {side} \X remotes |-> pair]
    IN  of("unknown", {"unknown"}, "unknown")
     @@ of("synchronized", {"synchronized", "unknown"}, "synchronized")
     @@ of("created", {"unknown", "deleted"}, "locally_created")
     @@ of("unknown", {"created"}, "remotely_created")
     @@ of("modified", {"synchronized", "unknown"}, "locally_modified")
     @@ of("moved", {"synchronized"}, "locally_moved")
     @@ of("moved", {"deleted"}, "locally_moved_created")
     @@ of("moved", {"modified"}, "locally_moved_remotely_modified")
     @@ of("synchronized", {"modified"}, "remotely_modified")
     @@ of("unknown", {"modified"}, "remotely_modified")
     @@ of("deleted", {"synchronized"}, "locally_deleted")
     @@ of("synchronized", {"deleted"}, "remotely_deleted")
     @@ of("deleted", {"deleted"}, "deleted")
     @@ of("deleted", {"created", "modified", "moved"}, "remotely_created")
     @@ of("modified", {"deleted"}, "remotely_deleted")
     @@ of("modified", {"created", "modified"}, "conflicted")
     @@ of("created", {"created", "modified"}, "conflicted")
     @@ of("moved", {"unknown", "moved", "created"}, "conflicted")
     @@ of("resolved", {"modified"}, "conflicted")
     @@ of("resolved", {"unknown"}, "locally_resolved")
     @@ of("resolved", {"synchronized"}, "synchronized")
     @@ of("created", {"synchronized"}, "synchronized")
     @@ of("unknown", {"synchronized"}, "synchronized")
     @@ of("unknown", {"deleted"}, "unknown_deleted")
     @@ of("deleted", {"unknown"}, "deleted_unknown")
     @@ of("unsynchronized", {"unknown", "created", "modified", "moved", "synchronized"},
           "unsynchronized")
     @@ of("unsynchronized", {"deleted"}, "remotely_deleted")

(* Mutants: a line is missing; a double edit is a download. *)
StatesWithoutCreatedDeleted ==
    [p \in DOMAIN StateTable \ {<<"created", "deleted">>} |-> StateTable[p]]
StatesRemoteWins == [StateTable EXCEPT ![<<"modified", "modified">>] = "remotely_modified"]
PAIR_STATES == StateTable

(* _get_pair_state; "unknown_pair" stands for the UnknownPairState it raises. *)
PairState(local, remote) ==
    IF <<local, remote>> \in DOMAIN PAIR_STATES THEN PAIR_STATES[<<local, remote>>]
                                                ELSE "unknown_pair"

Digests == Contents \cup {None, Unaccessible}
SizeOf(d) == IF d \in Contents THEN Size[d] ELSE 0

-------------------------------------------------------------------------------
(* Rows and copies.                                                        *)

(* insert_local_state: a file nobody knows; insert_remote_state: a document. *)
LocalRow(data) ==
    [ref |-> 0, ls |-> "created", rs |-> "unknown", ps |-> "locally_created",
     ldig |-> data, rdig |-> None, size |-> SizeOf(data), proc |-> "none", dedup |-> FALSE]
DocumentRow(ref, data) ==
    [ref |-> ref, ls |-> "unknown", rs |-> "created", ps |-> "remotely_created",
     ldig |-> None, rdig |-> data, size |-> 0, proc |-> "none", dedup |-> FALSE]

(* Mutant: the arguments are swapped. *)
RemoteRowSwapped(ref, data) == DocumentRow(data, ref)
RemoteRow(ref, data) == DocumentRow(ref, data)

(* A DocPair read from the row. *)
Copy(r) == IF r = None THEN None
           ELSE [ref |-> r.ref, ls |-> r.ls, rs |-> r.rs, ps |-> r.ps, ldig |-> r.ldig,
                 rdig |-> r.rdig, size |-> r.size, here |-> TRUE, cur |-> TRUE]
Current(d) == [d EXCEPT !.ps = PairState(d.ls, d.rs)]

-------------------------------------------------------------------------------
(* The writes: each is the row r after the write by the holder of copy d.  *)

(* update_local_state with the file on the disk holding data. *)
WithLocal(r, d, data) ==
    IF r = None \/ ~d.here THEN r
    ELSE [r EXCEPT !.ls = d.ls, !.rs = d.rs, !.ps = PairState(d.ls, d.rs),
                   !.ldig = d.ldig, !.size = SizeOf(data)]

(* The copy after update_remote_state, and whether it writes the row: an     *)
(* answer of the server that says nothing new is not written.                *)
Refreshed(d, ref, data) ==
    IF d.ref = ref /\ data \in {d.ldig, d.rdig}
    THEN Current([d EXCEPT !.rs = "synchronized"])
    ELSE Current(d)
RemoteIsNews(d, ref, data) == d.ref # ref \/ data # d.rdig

(* update_remote_state with what the server said of document ref. *)
WithRemote(r, d, ref, data) ==
    LET e == Refreshed(d, ref, data)
    IN  IF r = None \/ ~d.here \/ ~RemoteIsNews(d, ref, data) THEN r
        ELSE [r EXCEPT !.ref = ref, !.ls = e.ls, !.rs = e.rs, !.ps = e.ps, !.rdig = data]

(* delete_local_state and delete_remote_state. *)
WithLocalDeleted(r)  == [r EXCEPT !.ls = "deleted", !.ps = "locally_deleted"]
WithRemoteDeleted(r, d) ==
    IF r = None \/ ~d.here THEN r ELSE [r EXCEPT !.rs = "deleted", !.ps = "remotely_deleted"]

(* synchronize_state: only if the version is still the one of the copy.  With *)
(* dynamic_states the pair keeps the states of the copy.                      *)
Synchronizes(r, d) == r # None /\ d.here /\ d.cur
WithSynchronized(r, d, dynamic) ==
    LET e == IF dynamic THEN d ELSE [d EXCEPT !.ls = "synchronized", !.rs = "synchronized"]
    IN  IF ~Synchronizes(r, d) THEN r
        ELSE [r EXCEPT !.ls = e.ls, !.rs = e.rs, !.ps = PairState(e.ls, e.rs),
                       !.ldig = d.ldig, !.proc = "none", !.dedup = FALSE]

(* force_local and force_remote: the user has settled a conflict. *)
Forced(r, ls, rs) == [r EXCEPT !.ls = ls, !.rs = rs, !.ps = PairState(ls, rs), !.dedup = FALSE]

(* set_conflict_state *)
WithConflict(r, d) == IF r = None \/ ~d.here THEN r ELSE [r EXCEPT !.ps = "conflicted"]

(* remove_state *)
WithoutRow(r, d) == IF r = None \/ ~d.here THEN r ELSE None

(* _queue_pair_state: what writing a row in that state asks for. *)
Queues(ps) == ps \notin {"synchronized", "unsynchronized", "conflicted", "none"}

(* check_pair_state of the processor, for one file under a synchronised folder. *)
Processable(ps) == ps \notin {"synchronized", "unsynchronized"}
Handlers == {"locally_created", "locally_modified", "locally_resolved", "locally_deleted",
             "remotely_created", "remotely_modified", "remotely_deleted", "conflicted",
             "unknown_deleted", "deleted_unknown"}
=============================================================================
