--------------------------- MODULE MCRemoteWatcher ---------------------------
(***************************************************************************)
(* RemoteWatcher for TLC: two folders and a file.  A is a synchronisation  *)
(* root; B is in it; the file leaf is in B, or not created yet.            *)
(***************************************************************************)
EXTENDS RemoteWatcher

CONSTANTS A, B, leaf

Home(x) == [i \in Items |-> IF i = A THEN Root ELSE IF i = B THEN A ELSE x]
MCStarts == {[home |-> Home(B), ops |-> 1, prefs |-> 1, faults |-> 1],
             [home |-> Home(B), ops |-> 0, prefs |-> 2, faults |-> 1],
             [home |-> Home(None), ops |-> 2, prefs |-> 0, faults |-> 1]}
=============================================================================
