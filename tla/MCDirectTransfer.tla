-------------------------- MODULE MCDirectTransfer --------------------------
(* Instances of DirectTransfer for TLC.                                    *)
EXTENDS DirectTransfer
CONSTANTS a, b, d

\* A folder that holds a file, and a file beside it.
FolderOfA == [f \in {d} |-> {a}]
=============================================================================
