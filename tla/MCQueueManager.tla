--------------------------- MODULE MCQueueManager ---------------------------
(* Instances of QueueManager for TLC.                                      *)
EXTENDS QueueManager
CONSTANT f1

\* A file that only ever changes locally.
OneLocal == [p \in {f1} |-> {"local_file"}]
=============================================================================
