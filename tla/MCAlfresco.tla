------------------------------ MODULE MCAlfresco ------------------------------
(***************************************************************************)
(* Alfresco for TLC: one file with its document, two names, and every pair *)
(* of things that may happen to them that TLC can finish.                  *)
(***************************************************************************)
EXTENDS Alfresco

Free == [what \in {"create", "write", "move", "delete", "missed", "ocreate", "owrite", "orename", "odelete",
                   "resolve", "fail", "unsync", "uploaded", "listed"} |-> 0]
Once(whats) == [what \in DOMAIN Free |-> IF what \in whats THEN 1 ELSE 0]
MCBudgets ==
    {Once({"write", "owrite", "uploaded"}), Once({"write", "fail", "uploaded"}),
     Once({"write", "owrite", "resolve"}), Once({"delete", "owrite", "unsync"}),
     Once({"delete", "write", "unsync"}), Once({"write", "delete", "odelete"}),
     Once({"write", "odelete", "ocreate"}), Once({"move", "missed"}),
     Once({"write", "orename"}), Once({"owrite", "orename"}), Once({"create", "ocreate"}),
     Once({"ocreate", "fail"}), Once({"owrite", "fail", "listed"})}
===============================================================================
