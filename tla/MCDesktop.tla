------------------------------ MODULE MCDesktop -------------------------------
(***************************************************************************)
(* Two components for TLC, each with its own bounds: in each behaviour one *)
(* of them runs (part), while the other waits in an initial state of its.  *)
(***************************************************************************)
EXTENDS Accounts, DirectEdit

VARIABLE part \* the component of this behaviour

-------------------------------------------------------------------------------
(* Two accounts, one folder in another, a third one.                       *)
Nested == {<<"ab", "a">>}
Rare == {"pause", "sync", "quit", "crash", "full", "refused", "token", "transfer", "delete",
         "move", "bind", "unbind", "lose", "damage"}
Once(whats) == [what \in Rare |-> IF what \in whats THEN 1 ELSE 0]
MCAccountBudgets ==
    {Once({"pause", "refused", "token", "full", "quit"}), Once({"pause", "transfer", "move", "delete"}),
     Once({"sync", "quit", "token", "refused"}), Once({"bind", "crash", "pause", "unbind"}),
     Once({"bind", "lose", "quit", "move"}), Once({"bind", "unbind", "damage", "crash"}),
     Once({"transfer", "refused", "token", "crash", "pause"})}

(* One document edited once or twice.                                      *)
Budget(e, w, o, f, q) == [edits |-> e, writes |-> w, others |-> o, faults |-> f, quits |-> q]
MCBudgets == {Budget(2, 1, 0, 0, 1), Budget(2, 1, 1, 0, 0), Budget(1, 1, 1, 1, 1), Budget(1, 2, 0, 1, 0)}

-------------------------------------------------------------------------------
AnyOf(S) == CHOOSE x \in S : TRUE
MCInit ==
    /\ part \in {"accounts", "edit"}
    /\ AccountsInit /\ Init
    /\ part # "accounts" => sync /\ row = [u \in Uids |-> None] /\ budget = AnyOf(AccountBudgets)
    /\ part # "edit" => autolock /\ left = AnyOf(Budgets)

AccountsStep == part = "accounts" /\ AccountsNext /\ UNCHANGED <<part, vars>>
EditStep == part = "edit" /\ Next /\ UNCHANGED <<part, accountsVars>>

MCNext == AccountsStep \/ EditStep
MCSpec == MCInit /\ [][MCNext]_<<part, vars, accountsVars>>
===============================================================================
