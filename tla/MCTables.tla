------------------------------ MODULE MCTables ------------------------------
(***************************************************************************)
(* The bookkeeping a server looks packets up in, side by side: the hash    *)
(* index, the index of addresses over the client table, the lease table,   *)
(* the handshake budgets, the replay window.  They do not act on one       *)
(* another here; a behaviour is one of the parts.                          *)
(***************************************************************************)
EXTENDS SlotIdx, ClientIndex, LeaseTable, Budgets, ReplayWindow

\* Addresses of two /24s
NetDef(a) == IF a \in {"a1", "a2"} THEN "a" ELSE "b"

VARIABLE part
windowVars == vars
tableVars == <<part, slotVars, indexVars, leaseVars, budgetVars, windowVars>>

\* A part that is not the behaviour's has one state
TablesInit ==
    /\ part \in {"index", "clients", "leases", "budgets", "window"}
    /\ SlotInit /\ ClientIndexInit /\ LeaseInit /\ BudgetInit /\ Init
    /\ part # "clients" => idx.ok
    /\ part # "budgets" => result.from = "a1"

TablesNext ==
    /\ UNCHANGED part
    /\ \/ part = "index" /\ SlotNext
          /\ UNCHANGED <<indexVars, leaseVars, budgetVars, windowVars>>
       \/ part = "clients" /\ ClientIndexNext
          /\ UNCHANGED <<slotVars, leaseVars, budgetVars, windowVars>>
       \/ part = "leases" /\ LeaseNext
          /\ UNCHANGED <<slotVars, indexVars, budgetVars, windowVars>>
       \/ part = "budgets" /\ BudgetNext
          /\ UNCHANGED <<slotVars, indexVars, leaseVars, windowVars>>
       \/ part = "window" /\ Next
          /\ UNCHANGED <<slotVars, indexVars, leaseVars, budgetVars>>
TablesSpec == TablesInit /\ [][TablesNext]_tableVars

=============================================================================
