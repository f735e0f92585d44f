------------------------------ MODULE MCWorker ------------------------------
(***************************************************************************)
(* Worker on a small instance: two workers, fewer events per cycle than    *)
(* there are, an item that is short in two warehouses and an account.      *)
(***************************************************************************)
EXTENDS Worker

CONSTANTS short1, short2, overdue, item, account, stock, receivables

MCKeyOf == [row \in Rows |-> IF row = overdue THEN account ELSE item]
MCModuleOf == [row \in Rows |-> IF row = overdue THEN receivables ELSE stock]
=============================================================================
