-------------------------- MODULE MCSelectedOrder --------------------------
(* A small instance of SelectedOrder: nothing else happens, or all of it.  *)
EXTENDS SelectedOrder

MCEvents == {{}, EventKind}
MCChange == [e \in MCEvents |-> IF e = {} THEN 2 ELSE 1]
=============================================================================
