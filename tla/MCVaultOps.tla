---------------------------- MODULE MCVaultOps ----------------------------
(* Small instances of the vault's operations: which things may happen. *)
EXTENDS VaultOps, TLC

Nothing == [k \in BudgetKinds |-> 0]
Some(a) == [k \in BudgetKinds |-> IF k \in DOMAIN a THEN a[k] ELSE 0]

MCBudgets == {
    Some([delete |-> 2, fault |-> 1]),
    Some([delete |-> 1, toggle |-> 2]),
    Some([delete |-> 1, edit |-> 1, toggle |-> 1]),
    Some([delete |-> 1, edit |-> 1, crash |-> 1]),
    Some([delete |-> 1, disk |-> 1, crash |-> 1]),
    Some([delete |-> 1, new |-> 1, crash |-> 1]),
    Some([delete |-> 1, dup |-> 1]),
    Some([dup |-> 1, edit |-> 1]),
    Some([dup |-> 1, fault |-> 1]),
    Some([check |-> 2, edit |-> 1]),
    Some([check |-> 1, delete |-> 1]),
    Some([check |-> 1, git |-> 2]) }
=============================================================================
