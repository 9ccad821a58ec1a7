----------------------------- MODULE MCVaultSwitch -----------------------------
(* Small instances of VaultSwitch. *)
EXTENDS VaultSwitch, TLC

CONSTANTS v, w,    \* vaults
          t1, t2   \* workers

\* w is a copy of v made in a file manager, with v's identity in it.
Copies == [u \in Vault |-> v]

\* Everywhere but where a complete stack waits to be installed.
NotAtInstall == Await \ {"install"}
AtInstall == {"install"}

Alike == Permutations({t1, t2})
=============================================================================
