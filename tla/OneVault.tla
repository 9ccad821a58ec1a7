-------------------------------- MODULE OneVault --------------------------------
(***************************************************************************)
(* What the vault runner promises: the disposable state (the database      *)
(* cluster and the media blobs) is only ever filled while a database runs, *)
(* by the daemon of its vault; one database runs at a time, and it is only *)
(* ever raised over a state that is empty or already its own.  "Zero       *)
(* cross-vault spill" is then a matter of two variables.                   *)
(***************************************************************************)
CONSTANT Vault

VARIABLES
  data,   \* the vaults the disposable state holds something of
  open    \* the vault whose database runs, as a set of at most one

vars == <<data, open>>

Init ==
  /\ data \in {{v} : v \in Vault} \cup {{}}
  /\ open = {}

\* Raise a stack, its database first.
Open(v) ==
  /\ open = {}
  /\ data \subseteq {v}
  /\ open' = {v}
  /\ UNCHANGED data

\* Its daemon imports the folder, or one that an earlier stack of it has left.
Import ==
  /\ open # {}
  /\ data' = open
  /\ UNCHANGED open

\* Stop it, in good order or not.
Close ==
  /\ open' = {}
  /\ UNCHANGED data

\* Forget everything, which only a stopped database allows.
Wipe ==
  /\ open = {}
  /\ data' = {}
  /\ UNCHANGED open

Next == (\E v \in Vault : Open(v)) \/ Import \/ Close \/ Wipe

Spec == Init /\ [][Next]_vars
=============================================================================
