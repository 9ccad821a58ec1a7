---------------------------- MODULE MCPackages ----------------------------
(* Small instances of the packages: which things may happen. *)
EXTENDS Packages, TLC

Nothing == [k \in Kinds \cup {"together"} |-> 0]
Some(a) == [k \in Kinds \cup {"together"} |-> IF k \in DOMAIN a THEN a[k] ELSE 0]

MCScenarios == {
    Some([link |-> 1, crash |-> 1, wipe |-> 1, fault |-> 1]),
    Some([link |-> 1, install |-> 1, pull |-> 1]),
    Some([link |-> 1, pull |-> 1, crash |-> 1, wipe |-> 1]),
    Some([link |-> 1, delete |-> 1, crash |-> 1]),
    Some([install |-> 2, together |-> 1, native |-> 1, fault |-> 1]),
    Some([install |-> 1, native |-> 1, remove |-> 1, pull |-> 1]),
    Some([install |-> 1, publish |-> 1, together |-> 1]),
    Some([link |-> 1, install |-> 1, together |-> 1]),
    Some([native |-> 2, remove |-> 1, pull |-> 1, crash |-> 1, wipe |-> 1, fault |-> 1]),
    Some([fetch |-> 1, install |-> 1, pull |-> 1, edit |-> 1, drift |-> 1, poll |-> 1]),
    Some([template |-> 1, install |-> 1, fault |-> 1, crash |-> 1, wipe |-> 1]) }

\* One plugin, installed and removed, and the app quit soon after.
RemoveAndQuit == {Some([native |-> 1, remove |-> 1, crash |-> 1])}
=============================================================================
