----------------------------- MODULE MCReaders -----------------------------
(* Small instances of the readers: which things may happen. *)
EXTENDS Readers, TLC

CONSTANTS f1, f2,  \* files
          p1, p2,  \* places
          k1,      \* a package
          m1, m2   \* boards

MCBoardsOf == <<{}, {m1}, {m1, m2}, {m2}>>

Nothing == [x \in Kinds |-> 0]
Some(a) == [x \in Kinds |-> IF x \in DOMAIN a THEN a[x] ELSE 0]

MCScenarios == {
    Some([edit |-> 2, fault |-> 1]),
    Some([edit |-> 1, disk |-> 1, crash |-> 1]),
    Some([edit |-> 1, move |-> 1, fault |-> 1]),
    Some([edit |-> 1, new |-> 1]),
    Some([move |-> 1, new |-> 1]),
    Some([move |-> 1, delete |-> 1, crash |-> 1]),
    Some([new |-> 1, delete |-> 1, expire |-> 1]),
    Some([edit |-> 1, expire |-> 1, toggle |-> 2, crash |-> 1]),
    Some([crash |-> 1, switch |-> 1, edit |-> 1]),
    Some([crash |-> 1, schema |-> 1, pin |-> 1, edit |-> 1]),
    Some([pin |-> 1, unpin |-> 1, garble |-> 1, crash |-> 1]) }
=============================================================================
