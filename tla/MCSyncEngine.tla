----------------------------- MODULE MCSyncEngine -----------------------------
(* Small vaults, budgets of events and windows for the runs of SyncEngine. *)
EXTENDS SyncEngine, TLC

CONSTANTS a, b, x, y,  \* file ids: a and b are in the vault, x and y are free
          n1, n2, n3   \* file names

OneFile == a :> [name |-> n1, ver |-> 1]
TwoFiles == OneFile @@ (b :> [name |-> n2, ver |-> 2])

\* Each budget lets the events of one question happen, and no others.
Only(events) == events @@ [k \in Kind |-> 0]

Edits == Only([dbEdit |-> 1, diskEdit |-> 2, crash |-> 1, fault |-> 1])
OneSided == Only([dbEdit |-> 2, dbTouch |-> 1, diskEdit |-> 2])
Removals == Only([dbEdit |-> 1, diskDelete |-> 1, diskBreak |-> 1, dbDelete |-> 1,
                  crash |-> 1, fault |-> 1])
Copies == Only([dbEdit |-> 1, dbCreate |-> 1, diskCopy |-> 1, crash |-> 1])
Resurrections == Only([wipe |-> 1, dbDelete |-> 1, diskEdit |-> 2, fault |-> 1])
Moves == Only([diskMove |-> 1, crash |-> 2, fault |-> 1])
Rebuilds == Only([wipe |-> 1, dbEdit |-> 1, diskEdit |-> 1, crash |-> 2])
Mendings == Only([diskBreak |-> 1, diskEdit |-> 1])
Pauses == Only([dbEdit |-> 1, diskEdit |-> 1, crash |-> 1, pause |-> 3])
Retries == Only([dbEdit |-> 1, dbCreate |-> 1, crash |-> 1, fault |-> 1])
Rearrangements == Only([dbEdit |-> 1, dbRename |-> 1, diskCopy |-> 1, diskMove |-> 1])
CopyThenWipe == Only([diskCopy |-> 1, crash |-> 1, wipe |-> 1])
MoveAndEdit == Only([diskMove |-> 1, dbEdit |-> 1])

\* A second file of the same name; imports in place that are answered late.
Namesakes == Only([dbCreate |-> 1, diskEdit |-> 2, crash |-> 2, fault |-> 1])
NamesakeRemovals == Only([dbCreate |-> 1, diskEdit |-> 1, dbDelete |-> 1, crash |-> 1,
                          fault |-> 1])
LateTwice == {Only([dbCreate |-> 1, diskEdit |-> 2, crash |-> 2, fault |-> 2])}

OneFileBudgets == {Edits, OneSided, Removals, Copies, Resurrections, Mendings,
                   Namesakes, NamesakeRemovals}
TwoFileBudgets == {Edits, Moves, Rebuilds}
LiveBudgets == {Pauses, Retries, Rearrangements}
Copying == {CopyThenWipe}
Moving == {MoveAndEdit}
Editing == {Edits}
Wiping == {Rebuilds}
Mending == {Mendings}

\* Between the decision to import and the read-back a row is exposed; between
\* the last look at a directory and the swap, the directory is; between the
\* walk of the folder and the decisions, its directories' places are.
Importing == {"decide", "recImp", "direct", "create", "fill", "unshell", "asNew",
              "asNew2", "reseed", "guard", "copy", "zipOver", "zipIn", "import",
              "finalize"}
Walking == {"rekey", "snap", "decide"}
Filling == {"fill", "unshell", "asNew2"}

\* When events happen, outside the windows where the code loses a change.
Outside ==
  [k \in Kind |->
     CASE k \in DbKind -> PC \ Importing
       [] k = "diskMove" -> PC \ (Walking \cup {"swap"})
       [] k \in {"diskEdit", "diskBreak", "diskDelete", "diskCopy"} -> PC \ {"swap"}
       [] k = "crash" -> PC \ (Filling \cup {"swap"})
       [] OTHER -> PC]

\* ... and inside one of them.
CrashBeforeSwap == [Outside EXCEPT !["crash"] = {"swap"}]
CrashWhileFilling == [Outside EXCEPT !["crash"] = {"fill"}]

\* Imports that fail at a start, of what was edited while the application was closed.
AtStarts ==
  [k \in Kind |-> CASE k = "fault" -> {"direct"}
                    [] k = "diskEdit" -> {"down"}
                    [] OTHER -> {"idle"}]

\* The ids the backend has not given out yet are alike.
Spare == Permutations({x, y})
=============================================================================
