------------------------------- MODULE MCDesk -------------------------------
(* The histories of the desktop shell that TLC examines: two vaults, up to *)
(* two replacements of the stack after the boot; with them one or two      *)
(* documents or menu commands and clicks on the tray's pause, or files     *)
(* opened in windows that are closed, navigated and renamed.               *)
EXTENDS Windows, TLC

Still == [opens |-> <<>>, closes |-> 0, strays |-> 0, renames |-> 0, clicks |-> 0]
Case(flows, asks, press, save, sync) ==
    [flows |-> flows, asks |-> asks, press |-> press, save |-> save, sync |-> sync] @@ Still
Opened(flows, opens, closes, strayed, renames, clicks) ==
    [opens |-> opens, closes |-> closes, strays |-> strayed, renames |-> renames,
     clicks |-> clicks] @@ Case(flows, <<>>, 0, 0, TRUE)

MCScenarios ==
    {Case(<<k>>, <<"dir">>, 1, 1, TRUE) : k \in FlowKinds}
      \cup {Case(<<k>>, <<x>>, 0, 0, TRUE) : k \in FlowKinds, x \in AskKinds}
      \cup {Case(<<"menu", k>>, <<x>>, 0, 0, TRUE) :
                k \in FlowKinds \ {"cli"}, x \in {"dir", "export"}}
      \cup {Case(<<"menu", "menu">>, <<>>, 2, 0, TRUE),
            Case(<<"menu", "page">>, <<>>, 2, 1, TRUE), Case(<<"menu">>, <<>>, 2, 1, FALSE)}
      \cup {Case(<<"menu">>, <<"dir", x>>, 0, 0, TRUE) : x \in {"dir", "pending"}}
      \cup {Opened(<<>>, <<"new">>, 0, 0, 1, 0),
            Opened(<<>>, <<"folder">>, 1, 0, 1, 0),
            Opened(<<>>, <<"folder", "recent">>, 1, 0, 0, 0),
            Opened(<<>>, <<"folder", "folder">>, 1, 0, 0, 0),
            Opened(<<>>, <<"document">>, 0, 1, 0, 1),
            Opened(<<"menu">>, <<"folder">>, 0, 0, 0, 0)}

(* For the run that refutes LandsInActive.                                 *)
MCAnyFlow == {Case(<<k>>, <<"dir">>, 0, 0, TRUE) : k \in FlowKinds}

(* One history each, for a window closed at the wrong moment, and for a    *)
(* window that outlives two switches.                                      *)
MCGhost == {Opened(<<>>, <<"folder", "folder">>, 1, 0, 0, 0)}
MCLinks == {Opened(<<"menu", "menu">>, <<"folder", "folder">>, 0, 0, 0, 0)}
=============================================================================
