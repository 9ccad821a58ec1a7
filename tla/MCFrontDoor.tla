----------------------------- MODULE MCFrontDoor -----------------------------
(* The histories of the front door that TLC examines, each about one part  *)
(* of it; the bounds of a case that are not named are zero.                *)
EXTENDS FrontDoor

Case(ops) ==
    [ops |-> ops, crash |-> 0, fail |-> 0, lose |-> 0, clicks |-> 0, sets |-> 0,
     logins |-> 0, len |-> 0, bound |-> Missing, fields |-> {}, exporter |-> TRUE,
     csp |-> "unset"]

(* Provisioning: kills, faults, wipes and a lost secret.                   *)
Identities ==
    {[Case(<<k>>) EXCEPT !.crash = 1, !.fail = 1, !.lose = 1] : k \in {"menu", "other"}}
      \cup {[Case(<<>>) EXCEPT !.crash = 2, !.lose = 1],
            [Case(<<"menu">>) EXCEPT !.logins = 3, !.fail = 1]}

(* Preferences: every field, saved around restarts, kills and faults.      *)
Settings ==
    {[Case(<<k>>) EXCEPT !.clicks = 2, !.fields = {f, "sync"}] :
        k \in {"reboot", "menu"}, f \in Fields \ {"sync"}}
      \cup {[Case(<<"reboot">>) EXCEPT !.clicks = 1, !.sets = 1, !.fields = {"csp", "sync"}],
            [Case(<<"reboot">>) EXCEPT !.clicks = 1, !.fields = {"exports", "csp"},
                                       !.csp = "off", !.exporter = FALSE],
            [Case(<<"menu">>) EXCEPT !.clicks = 1, !.fields = {"csp"}, !.csp = "set"],
            [Case(<<>>) EXCEPT !.clicks = 2, !.crash = 1, !.fields = {"sync", "exports"}],
            [Case(<<"other">>) EXCEPT !.clicks = 1, !.fail = 1, !.fields = {"sync"}],
            [Case(<<>>) EXCEPT !.sets = 2, !.fields = {"sync", "plugins"}]}

(* Restarts: who is told what.                                             *)
Restarts ==
    {[Case(<<"reboot", k>>) EXCEPT !.fail = 1] : k \in {"other", "otherSwitch", "menu"}}

(* Assets: every header with bounds up to the length and one beyond, and   *)
(* two restarts of which one fails, when nobody listens meanwhile.         *)
Assets ==
    {[Case(<<"menu">>) EXCEPT !.len = n, !.bound = n + 1] : n \in {0, 1, 3}}
      \cup {[Case(<<"reboot", "other">>) EXCEPT !.bound = 0, !.logins = 1, !.fail = 1]}

MCScenarios == Identities \cup Settings \cup Restarts \cup Assets
=============================================================================
