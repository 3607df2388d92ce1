------------------------------ MODULE MCPanels ------------------------------
(***************************************************************************)
(* Instances of Panels for TLC.                                            *)
(***************************************************************************)
EXTENDS Panels

Apps2 == <<"api", "web">>

(* A record that a search for x finds, one that it does not.               *)
SomeItems ==
    [log      |-> [app: {"api", "web"}],
     event    |-> {[app |-> "api", ticket |-> 1], [app |-> "web", ticket |-> 0]},
     sentinel |-> {[level |-> "ERROR", text |-> <<"x">>], [level |-> "INFO", text |-> <<"y">>]},
     status   |-> {[app |-> "api", status |-> "polling"], [app |-> "api", status |-> "error"]},
     stats    |-> [inFlight: {1}]]

Sizes == [feed \in Feeds |-> IF feed = "stats" THEN 1 ELSE 2]
Kept == [list \in Lists \cup {"ticket"} |-> 1]
=============================================================================
