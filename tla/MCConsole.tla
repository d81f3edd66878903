----------------------------- MODULE MCConsole -----------------------------
(***************************************************************************)
(* The network on its own; the settings, outages and shutdowns with pages. *)
(***************************************************************************)
EXTENDS Console

CONSTANTS p1, p2, c1

MCMarkerStates == {{}, {0}, {1, 2}, {0, 1, 2}}
MCChainStates == {{}, {0}, {1}, {0, 1, 2}}
MCScenarios ==
    {[does |-> {"network"}, peers |-> {}, most |-> 0],
     [does |-> {"outage"}, peers |-> {p1}, most |-> 1],
     [does |-> {"changes", "drops"}, peers |-> {p1}, most |-> 2],
     [does |-> {"drops"}, peers |-> {p1, p2, c1}, most |-> 0],
     [does |-> {"shutdown"}, peers |-> {p1, p2, c1}, most |-> 0]}
=============================================================================
