------------------------- MODULE MCNetworkSimulator -------------------------
(***************************************************************************)
(* Destinations of the script: two hosts, and three addresses behind       *)
(* hs_router that routes of different lengths lead to.                     *)
(***************************************************************************)
EXTENDS NetworkSimulator

ScriptDestinations ==
    {ip(N192, 2), ip(N143, 5), ip(N143, 6), ip(N143, 7), ip(N198, 3)}
=============================================================================
