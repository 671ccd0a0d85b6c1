----------------------------- MODULE MCARPLink ------------------------------
(***************************************************************************)
(* Two stations that send to each other at the same time.                  *)
(***************************************************************************)
EXTENDS ARPLink

Sends ==
    {[from |-> 1, hop |-> 2, id |-> 1], [from |-> 1, hop |-> 2, id |-> 2],
     [from |-> 2, hop |-> 1, id |-> 1]}
=============================================================================
