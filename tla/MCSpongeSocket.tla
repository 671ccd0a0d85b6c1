--------------------------- MODULE MCSpongeSocket ---------------------------
(***************************************************************************)
(* The uses: bytes one way and the other through pipes and buffers of one  *)
(* or two bytes, and a socket that is destroyed while connected.           *)
(***************************************************************************)
EXTENDS SpongeSocket

use(role, leaves, in, from_peer) ==
    [role |-> role, leaves |-> leaves, input |-> in, peer |-> from_peer]

MCUses ==
    {use("connect", "wait", 1, 1), use("connect", "wait", 2, 0), use("listen", "wait", 0, 2),
     use("listen", "destroy", 1, 0)}
MCDestroyed == {use("connect", "destroy", 0, 0)}
=============================================================================
