--------------------------- MODULE MCPeerRotation ---------------------------
(* Small instances of PeerRotation for TLC. *)
EXTENDS PeerRotation

LastIsSpare == {N - 1}
=============================================================================
