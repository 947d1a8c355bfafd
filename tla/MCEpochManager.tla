--------------------------- MODULE MCEpochManager ---------------------------
(* EpochManager for a committee of four.  Two of the three peers' signatures *)
(* are a quorum with this validator's own; the third peer's would only add   *)
(* interleavings, and its part in PeersCertify is not affected.              *)
EXTENDS EpochManager

CONSTANTS p1, p2
MCPeer == {p1, p2}
=============================================================================
