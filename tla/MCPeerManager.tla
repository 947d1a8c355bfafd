--------------------------- MODULE MCPeerManager ---------------------------
(* PeerManager with two peers behind one ip address: p1 has a validator key,  *)
(* can be dialed and may be connected twice; p2 only ever dials in.          *)
EXTENDS PeerManager, TLC

CONSTANTS p1, p2, port1, port2, ip

MCIpOf == port1 :> ip @@ port2 :> ip

MCAddrOf == p1 :> {port1} @@ p2 :> {port2}

MCMaxConns == p1 :> 2 @@ p2 :> 1

=============================================================================
