SPECIFICATION Spec
CONSTANTS
    p1 = p1
    p2 = p2
    port1 = port1
    port2 = port2
    ip = ip
    Peer = {p1, p2}
    Addr = {port1, port2}
    AddrOf <- MCAddrOf
    Dialable = {p1}
    Authority = {p1}
    Ip = {ip}
    IpOf <- MCIpOf
    MaxPeers = 1
    TargetPeers = 1
    MaxBanned = 1
    MaxDisconnected = 1
    MaxConns <- MCMaxConns
    MaxQueued = 0
    MaxInputs = 2
INVARIANTS
    WaiterHasDial
    Conserved
    
    BanHasCause
CHECK_DEADLOCK FALSE
