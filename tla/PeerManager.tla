----------------------------- MODULE PeerManager -----------------------------
(***************************************************************************)
(* The connection and reputation state of one node: AllPeers (every known  *)
(* peer's connection status, score and witnessed addresses, the ban        *)
(* charges and the hand-maintained count of disconnected peers), the       *)
(* PeerManager around it (temporary bans, dial requests, the event queue), *)
(* its callbacks from the libp2p swarm, and what the network layer does    *)
(* with its events (the gossipsub blacklist).                              *)
(*                                                                         *)
(* `pm' is the PeerManager as one record.  Every method is an operator     *)
(* from such a record to the next; pm.act is the PeerAction the last       *)
(* transition returned, which the caller applies (ApplyPeerAction) or      *)
(* drops (Drop), as in the code.  A peer's BLS key and its network         *)
(* identity are one value: key rotation and relays are left out.           *)
(***************************************************************************)
EXTENDS Naturals, Sequences, FiniteSets, FiniteSetsExt, SequencesExt

CONSTANTS
  Peer,             \* the remote peers
  Addr,             \* the multiaddrs (an ip and a port)
  AddrOf,           \* the multiaddrs each peer connects from
  Dialable,         \* the peers this node knows an address for
  Authority,        \* the peers with a validator key
  Ip,               \* the ip addresses
  IpOf,             \* the ip of a multiaddr
  MaxPeers,         \* config.max_peers(): the inbound limit
  TargetPeers,      \* config.target_num_peers
  MaxBanned,        \* config.max_banned_peers
  MaxDisconnected,  \* config.max_disconnected_peers
  MaxConns,         \* bound: simultaneous connections to each peer
  MaxQueued,        \* bound: events queued when a new input arrives
  MaxInputs         \* bound: penalties, exchanges, epochs and records

VARIABLES
  pm,         \* the PeerManager and the AllPeers it owns
  conns,      \* the swarm: established connections to each peer
  dialing,    \* the swarm: peers with an outbound dial in flight
  blacklist,  \* gossipsub's blacklist
  inputs      \* inputs taken so far, against MaxInputs

vars == <<pm, conns, dialing, blacklist, inputs>>

\* Reputation: the level a score implies against the two thresholds.
Level == {"good", "low", "bad"}

Rank(level) == CASE level = "bad" -> 0 [] level = "low" -> 1 [] level = "good" -> 2

\* ConnectionStatus: Disconnecting is three of them, by its reason (ExcessPeers,
\* Penalized, Banned); the others are Unknown, Connected, Dialing, Disconnected
\* and Banned.  "None" is a peer the map does not hold.
Disconnecting == {"Excess", "Penalized", "Condemned"}

Absent == [status |-> "None", rep |-> "good", trusted |-> FALSE, addrs |-> {}]

NoCharge == [i \in Ip |-> 0]

-----------------------------------------------------------------------------
\* Reading the tables.

Held(s, p) == s.peers[p].status # "None"

In(s, statuses) == {p \in Peer : s.peers[p].status \in statuses}

\* BannedPeers::ip_banned: more banned peers than BANNED_PEERS_PER_IP_THRESHOLD.
IpBanned(s, i) == s.byIp[i] > 1

\* PeerManager::peer_banned: the admission verdict.
PeerBanned(s, p) ==
  /\ p \notin s.seated
  /\ \/ p \in s.temp /\ p \notin s.bound
     \/ Held(s, p) /\ \/ s.peers[p].rep = "bad"
                      \/ \E a \in s.peers[p].addrs : IpBanned(s, IpOf[a])

\* PeerManager::peer_is_important.
Important(s, p) == p \in s.seated \union s.departing \/ s.peers[p].trusted

-----------------------------------------------------------------------------
\* Ban accounting (BannedPeers) and small updates.

SetStatus(s, p, status) == [s EXCEPT !.peers[p].status = status]

\* An ip counts once per witnessed multiaddr that carries it.
ChargeOf(s, p) == [i \in Ip |-> Cardinality({a \in s.peers[p].addrs : IpOf[a] = i})]

AddBannedPeer(s, p) ==
  IF p \in s.charged THEN s
  ELSE [s EXCEPT !.charged = @ \union {p},
                 !.charge[p] = ChargeOf(s, p),
                 !.byIp = [i \in Ip |-> @[i] + ChargeOf(s, p)[i]]]

RemoveBannedPeer(s, p) ==
  [s EXCEPT !.charged = @ \ {p},
            !.charge[p] = NoCharge,
            !.byIp = [i \in Ip |-> @[i] - s.charge[p][i]]]

Returns(s, action) == [s EXCEPT !.act = action]

\* History: a ban is lifted and nobody is told, unless the blacklist was
\* lifted already.
Silently(s, p) == [s EXCEPT !.silenced = @ \union ({p} \ s.early)]

\* The caller does not look at the action.
Drop(s, p) == Returns(IF s.act = "Unban" THEN Silently(s, p) ELSE s, "NoAction")

\* notify_dial_result: the waiting caller is answered, if there is one.
NotifyDial(s, p) == [s EXCEPT !.pending = @ \ {p}]

\* Only the events whose handling changes the state modelled here are queued:
\* Banned, Unbanned and RedialCommittee.
Push(s, kind, p) ==
  [s EXCEPT !.events = Append(@, [kind |-> kind, peer |-> p]),
            !.silenced = IF kind \in {"Banned", "Unbanned"} THEN @ \ {p} ELSE @,
            !.early = IF kind = "Banned" THEN @ \ {p} ELSE @]

\* make_trusted and make_untrusted start the score over.
MakeTrusted(s, p) ==
  IF s.peers[p].trusted THEN s
  ELSE [s EXCEPT !.peers[p].trusted = TRUE, !.peers[p].rep = "good"]

MakeUntrusted(s, p) ==
  IF ~s.peers[p].trusted THEN s
  ELSE [s EXCEPT !.peers[p].trusted = FALSE, !.peers[p].rep = "good"]

-----------------------------------------------------------------------------
\* AllPeers::update_connection_status: one operator per new status.

\* ensure_peer_exists
EnsurePeer(s, p) ==
  IF Held(s, p) THEN s
  ELSE [s EXCEPT !.peers[p] = [Absent EXCEPT !.status = "Unknown",
                                             !.trusted = p \in s.seated]]

CountDisconnected(s, n) == [s EXCEPT !.disconnected = n]

OneLess(s) == IF s.disconnected = 0 THEN 0 ELSE s.disconnected - 1

\* What leaving `status' for Connected or Dialing releases.
Leave(s, p, status) ==
  CASE status = "Disconnected" -> Returns(CountDisconnected(s, OneLess(s)), "NoAction")
    [] status = "Banned"       -> Returns(RemoveBannedPeer(s, p), "Unban")
    [] OTHER                   -> Returns(s, "NoAction")

HandleConnected(s0, p, a) ==
  LET s == EnsurePeer(s0, p)
      was == s.peers[p].status
      left == Leave(s, p, was)
      up == [left EXCEPT !.peers[p].status = "Connected",
                         !.peers[p].addrs = @ \union {a}]
  IN  IF was = "Dialing" THEN NotifyDial(up, p) ELSE up

HandleDialing(s0, p) ==
  LET s == EnsurePeer(s0, p)
      was == s.peers[p].status
      left == Leave(s, p, was)
  IN  IF was \in Disconnecting \union {"Connected", "Dialing"} THEN left
      ELSE SetStatus(left, p, "Dialing")

\* Mutant of HandleDisconnected: a second report of one disconnect counts.
CountEveryReport(s0, p) ==
  LET s == EnsurePeer(s0, p)
      was == s.peers[p].status
      gone == SetStatus(CountDisconnected(s, s.disconnected + 1), p, "Disconnected")
  IN  CASE was = "Banned" -> Returns(s, "NoAction")
        [] was = "Condemned" -> Returns(AddBannedPeer(SetStatus(s, p, "Banned"), p), "Ban")
        [] OTHER -> Returns(NotifyDial(gone, p), "NoAction")

HandleDisconnected(s0, p) ==
  LET s == EnsurePeer(s0, p)
      was == s.peers[p].status
      gone == SetStatus(CountDisconnected(s, s.disconnected + 1), p, "Disconnected")
  IN  CASE was \in {"Banned", "Disconnected"} -> Returns(s, "NoAction")
        [] was = "Condemned" -> Returns(AddBannedPeer(SetStatus(s, p, "Banned"), p), "Ban")
        [] was \in {"Excess", "Penalized"} -> Returns(gone, "NoAction")
        [] OTHER -> Returns(NotifyDial(gone, p), "NoAction")

HandleDisconnecting(s0, p, reason) ==
  LET s == EnsurePeer(s0, p)
      was == s.peers[p].status
      leaving == SetStatus(s, p, reason)
  IN  CASE was = "Disconnected" ->
             Returns(CountDisconnected(leaving, OneLess(s)), "NoAction")
        [] was = "Banned" -> Returns(Silently(RemoveBannedPeer(leaving, p), p), "NoAction")
        [] was \in {"Connected", "Dialing"} ->
             Returns(leaving, IF reason = "Excess" THEN "DisconnectWithPX" ELSE "Disconnect")
        [] OTHER -> Returns(leaving, "NoAction")

\* Only ever asked of a held peer whose score has just reached the threshold.
HandleBanned(s, p) ==
  LET was == s.peers[p].status
      banned == AddBannedPeer(SetStatus(s, p, "Banned"), p)
  IN  CASE was = "Disconnected" -> Returns(CountDisconnected(banned, OneLess(s)), "Ban")
        [] was \in Disconnecting -> Returns(SetStatus(s, p, "Condemned"), "NoAction")
        [] was = "Banned" -> Returns(s, "Ban")
        [] was \in {"Connected", "Dialing"} ->
             Returns(SetStatus(s, p, "Condemned"), "Disconnect")
        [] was = "Unknown" -> Returns(banned, "Ban")

\* Mutant of HandleUnbanned: a pending ban is not looked at.
HandleUnbannedOnly(s, p) ==
  IF s.peers[p].status = "Banned"
  THEN Returns(CountDisconnected(RemoveBannedPeer(SetStatus(s, p, "Disconnected"), p),
                                 s.disconnected + 1), "Unban")
  ELSE Returns(s, "NoAction")

HandleUnbanned(s, p) ==
  LET was == s.peers[p].status
  IN  CASE was = "Banned" ->
             Returns(CountDisconnected(RemoveBannedPeer(SetStatus(s, p, "Disconnected"), p),
                                       s.disconnected + 1), "Unban")
        [] was = "Condemned" -> Returns(SetStatus(s, p, "Penalized"), "NoAction")
        [] OTHER -> Returns(s, "NoAction")

-----------------------------------------------------------------------------
\* PeerManager: actions, dials, disconnects.

\* apply_peer_action.  A ban first drops the peer's unbans still in the queue
\* (process_ban).
ApplyPeerAction(s, p) ==
  LET done == Returns(s, "NoAction")
      barred == [done EXCEPT !.temp = @ \union {p}]
  IN  CASE s.act = "Ban" ->
             Push([done EXCEPT !.events =
                     SelectSeq(@, LAMBDA e : e # [kind |-> "Unbanned", peer |-> p])],
                  "Banned", p)
        [] s.act \in {"Disconnect", "DisconnectWithPX"} -> barred
        [] s.act = "Unban" -> Push(done, "Unbanned", p)
        [] OTHER -> done

\* dial_peer: refused with an error to a banned, dialing or connected peer.
DialPeer(s, p, reply) ==
  IF s.peers[p].status \in {"Banned", "Dialing", "Connected"} THEN s
  ELSE [s EXCEPT !.requests = Append(@, [peer |-> p, reply |-> reply])]

\* register_dial_attempt: the action is not looked at.
RegisterDialAttempt(s, p, reply) ==
  LET dialed == Drop(HandleDialing(s, p), p)
  IN  IF reply THEN [dialed EXCEPT !.pending = @ \union {p}] ELSE dialed

\* disconnect_peer
DisconnectPeer(s, p) == ApplyPeerAction(HandleDisconnecting(s, p, "Excess"), p)

\* prune_disconnected_peers and prune_banned_peers: `old' and `pardoned' are
\* the oldest peers beyond each cap (which ones is left open).
Excess(n, cap) == IF n > cap THEN n - cap ELSE 0

Prunable(s, old, pardoned) ==
  /\ old \in kSubset(Excess(s.disconnected, MaxDisconnected), In(s, {"Disconnected"}))
  /\ pardoned \in kSubset(Excess(Cardinality(s.charged), MaxBanned), In(s, {"Banned"}))

Forget(s, p) == [s EXCEPT !.peers[p] = Absent]

Prune(s, old, pardoned) ==
  LET fewer == FoldSet(LAMBDA p, t : CountDisconnected(Forget(t, p), OneLess(t)), s, old)
  IN  FoldSet(LAMBDA p, t : Forget(RemoveBannedPeer(t, p), p), fewer, pardoned)

\* Mutant of RegisterDisconnected: the peers it pardons are not announced.
PardonSilently(s, p, old, pardoned) ==
  LET off == HandleDisconnected(s, p)
      pruned == Prune(off, old, pardoned)
  IN  IF off.act = "Ban" THEN ApplyPeerAction(pruned, p) ELSE Drop(pruned, p)

\* register_disconnected: only a ban is applied, before the unbans of the
\* pruned peers are announced.
RegisterDisconnected(s, p, old, pardoned) ==
  LET off == HandleDisconnected(s, p)
      pruned == Prune(off, old, pardoned)
      applied == IF off.act = "Ban" THEN ApplyPeerAction(pruned, p) ELSE Drop(pruned, p)
  IN  FoldSet(LAMBDA q, t : Push(t, "Unbanned", q), applied, pardoned)

\* The history variables follow the statuses they are about.
Settle(s) == [s EXCEPT !.early = @ \intersect In(s, {"Banned"}),
                       !.late = @ \intersect In(s, {"Banned", "Condemned"})]

-----------------------------------------------------------------------------
\* Records and epochs.

\* upsert_peer: trusted from the moment a committee key meets its peer.
UpsertPeer(s, p) ==
  LET member == p \in s.keys
      seated == IF member THEN [s EXCEPT !.seated = @ \union {p}] ELSE s
  IN  IF Held(s, p) THEN IF member THEN MakeTrusted(seated, p) ELSE seated
      ELSE [seated EXCEPT !.peers[p] = [Absent EXCEPT !.status = "Unknown", !.trusted = member]]

\* add_known_peer (bind) and add_known_peer_addrs.
Learn(s, p, bind) ==
  LET up == UpsertPeer(s, p)
      freed == IF p \in up.seated /\ up.peers[p].status = "Banned"
               THEN ApplyPeerAction(HandleUnbanned(up, p), p) ELSE up
      missed == IF p \in up.seated THEN {p} \intersect In(up, {"Condemned"}) ELSE {}
  IN  [freed EXCEPT !.known = @ \union {p},
                    !.bound = IF bind THEN @ \union {p} ELSE @,
                    !.late = @ \union missed]

\* new_epoch for one resolved member, and its action applied.
Seat(s, p) ==
  LET ensured == EnsurePeer([s EXCEPT !.seated = @ \union {p}, !.temp = @ \ {p}], p)
      status == ensured.peers[p].status
      up == MakeTrusted(UpsertPeer(ensured, p), p)
  IN  IF status \in {"Condemned", "Banned"} THEN ApplyPeerAction(HandleUnbanned(up, p), p) ELSE up

\* new_epoch: whoever lost the seat loses the trust with it.
StartEpoch(s, committee) ==
  LET members == committee \intersect s.known
      cleared == [s EXCEPT !.seated = {}, !.keys = committee]
      seated == FoldSet(LAMBDA p, t : Seat(t, p), cleared, members)
      delta == s.seated \ members
      left == FoldSet(LAMBDA p, t : MakeUntrusted(t, p), seated, delta)
  IN  [left EXCEPT !.departing = delta]

-----------------------------------------------------------------------------
Empty ==
  [peers |-> [p \in Peer |-> Absent],
   charged |-> {}, charge |-> [p \in Peer |-> NoCharge], byIp |-> NoCharge,
   disconnected |-> 0,
   seated |-> {}, departing |-> {}, keys |-> {}, known |-> {}, bound |-> {},
   temp |-> {}, pending |-> {}, requests |-> <<>>, events |-> <<>>, act |-> "NoAction",
   silenced |-> {}, early |-> {}, late |-> {}]

\* A node that has booted: the configured peers are known and bound
\* (AddBootstrapPeers), and the first epoch is set up.
Init ==
  /\ \E bootstrap, committee \in SUBSET Authority :
       pm = StartEpoch(FoldSet(LAMBDA p, s : Learn(s, p, TRUE), Empty, bootstrap), committee)
  /\ conns = [p \in Peer |-> 0]
  /\ dialing = {}
  /\ blacklist = {}
  /\ inputs = 0

Becomes(s) == pm' = Settle(s)

Quiet == Len(pm.events) =< MaxQueued

Input == Quiet /\ inputs < MaxInputs /\ inputs' = inputs + 1

\* process_penalty: the new score is any at or below the old one.
ProcessPenalty(p, rep) ==
  LET peer == pm.peers[p]
      hit == [pm EXCEPT !.peers[p].rep = rep]
      moved == CASE rep = "bad" -> HandleBanned(hit, p)
                 [] rep = "low" /\ peer.status \in {"Connected", "Dialing"} ->
                      HandleDisconnecting(hit, p, "Penalized")
                 [] OTHER -> HandleDisconnected(hit, p)
  IN  /\ Input
      /\ p \notin pm.seated /\ Held(pm, p) /\ ~peer.trusted
      /\ Rank(rep) < Rank(peer.rep)
      /\ Becomes(ApplyPeerAction(moved, p))
      /\ UNCHANGED <<conns, dialing, blacklist>>

\* NetworkCommand::AddExplicitPeer and the records kademlia delivers.
AddKnownPeer(p, bind) ==
  /\ Input
  /\ Becomes(Learn(pm, p, bind))
  /\ UNCHANGED <<conns, dialing, blacklist>>

\* NetworkCommand::NewEpoch
NewEpoch(committee) ==
  /\ Input
  /\ committee # pm.keys
  /\ Becomes(StartEpoch(pm, committee))
  /\ UNCHANGED <<conns, dialing, blacklist>>

\* NetworkCommand::Dial and DialBls.
Dial(p) ==
  /\ Quiet /\ pm.requests = <<>>
  /\ pm.peers[p].status \notin {"Banned", "Dialing", "Connected"}
  /\ Becomes(DialPeer(pm, p, TRUE))
  /\ UNCHANGED <<conns, dialing, blacklist, inputs>>

\* A peer-exchange request: the sender is disconnecting from this node.
PeerExchange(p) ==
  /\ Input /\ conns[p] > 0
  /\ Becomes(DisconnectPeer(pm, p))
  /\ UNCHANGED <<conns, dialing, blacklist>>

-----------------------------------------------------------------------------
\* The swarm's callbacks (behavior.rs).

\* Mutant of DialFailure: a connected peer's callers are forgotten.
FailUnlessConnected(s, p, old, pardoned) ==
  IF s.peers[p].status = "Connected" THEN s
  ELSE NotifyDial(RegisterDisconnected(s, p, old, pardoned), p)

\* on_dial_failure
DialFailure(s, p, old, pardoned) ==
  NotifyDial(IF s.peers[p].status = "Connected" THEN s
             ELSE RegisterDisconnected(s, p, old, pardoned), p)

\* What on_dial_failure prunes depends on the counts after the transition.
Fails(s, p) ==
  \E old, pardoned \in SUBSET Peer :
    /\ IF s.peers[p].status = "Connected" THEN old = {} /\ pardoned = {}
       ELSE Prunable(HandleDisconnected(s, p), old, pardoned)
    /\ Becomes(DialFailure(s, p, old, pardoned))

\* A dial handed to the swarm: handle_pending_outbound_connection lets a
\* registered attempt through, denies a banned peer and registers the rest.
SwarmDial(s, p) ==
  \/ /\ s.peers[p].status = "Dialing" \/ ~PeerBanned(s, p)
     /\ Becomes(IF s.peers[p].status = "Dialing" THEN s
                ELSE RegisterDialAttempt(s, p, FALSE))
     /\ dialing' = dialing \union {p}
  \/ /\ s.peers[p].status # "Dialing" /\ PeerBanned(s, p)
     /\ Fails(s, p)
     /\ UNCHANGED dialing

\* poll: a dial request is taken once the events are drained; the swarm
\* refuses it (PeerCondition::NotDialing) while another dial is in flight.
PollDial ==
  /\ pm.events = <<>> /\ pm.requests # <<>>
  /\ LET r == Head(pm.requests)
         s == RegisterDialAttempt([pm EXCEPT !.requests = Tail(@)], r.peer, r.reply)
     IN  IF r.peer \in dialing
         THEN Fails(s, r.peer) /\ UNCHANGED dialing
         ELSE SwarmDial(s, r.peer)
  /\ UNCHANGED <<conns, blacklist, inputs>>

\* Kademlia dials a peer it is neither connected to nor dialing.
KadDial(p) ==
  /\ Quiet /\ conns[p] = 0 /\ p \notin dialing
  /\ SwarmDial(pm, p)
  /\ UNCHANGED <<conns, blacklist, inputs>>

\* register_peer_connection after the admission checks: the action of the
\* transition is not looked at.
Connect(p, a, outgoing) ==
  LET s == IF outgoing THEN NotifyDial(pm, p) ELSE pm
  IN  /\ Becomes(Drop(HandleConnected(s, p, a), p))
      /\ conns' = [conns EXCEPT ![p] = @ + 1]

\* The outbound dial ends: it fails, is denied by
\* handle_established_outbound_connection, or is established.
DialOutcome(p) ==
  /\ p \in dialing
  /\ dialing' = dialing \ {p}
  /\ \/ Fails(pm, p) /\ UNCHANGED conns
     \/ /\ conns[p] < MaxConns[p]
        /\ \E a \in AddrOf[p] :
             /\ ~PeerBanned(pm, p) /\ ~IpBanned(pm, IpOf[a])
             /\ Connect(p, a, TRUE)
  /\ UNCHANGED <<blacklist, inputs>>

\* handle_pending_inbound_connection and handle_established_inbound_connection.
Inbound(p, a) ==
  /\ Quiet /\ conns[p] < MaxConns[p]
  /\ ~IpBanned(pm, IpOf[a]) /\ ~PeerBanned(pm, p)
  /\ Cardinality(In(pm, {"Connected", "Dialing"})) < MaxPeers \/ Important(pm, p)
  /\ Connect(p, a, FALSE)
  /\ UNCHANGED <<dialing, blacklist, inputs>>

\* on_connection_closed
ConnectionClosed(p) ==
  /\ Quiet /\ conns[p] > 0
  /\ conns' = [conns EXCEPT ![p] = @ - 1]
  /\ IF conns[p] > 1 THEN UNCHANGED pm
     ELSE \E old, pardoned \in SUBSET Peer :
            /\ Prunable(HandleDisconnected(pm, p), old, pardoned)
            /\ Becomes(RegisterDisconnected(pm, p, old, pardoned))
  /\ UNCHANGED <<dialing, blacklist, inputs>>

-----------------------------------------------------------------------------
\* heartbeat

\* Dials past the timeout: disconnected, their callers answered.
TimeOutDials(s, late) ==
  FoldSet(LAMBDA p, t : NotifyDial(Drop(HandleDisconnected(t, p), p), p), s, late)

\* Peer::heartbeat for one untrusted peer whose score decays to `rep'.
Decay(s, p, rep) ==
  LET was == s.peers[p].rep
      t == [s EXCEPT !.peers[p].rep = rep]
  IN  CASE was = "bad" /\ rep # "bad" -> ApplyPeerAction(HandleUnbanned(t, p), p)
        [] was = "low" /\ rep = "low" /\ t.peers[p].status \in {"Connected", "Dialing"} ->
             ApplyPeerAction(HandleDisconnecting(t, p, "Penalized"), p)
        [] OTHER -> t

UpdateScores(s, rep) ==
  FoldSet(LAMBDA p, t : Decay(t, p, rep[p]), s, {p \in Peer : Held(s, p) /\ ~s.peers[p].trusted})

\* prune_connected_peers: the lowest scores beyond the target go.
Evictable(s, evicted) ==
  LET candidates == {p \in In(s, {"Connected"}) \ s.seated : ~s.peers[p].trusted}
      excess == Excess(Cardinality(In(s, {"Connected"})), TargetPeers)
  IN  /\ evicted \in SUBSET candidates
      /\ Cardinality(evicted) = Min({excess, Cardinality(candidates)})
      /\ \A p \in evicted, q \in candidates \ evicted :
           Rank(s.peers[p].rep) =< Rank(s.peers[q].rep)

Evict(s, evicted) == FoldSet(LAMBDA p, t : DisconnectPeer(t, p), s, evicted)

\* unban_temp_banned_peers: an expiry is announced as an unban, whatever the
\* peer's own state; `early' records the ones still banned.
Expire(s, expired) ==
  FoldSet(LAMBDA p, t : Push(t, "Unbanned", p),
          [s EXCEPT !.temp = @ \ expired,
                    !.early = @ \union (expired \intersect In(s, {"Banned"}))],
          expired)

\* redial_missing_committee, for a node that sits on the committee itself.
Redial(s) ==
  FoldSet(LAMBDA p, t : Push(t, "RedialCommittee", p), s,
          (s.known \intersect s.seated) \ In(s, {"Connected", "Dialing"}))

\* discovery_heartbeat: peers that can be dialed, up to the target.
CanDial(s, p) == s.peers[p].status \in {"None", "Unknown", "Disconnected", "Excess", "Penalized"}

Discover(s, found) == FoldSet(LAMBDA p, t : DialPeer(t, p, FALSE), s, found)

Heartbeat ==
  /\ pm.events = <<>> /\ pm.requests = <<>>
  /\ \E slow \in SUBSET In(pm, {"Dialing"}), rep \in [Peer -> Level],
        expired \in SUBSET pm.temp, evicted \in SUBSET Peer,
        found \in SUBSET Dialable :
       /\ \A p \in Peer : IF Held(pm, p) /\ ~pm.peers[p].trusted
                          THEN Rank(rep[p]) >= Rank(pm.peers[p].rep)
                          ELSE rep[p] = pm.peers[p].rep
       /\ LET scored == UpdateScores(TimeOutDials(pm, slow), rep)
              room == Excess(TargetPeers, Cardinality(In(Evict(scored, evicted),
                                                         {"Connected", "Dialing"})))
              kept == Redial(Expire(Evict(scored, evicted), expired))
          IN  /\ Evictable(scored, evicted)
              /\ \A p \in found : CanDial(kept, p)
              /\ Cardinality(found) =< room
              /\ Becomes(Discover(kept, found))
  /\ UNCHANGED <<conns, dialing, blacklist, inputs>>

-----------------------------------------------------------------------------
\* process_peer_manager_event: the network layer takes the next event.  (A
\* disconnect asks the swarm to close, which it may do at any time anyway.)
NetworkEvent ==
  /\ pm.events # <<>>
  /\ LET e == Head(pm.events)
         rest == [pm EXCEPT !.events = Tail(@)]
     IN  /\ blacklist' = CASE e.kind = "Banned" -> blacklist \union {e.peer}
                           [] e.kind = "Unbanned" -> blacklist \ {e.peer}
                           [] OTHER -> blacklist
         /\ pm' = IF e.kind = "RedialCommittee" THEN DialPeer(rest, e.peer, TRUE) ELSE rest
  /\ UNCHANGED <<conns, dialing, inputs>>

Next ==
  \/ \E p \in Peer, rep \in Level : ProcessPenalty(p, rep)
  \/ \E p \in Authority, bind \in BOOLEAN : AddKnownPeer(p, bind)
  \/ \E committee \in SUBSET Authority : NewEpoch(committee)
  \/ \E p \in Dialable : Dial(p) \/ KadDial(p)
  \/ PollDial
  \/ \E p \in Peer : DialOutcome(p) \/ ConnectionClosed(p) \/ PeerExchange(p)
  \/ \E p \in Peer : \E a \in AddrOf[p] : Inbound(p, a)
  \/ Heartbeat
  \/ NetworkEvent

Spec == Init /\ [][Next]_vars

-----------------------------------------------------------------------------
\* The ban and disconnect accounts hold exactly what the statuses say, after
\* any sequence of penalties, dials, connections, epochs and prunings: a
\* charge is held for each banned peer and for nobody else, each ip's count is
\* the sum of the charges, and disconnected_peers, the hand-maintained counter
\* prune_disconnected_peers asserts on, counts the disconnected peers.
Conserved ==
  /\ pm.charged = In(pm, {"Banned"})
  /\ \A i \in Ip : pm.byIp[i] = MapThenSumSet(LAMBDA p : pm.charge[p][i], pm.charged)
  /\ pm.disconnected = Cardinality(In(pm, {"Disconnected"}))

\* Once the network layer has drained the events, gossipsub's blacklist is the
\* set of banned peers, up to two exceptions the code makes: a temporary ban
\* that expires announces an unban for a peer still banned (`early'), and a
\* dial or a connection that lifts a ban never announces it (`silenced').
BlacklistFollows ==
  pm.events = <<>> => blacklist = (In(pm, {"Banned"}) \ pm.early) \union pm.silenced

\* A ban, carried out or pending on a disconnect, always has its cause: the
\* peer's score is below the ban threshold (so that decay can lift it) and it
\* is not seated on the committee.  The exception (`late') is a member whose
\* record arrives while its ban is pending: add_known_peer releases only bans
\* already carried out.
BanHasCause ==
  \A p \in In(pm, {"Banned", "Condemned"}) \ pm.late :
    pm.peers[p].rep = "bad" /\ ~pm.peers[p].trusted /\ p \notin pm.seated

\* Whoever waits for a dial has a dial in flight: no caller of
\* register_dial_attempt is left without an answer, whatever connects, closes,
\* times out or is banned meanwhile (every dial ends, and its end answers).
WaiterHasDial == pm.pending \subseteq dialing

=============================================================================
