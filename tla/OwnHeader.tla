------------------------------ MODULE OwnHeader ------------------------------
(***************************************************************************)
(* The headers of one authority in one epoch, from the digests of its      *)
(* batches to its certificates: the proposer (primary/src/proposer), the   *)
(* certifier (certifier.rs), the store behind both, and what they see of   *)
(* the rest of the node: parents from the certificate manager and commits  *)
(* from consensus.                                                         *)
(*                                                                         *)
(* The timers of the proposer, its backpressure and the leader it hopes    *)
(* for only delay a proposal, so that when it proposes is left open: it    *)
(* may propose whenever it has parents.  Which peers vote is left open     *)
(* too; that they never vote for two headers of one round is what          *)
(* Certification shows.                                                    *)
(***************************************************************************)
EXTENDS Integers, Sequences, FiniteSets, FiniteSetsExt

CONSTANTS Digest,       \* batch digests
          Signers,      \* quorums that may sign a certificate, as sets of signers
          GcDepth,
          Grace,        \* FALLBACK_REQUEUE_GRACE_ROUNDS
          MaxBatches,   \* max_header_num_of_batches
          MaxRound,     \* rounds of the epoch,
          MaxUnflushed, \* writes the process can lose when it dies,
          MaxQueue,     \* messages in a channel,
          MaxLead,      \* rounds the others are ahead of the proposer,
          MaxStops,     \* and restarts and crashes in the model
          Lossy         \* the process may die with writes not applied

ASSUME BoundAssumption ==
    {GcDepth, Grace, MaxBatches, MaxRound, MaxUnflushed, MaxQueue, MaxLead, MaxStops} \subseteq Nat
ASSUME LossyAssumption == Lossy \in BOOLEAN
ASSUME SignersAssumption == {} \notin Signers

VARIABLES
    snaps,      \* the store after each of the last writes
    round,      \* Proposer: its round,
    parents,    \* last_parents is not empty,
    digests,    \* digests waiting for a header,
    proposed,   \* proposed_headers: those not known to be committed,
    pending,    \* and the header its task has stored and sent
    parentsQ, commitQ,   \* channels of the consensus bus
         \* committed_round_updates
    inflight,   \* Certifier: the header it gathers votes for, then its certificate,
    managerQ,   \* and those on their way to the certificate manager
    stops       \* restarts and crashes so far

\* History.
VARIABLES
    acked,      \* digests taken, with the life of the proposer that took them
    sent,       \* headers handed to the certifier
    minted,     \* headers for which a quorum voted
    known,      \* own certificates stored or published
    outputs,    \* the commits of the network and the own headers in them
    retired,    \* headers whose digests were requeued for good
    lost,       \* headers and certificates whose write died with the process
    rewound     \* the proposer was started at genesis with a later header stored

proposerVars == <<round, parents, digests, proposed, pending>>
certifierVars == <<inflight, managerQ, minted, known>>
vars == <<snaps, proposerVars, parentsQ, commitQ, certifierVars, stops,
          acked, sent, outputs, retired, lost, rewound>>

\* What two headers of one round differ in besides the payload (the parents,
\* the time, the executed block) is the number n of the header.
Header(r, payload, n) == [round |-> r, payload |-> payload, n |-> n]
NoHeader == Header(0, <<>>, 0)
Certificate(h, s) == [header |-> h, signers |-> s]
NoProposal == Certificate(NoHeader, {})

\* last: LastProposed; certs: own certificates; top: the last round of which a
\* quorum is stored; commit, own: the last committed leader round, and the last
\* committed round of this authority.
store == snaps[Len(snaps)]
committed_round == store.commit
Fresh == [last |-> NoHeader, certs |-> {}, top |-> 0, commit |-> 0, own |-> 0]
Write(s) ==
    LET all == Append(snaps, s)
    IN snaps' = SubSeq(all, Max({1, Len(all) - MaxUnflushed}), Len(all))
IsCertified(h) == \E c \in store.certs : c.header = h

(***************************************************************************)
(* The proposer.                                                           *)
(***************************************************************************)
push_digest(d) ==
    /\ \A life \in 0..MaxStops : <<d, life>> \notin acked
    /\ acked' = acked \cup {<<d, stops>>}
    /\ digests' = Append(digests, d)
    /\ UNCHANGED <<snaps, round, parents, proposed, pending, parentsQ, commitQ, 
                   certifierVars, stops, sent, outputs, retired, lost, rewound>>

process_parents ==
    /\ parentsQ # <<>> /\ parentsQ' = Tail(parentsQ)
    /\ LET r == Head(parentsQ) IN
       /\ round' = Max({round, r})
       /\ parents' = (parents \/ r >= round)
    /\ UNCHANGED <<snaps, digests, proposed, pending, commitQ,
                   certifierVars, stops, acked, sent, outputs, retired, lost, rewound>>

\* proposed_headers has one header for a round.
PayloadOf(hs, r) ==
    IF \E h \in hs : h.round = r THEN (CHOOSE h \in hs : h.round = r).payload ELSE <<>>

\* requeue_front: the payloads of the headers, in the order of their rounds, in
\* front of what is queued.
requeue_front(hs) ==
    LET upto[r \in Nat] == IF r = 0 THEN <<>> ELSE upto[r - 1] \o PayloadOf(hs, r)
    IN upto[MaxRound] \o digests

\* Mutant: old headers are dropped with their digests.
DropUncommitted ==
    /\ commitQ # <<>> /\ commitQ' = Tail(commitQ)
    /\ LET own == Head(commitQ).own
           left == {h \in proposed : h.round \notin own}
       IN proposed' = {h \in left : h.round >= Max(own \cup {0})}
    /\ UNCHANGED <<snaps, round, parents, digests, pending, parentsQ, certifierVars,
                   stops, acked, sent, outputs, retired, lost, rewound>>

process_committed_headers ==
    /\ commitQ # <<>> /\ commitQ' = Tail(commitQ)
    /\ LET own     == Head(commitQ).own
           left    == {h \in proposed : h.round \notin own}
           horizon == IF own = {} THEN Head(commitQ).round - Grace ELSE Max(own)
           resend  == {h \in left : h.round < horizon}
       IN /\ proposed' = left \ resend
          /\ digests' = requeue_front(resend)
          /\ retired' = IF own = {} THEN retired ELSE retired \cup resend
    /\ UNCHANGED <<snaps, round, parents, pending, parentsQ, certifierVars,
                   stops, acked, sent, outputs, lost, rewound>>

\* Mutant: the certifier does not look into the certificate store.
SendUnlessInFlight(h) ==
    /\ Write([store EXCEPT !.last = h])
    /\ pending' = h
    /\ sent' = sent \cup {h}
    /\ inflight' = IF inflight.header = h THEN inflight ELSE Certificate(h, {})
    /\ UNCHANGED <<proposed, parentsQ, commitQ, managerQ, minted, known, stops,
                   acked, outputs, retired, lost, rewound>>

\* store_and_send_header, and the certifier's run at the other end of the
\* channel: a header that is being certified or has a certificate is skipped,
\* any other one aborts the task in flight.
store_and_send_header(h) ==
    /\ Write([store EXCEPT !.last = h])
    /\ pending' = h
    /\ sent' = sent \cup {h}
    /\ inflight' = IF inflight.header = h \/ IsCertified(h) THEN inflight
                   ELSE Certificate(h, {})
    /\ UNCHANGED <<proposed, parentsQ, commitQ, managerQ, minted, known, stops,
                   acked, outputs, retired, lost, rewound>>

\* A header stored for the new round is proposed again.
propose_next_header ==
    /\ pending = NoHeader /\ parents /\ round < MaxRound
    /\ round' = round + 1
    /\ parents' = FALSE
    /\ LET k == Min({Len(digests), MaxBatches})
           n == 1 + Cardinality({h \in sent : h.round = round + 1})
       IN IF store.last.round = round + 1
          THEN store_and_send_header(store.last) /\ UNCHANGED digests
          ELSE /\ store_and_send_header(Header(round + 1, SubSeq(digests, 1, k), n))
               /\ digests' = SubSeq(digests, k + 1, Len(digests))

last_proposed_is_stale == store.last.round < round

\* The max delay passed and there are no parents.
repropose_header ==
    /\ pending = NoHeader /\ ~parents
    /\ store.last # NoHeader /\ ~last_proposed_is_stale
    /\ store_and_send_header(store.last)
    /\ UNCHANGED <<round, parents, digests>>

\* Mutant: the horizon follows the round of the proposer.
EvictedByOwnRound(hs) == {h \in hs : h.round <= round - GcDepth}

\* evict_old_proposed_headers
Evicted(hs) == {h \in hs : h.round <= committed_round - GcDepth}

handle_proposal_result ==
    /\ pending # NoHeader /\ pending' = NoHeader
    /\ LET hs  == {h \in proposed : h.round # pending.round} \cup {pending}
           old == Evicted(hs)
       IN /\ proposed' = hs \ old
          /\ digests' = requeue_front(old)
          /\ retired' = retired \cup old
    /\ UNCHANGED <<snaps, round, parents, parentsQ, commitQ, certifierVars,
                   stops, acked, sent, outputs, lost, rewound>>

Proposer ==
    \/ \E d \in Digest : push_digest(d)
    \/ process_parents \/ process_committed_headers \/ propose_next_header
    \/ repropose_header \/ handle_proposal_result

(***************************************************************************)
(* The certifier.                                                          *)
(***************************************************************************)
\* propose_header gathered a quorum.  Peers vote for one header a round.
Certify(s) ==
    /\ inflight # NoProposal /\ inflight.signers = {}
    /\ \A h \in minted : h.round = inflight.header.round => h = inflight.header
    /\ LET c == Certificate(inflight.header, s) IN
       /\ minted' = minted \cup {c.header}
       /\ IF IsCertified(c.header)
          THEN /\ inflight' = NoProposal /\ known' = known \cup {c}
               /\ UNCHANGED managerQ
          ELSE /\ inflight' = c /\ managerQ' = Append(managerQ, c)
               /\ UNCHANGED known
    /\ UNCHANGED <<snaps, proposerVars, parentsQ, commitQ, stops,
                   acked, sent, outputs, retired, lost, rewound>>

\* propose_header ran out of peers or met an error that ends the proposal.
GiveUp ==
    /\ inflight # NoProposal /\ inflight.signers = {}
    /\ inflight' = NoProposal
    /\ UNCHANGED <<snaps, proposerVars, parentsQ, commitQ, managerQ, minted,
                   known, stops, acked, sent, outputs, retired, lost, rewound>>

\* The certificate manager stores the certificate, then answers, and the task
\* in flight publishes it and is finished.
ProcessOwnCertificate ==
    /\ managerQ # <<>> /\ managerQ' = Tail(managerQ)
    /\ LET c == Head(managerQ) IN
       /\ IF IsCertified(c.header) THEN UNCHANGED snaps
          ELSE Write([store EXCEPT !.certs = @ \cup {c}])
       /\ known' = IF IsCertified(c.header) /\ inflight # c THEN known ELSE known \cup {c}
       /\ inflight' = IF inflight = c THEN NoProposal ELSE inflight
    /\ UNCHANGED <<proposerVars, parentsQ, commitQ, minted, stops,
                   acked, sent, outputs, retired, lost, rewound>>

Certifier ==
    \/ GiveUp \/ ProcessOwnCertificate
    \/ \E s \in Signers : Certify(s)

(***************************************************************************)
(* The rest of the node.                                                   *)
(***************************************************************************)
\* An own certificate comes back from a peer.
PeerCertificate(c) ==
    /\ ~IsCertified(c.header)
    /\ Write([store EXCEPT !.certs = @ \cup {c}])
    /\ UNCHANGED <<proposerVars, parentsQ, commitQ, certifierVars, stops,
                   acked, sent, outputs, retired, lost, rewound>>

\* The certificates of a quorum are stored, and then sent to the proposer.
Quorum ==
    /\ store.top < Min({MaxRound, round + MaxLead}) /\ Len(parentsQ) < MaxQueue
    /\ Write([store EXCEPT !.top = @ + 1])
    /\ parentsQ' = Append(parentsQ, store.top + 1)
    /\ UNCHANGED <<proposerVars, commitQ, certifierVars, stops,
                   acked, sent, outputs, retired, lost, rewound>>

\* Own certificates that a commit with leaders up to round r may order.
Orderable(r) ==
    {c.header : c \in {d \in store.certs :
        /\ d.header.round > store.own
        /\ \E q \in store.commit + 1 .. r :
              q % 2 = 0 /\ q - GcDepth < d.header.round /\ d.header.round <= q}}

\* All nodes commit the same: what is already an output is committed again.
Agreed(o) ==
    LET later == {p \in outputs : p.round > store.commit} IN
    later # {} => o \in later /\ \A p \in later : o.round <= p.round

\* Consensus commits, the commit is saved, the rounds are published and
\* handle_sequenced tells the proposer.
Commit(r, own) ==
    /\ r % 2 = 0 /\ store.commit < r /\ r <= store.top /\ Len(commitQ) < MaxQueue
    /\ own \subseteq Orderable(r)
    /\ Agreed([round |-> r, own |-> own])
    /\ outputs' = outputs \cup {[round |-> r, own |-> own]}
    /\ Write([store EXCEPT !.commit = r,
                           !.own = Max({@} \cup {h.round : h \in own})])
    /\ commitQ' = Append(commitQ, [round |-> r, own |-> {h.round : h \in own}])
    /\ UNCHANGED <<proposerVars, parentsQ, certifierVars, stops,
                   acked, sent, retired, lost, rewound>>

\* The tasks of the epoch start on the store s: prime_consensus and
\* Consensus::spawn publish the committed round, recover_state sends the parents
\* it finds, the certifier publishes its last certificate, and Proposer::new
\* takes its round from the committed round.
Start(s) ==
    /\ round' = s.commit
    /\ parents' = (s.commit = 0)
    /\ digests' = <<>> /\ proposed' = {} /\ pending' = NoHeader
    /\ parentsQ' = IF s.top = 0 THEN <<>> ELSE <<s.top>>
    /\ commitQ' = <<>> /\ managerQ' = <<>>
    /\ inflight' = NoProposal

Stopped(s) ==
    /\ stops < MaxStops /\ stops' = stops + 1
    /\ rewound' = (rewound \/ (s.commit = 0 /\ s.last.round > 1))
    /\ UNCHANGED <<minted, known, acked, sent, outputs, retired>>

\* A mode transition or an orderly restart.
Restart == Start(store) /\ Stopped(store) /\ UNCHANGED <<snaps, lost>>

\* The process dies and the store loses the writes after the k-th.
Crash(k) ==
    /\ Lossy
    /\ Start(snaps[k]) /\ Stopped(snaps[k])
    /\ snaps' = SubSeq(snaps, 1, k)
    /\ lost' = lost \cup ({snaps[i].last : i \in k..Len(snaps)} \ {snaps[k].last})
                   \cup (store.certs \ snaps[k].certs)

Node ==
    \/ \E k \in 1 .. Len(snaps) - 1 : Crash(k)
    \/ \E c \in known : PeerCertificate(c)
    \/ Quorum \/ Restart
    \/ \E r \in 1..MaxRound : \E own \in SUBSET Orderable(r) : Commit(r, own)

Init ==
    /\ snaps = <<Fresh>>
    /\ round = 0 /\ parents = TRUE /\ digests = <<>> /\ proposed = {} /\ pending = NoHeader
    /\ parentsQ = <<>> /\ commitQ = <<>>
    /\ inflight = NoProposal /\ managerQ = <<>> /\ minted = {} /\ known = {}
    /\ stops = 0 /\ acked = {} /\ sent = {} /\ outputs = {} /\ retired = {} /\ lost = {}
    /\ rewound = FALSE

Next == Proposer \/ Certifier \/ Node
Spec == Init /\ [][Next]_vars

(***************************************************************************)
(* Properties.                                                             *)
(***************************************************************************)
Round == 0..MaxRound
delivered == UNION {o.own : o \in outputs}
Twins(g, h) == g # h /\ g.round = h.round

\* The proposer sends one header per round and its header gets one certificate,
\* unless the write of one of them (LastProposed, or a certificate) died with the
\* process; a proposer started at genesis although it had proposed later rounds
\* may also send a second header (propose_next_header reads LastProposed, which
\* store_and_send_header writes before the header leaves; the certifier looks the
\* header up in the store, and a task is finished only when the manager has
\* stored its certificate).  The lost certificate need not be one of the two: a
\* third may have been stored between them, come back from a peer, and died again.
OnceUnlessLost ==
    /\ \A g, h \in sent : Twins(g, h) => rewound \/ g \in lost \/ h \in lost
    /\ \A b, c \in known : b.header = c.header /\ b # c =>
          \E d \in known \cap lost : d.header = b.header

\* A digest the proposer acknowledged is queued, in a header that may still
\* commit, or committed, as long as the proposer runs: no commit, eviction or
\* jump ahead drops it.  The exception is a round with two headers, where the
\* commit of one takes the other one for committed.
DigestsKept ==
    \A d \in Digest : <<d, stops>> \in acked =>
        \/ d \in Range(digests)
        \/ \E h \in proposed \cup {pending} \cup delivered : d \in Range(h.payload)
        \/ \E g, h \in sent : Twins(g, h) /\ d \in Range(h.payload)

\* A header whose digests were requeued below an own commit or below the gc
\* horizon does not commit later (process_committed_headers calls the first
\* airtight, evict_old_proposed_headers says it cannot double-commit).
RequeuedForGood ==
    [][(UNION {o.own : o \in outputs'}) \cap retired \subseteq delivered]_vars
=============================================================================
