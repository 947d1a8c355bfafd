----------------------------- MODULE VoteHandler -----------------------------
(***************************************************************************)
(* The vote path of one primary (consensus/primary/src/network/handler.rs  *)
(* and network/state.rs): every vote request of a peer is a task of its    *)
(* own on a multi-threaded runtime.  A task first consults the per-author  *)
(* cache under its mutex (check_equivocation), then runs vote_inner, whose *)
(* last part reads the stored vote of the author, decides and writes the   *)
(* new vote without awaiting, and finally stores its answer in the cache   *)
(* (InFlightGuard::complete).  A cancelled task only drops its guard.      *)
(*                                                                         *)
(* The vote store is write-behind: a written vote is readable at once and  *)
(* durable when the background writer has applied it.                      *)
(*                                                                         *)
(* One epoch: header.validate refuses a header of another epoch, and the   *)
(* table of votes is cleared between epochs.                               *)
(***************************************************************************)
EXTENDS Naturals, Sequences

CONSTANTS Author,    \* authors of the headers this node is asked to vote for
          Round,     \* rounds of those headers
          Digest,    \* digests of those headers
          Task,      \* identities of the concurrently running vote tasks
          None       \* neither an author nor a digest

ASSUME RoundAssumption == Round \subseteq Nat \ {0}
ASSUME NoneAssumption == None \notin Digest

VARIABLES cache,     \* auth_last_vote: the AuthVoteState of each author
          task,      \* the vote tasks
          voteInfo,  \* the Votes table as this process reads it
          disk,      \* the Votes table as it would be found after a crash
          wqueue,    \* writes the store's background writer has not applied
          issued,    \* every vote ever signed (history)
          past       \* what has happened that the code does not guard against
                     \* (history): "raced", two tasks of one author decided at
                     \* once; "lost", a crash lost a vote not yet applied

vars == <<cache, task, voteInfo, disk, wqueue, issued, past>>

Response == {"Vote", "MissingParents", "RecoverableError", "Error"}

\* VoteInfo of an author; round 0 stands for "no row": round 0 is genesis and
\* vote_inner refuses a header of round 0.
VoteInfo == [round : Nat, digest : Digest \cup {None}]
NoVote   == [round |-> 0, digest |-> None]

\* An entry of the cache.  "Absent" stands for no entry, expired for an
\* InFlight entry older than IN_FLIGHT_TTL.
CacheEntry == [st : {"Absent", "InFlight", "Completed"}, round : Nat,
               digest : Digest \cup {None},
               resp : Response \cup {"NoResponse"}, expired : BOOLEAN]

Absent == [st |-> "Absent", round |-> 0, digest |-> None,
           resp |-> "NoResponse", expired |-> FALSE]

InFlight(r, d) == [st |-> "InFlight", round |-> r, digest |-> d,
                   resp |-> "NoResponse", expired |-> FALSE]

Completed(r, d, resp) == [st |-> "Completed", round |-> r, digest |-> d,
                          resp |-> resp, expired |-> FALSE]

\* A task is idle, validating (up to the read of the stored vote) or deciding
\* (it has read the stored vote `seen' and has not yet acted on it).
TaskState == [pc : {"idle", "validating", "deciding"},
              author : Author \cup {None}, round : Nat,
              digest : Digest \cup {None}, seen : VoteInfo]

Idle == [pc |-> "idle", author |-> None, round |-> 0,
         digest |-> None, seen |-> NoVote]

Ballot(a, r, d) == [author |-> a, round |-> r, digest |-> d]

TypeOK ==
    /\ cache \in [Author -> CacheEntry]
    /\ task \in [Task -> TaskState]
    /\ voteInfo \in [Author -> VoteInfo]
    /\ disk \in [Author -> VoteInfo]
    /\ wqueue \in Seq([author : Author, info : VoteInfo])
    /\ issued \subseteq [author : Author, round : Round, digest : Digest]
    /\ past \subseteq {"raced", "lost"}

Init ==
    /\ cache = [a \in Author |-> Absent]
    /\ task = [t \in Task |-> Idle]
    /\ voteInfo = [a \in Author |-> NoVote]
    /\ disk = [a \in Author |-> NoVote]
    /\ wqueue = <<>>
    /\ issued = {}
    /\ past = {}

-----------------------------------------------------------------------------
(* check_equivocation: does a request of header (a, r, d) reach vote_inner? *)
(* withParents: the request carries the parents asked for before.  A digest *)
(* stands for a header of its author and round, so headers of two rounds    *)
(* have different digests.                                                  *)

SupersedesInFlight(e, r) == r > e.round \/ e.expired

SameDigestReprocess(e, withParents) ==
    \/ e.resp \in {"NoResponse", "RecoverableError"}
    \/ e.resp = "MissingParents" /\ withParents

MayProceed(a, r, d, withParents) ==
    LET e == cache[a] IN
    \/ e.st = "Absent"
    \/ e.st = "InFlight" /\ SupersedesInFlight(e, r)
    \/ e.st = "Completed" /\ IF e.round = r /\ e.digest = d
                             THEN SameDigestReprocess(e, withParents)
                             ELSE e.round < r

\* A request that falls through marks the author in flight and starts the task.
Request(t, a, r, d, withParents) ==
    /\ task[t].pc = "idle"
    /\ MayProceed(a, r, d, withParents)
    /\ cache' = [cache EXCEPT ![a] = InFlight(r, d)]
    /\ task' = [task EXCEPT ![t] = [pc |-> "validating", author |-> a,
                                    round |-> r, digest |-> d, seen |-> NoVote]]
    /\ UNCHANGED <<voteInfo, disk, wqueue, issued, past>>

\* A request answered from the cache sends the vote signed before once more.
ReplyCachedVote(a) ==
    /\ cache[a].st = "Completed" /\ cache[a].resp = "Vote"
    /\ issued' = issued \cup {Ballot(a, cache[a].round, cache[a].digest)}
    /\ UNCHANGED <<cache, task, voteInfo, disk, wqueue, past>>

-----------------------------------------------------------------------------
(* InFlightGuard::complete followed by cleanup_auth_last_vote, which evicts *)
(* the in-flight entries of any author that outlived their TTL.             *)

EvictExpired(c) ==
    [a \in Author |-> IF c[a].st = "InFlight" /\ c[a].expired
                      THEN Absent ELSE c[a]]

CompleteGuard(c, a, r, d, resp) ==
    IF c[a].round > r THEN c ELSE [c EXCEPT ![a] = Completed(r, d, resp)]

Finish(t, resp) ==
    LET x == task[t] IN
    /\ cache' = EvictExpired(CompleteGuard(cache, x.author, x.round, x.digest, resp))
    /\ task' = [task EXCEPT ![t] = Idle]

\* vote_inner ends before the stored vote is read: the header is invalid, too
\* old or too new, its execution anchor forked, parents are missing or do not
\* reach a quorum, its batches did not arrive, its timestamp is ahead.
EndEarly(t, resp) ==
    /\ task[t].pc = "validating"
    /\ resp # "Vote"
    /\ Finish(t, resp)
    /\ UNCHANGED <<voteInfo, disk, wqueue, issued, past>>

\* read_vote_info.  Nothing keeps two tasks of one author from being here at
\* once: the cache lets a request pass an expired or an older one in flight.
ReadVoteInfo(t) ==
    /\ task[t].pc = "validating"
    /\ past' = IF \E u \in Task : task[u].pc = "deciding" /\ task[u].author = task[t].author
               THEN past \cup {"raced"} ELSE past
    /\ task' = [task EXCEPT ![t].pc = "deciding",
                            ![t].seen = voteInfo[task[t].author]]
    /\ UNCHANGED <<cache, voteInfo, disk, wqueue, issued>>

\* The stored vote is of a later round, or of this round and another header.
RefuseVote(t) ==
    LET x == task[t] IN
    /\ x.pc = "deciding"
    /\ \/ x.round < x.seen.round
       \/ x.round = x.seen.round /\ x.digest # x.seen.digest
    /\ Finish(t, "Error")
    /\ UNCHANGED <<voteInfo, disk, wqueue, issued, past>>

\* The stored vote is this very vote: it is returned and nothing is written.
RepeatVote(t) ==
    LET x == task[t] IN
    /\ x.pc = "deciding"
    /\ x.round = x.seen.round /\ x.digest = x.seen.digest
    /\ issued' = issued \cup {Ballot(x.author, x.round, x.digest)}
    /\ Finish(t, "Vote")
    /\ UNCHANGED <<voteInfo, disk, wqueue, past>>

\* Mutant: the vote is written whenever it differs from the stored one.
WriteVoteUnlessSame(t) ==
    LET x    == task[t]
        info == [round |-> x.round, digest |-> x.digest]
    IN
    /\ x.pc = "deciding"
    /\ info # x.seen
    /\ voteInfo' = [voteInfo EXCEPT ![x.author] = info]
    /\ wqueue' = Append(wqueue, [author |-> x.author, info |-> info])
    /\ issued' = issued \cup {Ballot(x.author, x.round, x.digest)}
    /\ Finish(t, "Vote")
    /\ UNCHANGED <<disk, past>>

\* Mutant: the vote is signed and returned without being stored.
WriteVoteForgets(t) ==
    /\ task[t].pc = "deciding"
    /\ task[t].round > task[t].seen.round
    /\ issued' = issued \cup {Ballot(task[t].author, task[t].round, task[t].digest)}
    /\ Finish(t, "Vote")
    /\ UNCHANGED <<voteInfo, disk, wqueue, past>>

\* A first vote of the author in a later round: write_vote, then answer.
WriteVote(t) ==
    LET x    == task[t]
        info == [round |-> x.round, digest |-> x.digest]
    IN
    /\ x.pc = "deciding"
    /\ x.round > x.seen.round
    /\ voteInfo' = [voteInfo EXCEPT ![x.author] = info]
    /\ wqueue' = Append(wqueue, [author |-> x.author, info |-> info])
    /\ issued' = issued \cup {Ballot(x.author, x.round, x.digest)}
    /\ Finish(t, "Vote")
    /\ UNCHANGED <<disk, past>>

\* Mutant: the dropped guard leaves its in-flight entry behind.
CancelKeepsEntry(t) ==
    /\ task[t].pc = "validating"
    /\ task' = [task EXCEPT ![t] = Idle]
    /\ UNCHANGED <<cache, voteInfo, disk, wqueue, issued, past>>

\* The network layer cancels the request while vote_inner awaits: the guard is
\* dropped and evicts the entry if it is still in flight with the same round.
Cancel(t) ==
    LET x == task[t]
        e == cache[x.author]
    IN
    /\ x.pc = "validating"
    /\ cache' = IF e.st = "InFlight" /\ e.round = x.round
                THEN [cache EXCEPT ![x.author] = Absent] ELSE cache
    /\ task' = [task EXCEPT ![t] = Idle]
    /\ UNCHANGED <<voteInfo, disk, wqueue, issued, past>>

\* Time passes: the in-flight entry of a is older than IN_FLIGHT_TTL.
Expire(a) ==
    /\ cache[a].st = "InFlight" /\ ~cache[a].expired
    /\ cache' = [cache EXCEPT ![a].expired = TRUE]
    /\ UNCHANGED <<task, voteInfo, disk, wqueue, issued, past>>

-----------------------------------------------------------------------------
(* The background writer of the store, and the two ways a process ends.     *)

ApplyWrite ==
    /\ wqueue # <<>>
    /\ disk' = [disk EXCEPT ![Head(wqueue).author] = Head(wqueue).info]
    /\ wqueue' = Tail(wqueue)
    /\ UNCHANGED <<cache, task, voteInfo, issued, past>>

\* The process ends and starts again: the writes not yet applied are gone, the
\* cache and the tasks with them.  An orderly stop drains the queue first.
Restart ==
    /\ cache' = [a \in Author |-> Absent]
    /\ task' = [t \in Task |-> Idle]
    /\ voteInfo' = disk
    /\ wqueue' = <<>>
    /\ past' = IF wqueue # <<>> THEN past \cup {"lost"} ELSE past
    /\ UNCHANGED <<disk, issued>>

-----------------------------------------------------------------------------
TaskStep(t) ==
    \/ \E a \in Author, r \in Round, d \in Digest, p \in BOOLEAN : Request(t, a, r, d, p)
    \/ \E resp \in Response : EndEarly(t, resp)
    \/ ReadVoteInfo(t)
    \/ RefuseVote(t)
    \/ RepeatVote(t)
    \/ WriteVote(t)
    \/ Cancel(t)

Next ==
    \/ \E t \in Task : TaskStep(t)
    \/ \E a \in Author : ReplyCachedVote(a) \/ Expire(a)
    \/ ApplyWrite
    \/ Restart

Spec == Init /\ [][Next]_vars

-----------------------------------------------------------------------------
(* Properties.                                                              *)

OneBallot ==
    \A v, w \in issued : v.author = w.author /\ v.round = w.round => v = w

\* The node never signs two different headers of one author in one round,
\* unless two tasks of the author decided at once or a crash lost a vote that
\* was already answered (the check of the stored vote in vote_inner).
VoteOnce == past # {} \/ OneBallot

\* An entry in flight belongs to a task that is still running for that author
\* and round, so no author is blocked by an entry nobody will complete.
NoOrphanInFlight ==
    \A a \in Author : cache[a].st = "InFlight" =>
        \E t \in Task : /\ task[t].pc # "idle"
                        /\ task[t].author = a
                        /\ task[t].round = cache[a].round

\* What the process reads is what a crash would leave once the queued writes
\* are applied in order: the writer of the store drops and reorders nothing,
\* whatever tasks race and whenever the process crashes.
ReadYourWrites ==
    \A a \in Author :
        /\ (\A i \in DOMAIN wqueue : wqueue[i].author # a) => disk[a] = voteInfo[a]
        /\ \A i \in DOMAIN wqueue :
              wqueue[i].author = a /\ (\A j \in DOMAIN wqueue : j > i => wqueue[j].author # a)
                => wqueue[i].info = voteInfo[a]

\* The handler implements the ledger, across tasks and restarts, up to the
\* first overlap or lost vote: until then every vote it signs is one the ledger
\* allows.
Ledger == INSTANCE VoteLedger
LedgerSpec == Ledger!Init /\ [][past' # {} \/ Ledger!Next]_issued
=============================================================================
