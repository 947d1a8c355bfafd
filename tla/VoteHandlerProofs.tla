-------------------------- MODULE VoteHandlerProofs --------------------------
(***************************************************************************)
(* For any authors, rounds, digests and number of concurrent vote tasks:   *)
(* until two tasks of one author decide at once or a crash loses a queued  *)
(* vote (past), the handler votes once per author and round.               *)
(*                                                                         *)
(* The inductive invariant says why: a task that has read the stored vote  *)
(* still sees the current one (SeenCurrent, which needs that no other task *)
(* of the author decides at the same time), the stored vote is the highest *)
(* one signed for the author (StoredIsHighest), a cached vote was signed   *)
(* (CachedSigned), and the disk plus the queued writes is what the process *)
(* reads (ReadYourWrites), so a restart that loses nothing forgets nothing.*)
(***************************************************************************)
EXTENDS VoteHandler, TLAPS

StoredIsHighest ==
    \A v \in issued : \/ v.round < voteInfo[v.author].round
                      \/ /\ v.round = voteInfo[v.author].round
                         /\ v.digest = voteInfo[v.author].digest

SeenCurrent ==
    \A t \in Task : task[t].pc = "deciding" =>
        /\ task[t].seen = voteInfo[task[t].author]
        /\ \A u \in Task : task[u].pc = "deciding" /\ task[u].author = task[t].author
                              => u = t

ActiveTyped ==
    \A t \in Task : task[t].pc # "idle" =>
        task[t].author \in Author /\ task[t].round \in Round /\ task[t].digest \in Digest

CachedTyped ==
    \A a \in Author : cache[a].st = "Completed" =>
        cache[a].round \in Round /\ cache[a].digest \in Digest

CachedSigned ==
    \A a \in Author : cache[a].st = "Completed" /\ cache[a].resp = "Vote" =>
        Ballot(a, cache[a].round, cache[a].digest) \in issued

Typed == TypeOK /\ ActiveTyped /\ CachedTyped

IInv ==
    /\ StoredIsHighest
    /\ SeenCurrent
    /\ CachedSigned
    /\ ReadYourWrites
    /\ OneBallot

Undisturbed == past # {} \/ IInv

-----------------------------------------------------------------------------
\* The head and the rest of a queue: their types and their elements.
LEMMA HeadTail ==
    ASSUME NEW S, NEW q \in Seq(S), q # <<>>
    PROVE  /\ Head(q) \in S /\ Tail(q) \in Seq(S)
           /\ Len(q) \in Nat /\ Len(q) > 0 /\ DOMAIN q = 1 .. Len(q)
           /\ Head(q) = q[1]
           /\ DOMAIN Tail(q) = 1 .. (Len(q) - 1)
           /\ \A i \in 1 .. (Len(q) - 1) : Tail(q)[i] = q[i + 1]
OBVIOUS

\* InFlightGuard::complete and the cleanup after it keep the cache well typed
\* and end the task.
LEMMA FinishType ==
    ASSUME TypeOK, ActiveTyped, NEW t \in Task, task[t].pc # "idle",
           NEW resp \in Response, Finish(t, resp)
    PROVE  /\ cache' \in [Author -> CacheEntry]
           /\ task' = [task EXCEPT ![t] = Idle]
           /\ task' \in [Task -> TaskState]
<1>1. CompleteGuard(cache, task[t].author, task[t].round, task[t].digest, resp)
        \in [Author -> CacheEntry]
  BY RoundAssumption DEF TypeOK, ActiveTyped, CompleteGuard, Completed, CacheEntry, TaskState
<1>2. \A c \in [Author -> CacheEntry] : EvictExpired(c) \in [Author -> CacheEntry]
  BY DEF EvictExpired, CacheEntry, Absent
<1>3. Idle \in TaskState
  BY DEF Idle, TaskState, NoVote, VoteInfo
<1> QED BY <1>1, <1>2, <1>3 DEF Finish, TypeOK

\* A completed entry after Finish is either the task's own answer or was there.
LEMMA FinishCompleted ==
    ASSUME TypeOK, ActiveTyped, NEW t \in Task, task[t].pc # "idle",
           NEW resp \in Response, Finish(t, resp), NEW a \in Author,
           cache'[a].st = "Completed"
    PROVE  \/ cache'[a] = cache[a]
           \/ a = task[t].author /\ cache'[a] = Completed(task[t].round, task[t].digest, resp)
<1> DEFINE c == CompleteGuard(cache, task[t].author, task[t].round, task[t].digest, resp)
<1>1. c[a] = cache[a] \/ (a = task[t].author /\ c[a] = Completed(task[t].round, task[t].digest, resp))
  BY DEF TypeOK, CompleteGuard
<1>2. cache'[a] = Absent \/ cache'[a] = c[a]
  BY DEF Finish, EvictExpired
<1> QED BY <1>1, <1>2 DEF Absent

-----------------------------------------------------------------------------
\* Type correctness of the handler, whatever the tasks and crashes do.
THEOREM TypeCorrect == Spec => []Typed
<1> DEFINE T == TypeOK /\ ActiveTyped /\ CachedTyped
<1>1. Init => T
  BY DEF Init, TypeOK, ActiveTyped, CachedTyped, Absent, CacheEntry, Idle, TaskState, NoVote, VoteInfo
<1>2. T /\ [Next]_vars => T'
  <2> SUFFICES ASSUME T, [Next]_vars PROVE T'
    OBVIOUS
  <2> USE RoundAssumption
  <2>0. Idle \in TaskState /\ Absent \in CacheEntry /\ NoVote \in VoteInfo
    BY DEF Idle, TaskState, NoVote, VoteInfo, Absent, CacheEntry
  <2>1. ASSUME NEW t \in Task, NEW a \in Author, NEW r \in Round, NEW d \in Digest,
               NEW p \in BOOLEAN, Request(t, a, r, d, p)
        PROVE T'
    <3>1. InFlight(r, d) \in CacheEntry /\ InFlight(r, d).st = "InFlight"
      BY DEF InFlight, CacheEntry
    <3>2. TypeOK'
      BY <2>1, <2>0, <3>1 DEF Request, TypeOK, TaskState
    <3>3. ActiveTyped'
      BY <2>1 DEF Request, TypeOK, ActiveTyped
    <3>4. CachedTyped'
      BY <2>1, <3>1 DEF Request, TypeOK, CachedTyped
    <3> QED BY <3>2, <3>3, <3>4
  <2>f. ASSUME NEW t \in Task, task[t].pc # "idle", NEW resp \in Response, Finish(t, resp)
        PROVE  /\ cache' \in [Author -> CacheEntry] /\ task' \in [Task -> TaskState]
               /\ ActiveTyped' /\ CachedTyped'
    <3>1. ActiveTyped'
      BY <2>f, FinishType DEF ActiveTyped, Idle, TypeOK
    <3>2. ASSUME NEW a \in Author, cache'[a].st = "Completed"
          PROVE  cache'[a].round \in Round /\ cache'[a].digest \in Digest
      <4>1. CASE cache'[a] = cache[a]
        BY <3>2, <4>1 DEF CachedTyped
      <4>2. CASE cache'[a] = Completed(task[t].round, task[t].digest, resp)
        BY <2>f, <4>2 DEF ActiveTyped, Completed
      <4> QED BY <2>f, <3>2, <4>1, <4>2, FinishCompleted
    <3> QED BY <2>f, <3>1, <3>2, FinishType DEF CachedTyped
  <2>2. ASSUME NEW t \in Task, NEW resp \in Response, EndEarly(t, resp) PROVE T'
    BY <2>2, <2>f DEF EndEarly, TypeOK
  <2>3. ASSUME NEW t \in Task, ReadVoteInfo(t) PROVE T'
    <3>1. task' \in [Task -> TaskState]
      BY ZenonT(30), <2>3 DEF ReadVoteInfo, TypeOK, ActiveTyped, TaskState
    <3> QED BY <2>3, <3>1 DEF ReadVoteInfo, TypeOK, ActiveTyped, CachedTyped
  <2>4. ASSUME NEW t \in Task, RefuseVote(t) PROVE T'
    BY ZenonT(30), <2>4, <2>f DEF RefuseVote, TypeOK, Response
  <2>b. ASSUME NEW t \in Task, task[t].pc # "idle"
        PROVE  /\ Ballot(task[t].author, task[t].round, task[t].digest)
                     \in [author : Author, round : Round, digest : Digest]
               /\ [round |-> task[t].round, digest |-> task[t].digest] \in VoteInfo
    BY ZenonT(30), <2>b DEF ActiveTyped, Ballot, VoteInfo
  <2>5. ASSUME NEW t \in Task, RepeatVote(t) PROVE T'
    BY ZenonT(30), <2>5, <2>f, <2>b DEF RepeatVote, TypeOK, Response
  <2>6. ASSUME NEW t \in Task, WriteVote(t) PROVE T'
    <3>1. task[t].pc # "idle" /\ task[t].author \in Author /\ "Vote" \in Response /\ Finish(t, "Vote")
      BY <2>6 DEF WriteVote, ActiveTyped, Response
    <3>2. wqueue' \in Seq([author : Author, info : VoteInfo])
      BY <2>6, <3>1, <2>b DEF WriteVote, TypeOK
    <3>3. issued' \subseteq [author : Author, round : Round, digest : Digest]
      BY <2>6, <3>1, <2>b DEF WriteVote, TypeOK
    <3>4. voteInfo' \in [Author -> VoteInfo] /\ disk' = disk /\ past' = past
      BY <2>6, <3>1, <2>b DEF WriteVote, TypeOK
    <3> QED BY <3>1, <3>2, <3>3, <3>4, <2>f DEF TypeOK
  <2>7. ASSUME NEW t \in Task, Cancel(t) PROVE T'
    <3>1. cache' = cache \/ cache' = [cache EXCEPT ![task[t].author] = Absent]
      BY <2>7 DEF Cancel
    <3> QED BY <2>7, <3>1, <2>0 DEF Cancel, TypeOK, ActiveTyped, CachedTyped, Idle, Absent
  <2>8. ASSUME NEW a \in Author, ReplyCachedVote(a) PROVE T'
    BY <2>8 DEF ReplyCachedVote, TypeOK, ActiveTyped, CachedTyped, Ballot
  <2>9. ASSUME NEW a \in Author, Expire(a) PROVE T'
    <3>1. cache' \in [Author -> CacheEntry]
      BY ZenonT(30), <2>9 DEF Expire, TypeOK, CacheEntry
    <3> QED BY <2>9, <3>1 DEF Expire, TypeOK, ActiveTyped, CachedTyped
  <2>10. CASE ApplyWrite
    <3>1. Head(wqueue) \in [author : Author, info : VoteInfo]
          /\ Tail(wqueue) \in Seq([author : Author, info : VoteInfo])
      BY ZenonT(30), <2>10, HeadTail DEF ApplyWrite, TypeOK
    <3> QED BY <2>10, <3>1 DEF ApplyWrite, TypeOK, ActiveTyped, CachedTyped
  <2>11. CASE Restart
    BY <2>11, <2>0 DEF Restart, TypeOK, ActiveTyped, CachedTyped, Idle, Absent
  <2>12. CASE UNCHANGED vars
    BY <2>12 DEF vars, TypeOK, ActiveTyped, CachedTyped
  <2> QED
    BY <2>1, <2>2, <2>3, <2>4, <2>5, <2>6, <2>7, <2>8, <2>9, <2>10, <2>11, <2>12
    DEF Next, TaskStep
<1> QED BY <1>1, <1>2, PTL DEF Spec, Typed

-----------------------------------------------------------------------------
\* A task that ends adds to the cache no vote but the one it answers with.
LEMMA FinishSigned ==
    ASSUME Typed, CachedSigned, NEW t \in Task, task[t].pc # "idle",
           NEW resp \in Response, Finish(t, resp), issued \subseteq issued',
           resp = "Vote" => Ballot(task[t].author, task[t].round, task[t].digest) \in issued'
    PROVE  CachedSigned'
<1> SUFFICES ASSUME NEW a \in Author, cache'[a].st = "Completed", cache'[a].resp = "Vote"
             PROVE  Ballot(a, cache'[a].round, cache'[a].digest) \in issued'
  BY DEF CachedSigned, Ballot
<1>1. CASE cache'[a] = cache[a]
  BY <1>1 DEF CachedSigned
<1>2. CASE a = task[t].author /\ cache'[a] = Completed(task[t].round, task[t].digest, resp)
  BY <1>2 DEF Completed
<1> QED BY <1>1, <1>2, FinishCompleted DEF Typed

\* A task that ends leaves every other task as it was.
LEMMA FinishSeen ==
    ASSUME Typed, SeenCurrent, NEW t \in Task, task[t].pc # "idle",
           NEW resp \in Response, Finish(t, resp),
           \A u \in Task : u # t /\ task[u].pc = "deciding" =>
                voteInfo'[task[u].author] = voteInfo[task[u].author]
    PROVE  SeenCurrent'
<1>1. \A u \in Task : task'[u] = IF u = t THEN Idle ELSE task[u]
  BY FinishType DEF Typed, TypeOK
<1> QED BY <1>1 DEF SeenCurrent, Idle

\* The inductive step: while decisions of one author do not overlap and no
\* vote is lost, every action keeps the stored vote the highest one signed.
LEMMA VoteStep ==
    ASSUME past' = {}, Typed, Typed', IInv, [Next]_vars
    PROVE  IInv'
<1> USE RoundAssumption DEF Typed
<1>1. ASSUME NEW t \in Task, NEW a \in Author, NEW r \in Round, NEW d \in Digest,
             NEW p \in BOOLEAN, Request(t, a, r, d, p)
      PROVE IInv'
  <2>1. CachedSigned'
    BY <1>1 DEF Request, IInv, CachedSigned, TypeOK, InFlight, Ballot
  <2>2. SeenCurrent'
    BY <1>1 DEF Request, IInv, SeenCurrent, TypeOK
  <2> QED BY <1>1, <2>1, <2>2 DEF Request, IInv, StoredIsHighest, ReadYourWrites, OneBallot
<1>2. ASSUME NEW t \in Task, NEW resp \in Response, EndEarly(t, resp) PROVE IInv'
  <2>1. CachedSigned' /\ SeenCurrent'
    BY <1>2, FinishSigned, FinishSeen DEF EndEarly, IInv
  <2> QED BY <1>2, <2>1 DEF EndEarly, IInv, StoredIsHighest, ReadYourWrites, OneBallot
<1>3. ASSUME NEW t \in Task, ReadVoteInfo(t) PROVE IInv'
  <2>1. SeenCurrent'
    <3>1. \A u \in Task : /\ task'[u].author = task[u].author
                          /\ u # t => task'[u] = task[u]
                          /\ u = t => task'[u].seen = voteInfo[task[t].author]
      BY <1>3 DEF ReadVoteInfo, TypeOK, TaskState
    <3>2. \A u \in Task : task[u].pc = "deciding" => task[u].author # task[t].author
      BY <1>3 DEF ReadVoteInfo
    <3>3. voteInfo' = voteInfo
      BY <1>3 DEF ReadVoteInfo
    <3> SUFFICES ASSUME NEW v \in Task, task'[v].pc = "deciding"
                 PROVE  /\ task'[v].seen = voteInfo[task'[v].author]
                        /\ \A u \in Task : task'[u].pc = "deciding"
                               /\ task'[u].author = task'[v].author => u = v
      BY <3>3 DEF SeenCurrent
    <3>4. CASE v = t
      BY <3>1, <3>2, <3>4
    <3>5. CASE v # t
      BY <3>1, <3>2, <3>5 DEF IInv, SeenCurrent
    <3> QED BY <3>4, <3>5
  <2> QED BY <1>3, <2>1 DEF ReadVoteInfo, IInv, StoredIsHighest, CachedSigned, ReadYourWrites, OneBallot
<1>4. ASSUME NEW t \in Task, RefuseVote(t) PROVE IInv'
  <2>1. CachedSigned' /\ SeenCurrent'
    BY <1>4, FinishSigned, FinishSeen DEF RefuseVote, IInv, Response
  <2> QED BY <1>4, <2>1 DEF RefuseVote, IInv, StoredIsHighest, ReadYourWrites, OneBallot
<1>5. ASSUME NEW t \in Task, RepeatVote(t) PROVE IInv'
  <2> DEFINE b == Ballot(task[t].author, task[t].round, task[t].digest)
  <2>0. issued' = issued \cup {b} /\ Finish(t, "Vote") /\ "Vote" \in Response
        /\ task[t].pc = "deciding" /\ UNCHANGED <<voteInfo, disk, wqueue>>
    BY <1>5 DEF RepeatVote, Response
  <2>1. CachedSigned' /\ SeenCurrent'
    BY <2>0, FinishSigned, FinishSeen DEF IInv
  <2>2. /\ b.author = task[t].author /\ b.author \in Author
        /\ b.round = voteInfo[b.author].round /\ b.digest = voteInfo[b.author].digest
    BY <1>5, <2>0 DEF RepeatVote, IInv, SeenCurrent, ActiveTyped, Ballot
  <2>3. StoredIsHighest'
    BY <2>0, <2>2 DEF IInv, StoredIsHighest
  <2>4. OneBallot'
    <3>1. b \in [author : Author, round : Round, digest : Digest]
      BY <2>0 DEF ActiveTyped, Ballot
    <3>2. \A v \in issued : v.author = b.author /\ v.round = b.round => v = b
      <4> HIDE DEF b
      <4>1. \A v \in issued : v \in [author : Author, round : Round, digest : Digest]
        BY DEF TypeOK
      <4>2. \A v \in issued : v.author = b.author /\ v.round = b.round => v.digest = b.digest
        <5>1. \A v \in issued : v.round \in Nat
          BY ZenonT(30), <4>1
        <5> QED BY <2>2, <5>1 DEF IInv, StoredIsHighest
      <4> QED BY <3>1, <4>1, <4>2
    <3> HIDE DEF b
    <3> QED BY <2>0, <3>2 DEF IInv, OneBallot
  <2> QED BY <2>0, <2>1, <2>3, <2>4 DEF IInv, ReadYourWrites
<1>6. ASSUME NEW t \in Task, WriteVote(t) PROVE IInv'
  <2> DEFINE b == Ballot(task[t].author, task[t].round, task[t].digest)
             info == [round |-> task[t].round, digest |-> task[t].digest]
             w == [author |-> task[t].author, info |-> info]
  <2>0. /\ issued' = issued \cup {b} /\ Finish(t, "Vote") /\ "Vote" \in Response
        /\ task[t].pc = "deciding" /\ task[t].author \in Author
        /\ voteInfo' = [voteInfo EXCEPT ![task[t].author] = info]
        /\ wqueue' = Append(wqueue, w) /\ disk' = disk
        /\ task[t].round \in Nat /\ voteInfo[task[t].author].round \in Nat
        /\ task[t].round > voteInfo[task[t].author].round
    BY <1>6 DEF WriteVote, Response, IInv, SeenCurrent, ActiveTyped, TypeOK, VoteInfo
  <2>1. CachedSigned'
    BY <2>0, FinishSigned DEF IInv
  <2>2. SeenCurrent'
    <3>1. \A u \in Task : u # t /\ task[u].pc = "deciding" =>
                voteInfo'[task[u].author] = voteInfo[task[u].author]
      BY <2>0 DEF IInv, SeenCurrent, ActiveTyped, TypeOK
    <3> QED BY <2>0, <3>1, FinishSeen DEF IInv
  <2>3. /\ b \in [author : Author, round : Round, digest : Digest]
        /\ b.author = task[t].author /\ b.round = task[t].round /\ b.digest = task[t].digest
    BY <2>0 DEF ActiveTyped, Ballot
  <2>4. \A v \in issued : v.author = b.author => v.round < b.round
    <3> HIDE DEF b
    <3>1. \A v \in issued : v.round \in Nat
      BY ZenonT(30) DEF TypeOK
    <3> QED BY <2>0, <2>3, <3>1 DEF IInv, StoredIsHighest
  <2>5. StoredIsHighest'
    <3>1. voteInfo'[b.author] = info /\ \A a \in Author : a # b.author => voteInfo'[a] = voteInfo[a]
      BY <2>0, <2>3 DEF TypeOK
    <3>2. \A v \in issued : v.author \in Author
      BY DEF TypeOK
    <3>3. info.round = b.round /\ info.digest = b.digest
      BY <2>3
    <3> HIDE DEF b, info
    <3> QED BY <2>0, <2>4, <3>1, <3>2, <3>3 DEF IInv, StoredIsHighest
  <2>6. OneBallot'
    <3>1. \A v \in issued : v.round \in Nat
      BY DEF TypeOK
    <3>2. b.round \in Nat
      BY ZenonT(30), <2>3
    <3> HIDE DEF b
    <3> QED BY <2>0, <2>4, <3>1, <3>2 DEF IInv, OneBallot
  <2>7. ReadYourWrites'
    <3>1. /\ DOMAIN wqueue = 1 .. Len(wqueue) /\ Len(wqueue) \in Nat
          /\ DOMAIN wqueue' = 1 .. (Len(wqueue) + 1)
          /\ wqueue'[Len(wqueue) + 1] = w
          /\ \A i \in DOMAIN wqueue : wqueue'[i] = wqueue[i]
      BY <2>0 DEF TypeOK
    <3>2. /\ voteInfo'[task[t].author] = info
          /\ \A a \in Author : a # task[t].author => voteInfo'[a] = voteInfo[a]
      BY <2>0 DEF TypeOK
    <3>3. w.author = task[t].author /\ w.info = info
      OBVIOUS
    <3> HIDE DEF w, info
    <3> QED BY <2>0, <3>1, <3>2, <3>3 DEF IInv, ReadYourWrites
  <2> QED BY <2>1, <2>2, <2>5, <2>6, <2>7 DEF IInv
<1>7. ASSUME NEW t \in Task, Cancel(t) PROVE IInv'
  <2>1. cache' = cache \/ cache' = [cache EXCEPT ![task[t].author] = Absent]
    BY <1>7 DEF Cancel
  <2>2. CachedSigned'
    BY <1>7, <2>1 DEF Cancel, IInv, CachedSigned, TypeOK, Absent, Ballot
  <2>3. SeenCurrent'
    BY <1>7 DEF Cancel, IInv, SeenCurrent, TypeOK, Idle
  <2> QED BY <1>7, <2>2, <2>3 DEF Cancel, IInv, StoredIsHighest, ReadYourWrites, OneBallot
<1>8. ASSUME NEW a \in Author, ReplyCachedVote(a) PROVE IInv'
  <2>1. issued' = issued
    BY <1>8 DEF ReplyCachedVote, IInv, CachedSigned
  <2> QED BY <1>8, <2>1 DEF ReplyCachedVote, IInv, StoredIsHighest, SeenCurrent, CachedSigned,
                            ReadYourWrites, OneBallot
<1>9. ASSUME NEW a \in Author, Expire(a) PROVE IInv'
  <2>1. CachedSigned'
    BY <1>9 DEF Expire, IInv, CachedSigned, TypeOK, CacheEntry, Ballot
  <2> QED BY <1>9, <2>1 DEF Expire, IInv, StoredIsHighest, SeenCurrent, ReadYourWrites, OneBallot
<1>10. CASE ApplyWrite
  <2> DEFINE n == Len(wqueue)
  <2>1. /\ n \in Nat /\ n > 0 /\ DOMAIN wqueue = 1 .. n
        /\ DOMAIN wqueue' = 1 .. (n - 1)
        /\ \A i \in 1 .. (n - 1) : wqueue'[i] = wqueue[i + 1]
        /\ Head(wqueue) = wqueue[1] /\ wqueue[1] \in [author : Author, info : VoteInfo]
    <3>1. wqueue \in Seq([author : Author, info : VoteInfo]) /\ wqueue # <<>>
          /\ wqueue' = Tail(wqueue)
      BY <1>10 DEF ApplyWrite, TypeOK
    <3>2. /\ n \in Nat /\ n > 0 /\ DOMAIN wqueue = 1 .. n
          /\ DOMAIN Tail(wqueue) = 1 .. (n - 1)
          /\ \A i \in 1 .. (n - 1) : Tail(wqueue)[i] = wqueue[i + 1]
          /\ Head(wqueue) = wqueue[1] /\ Head(wqueue) \in [author : Author, info : VoteInfo]
      BY <3>1, HeadTail, ZenonT(30)
    <3> QED BY <3>1, <3>2, ZenonT(30)
  <2>2. /\ disk'[wqueue[1].author] = wqueue[1].info
        /\ \A a \in Author : a # wqueue[1].author => disk'[a] = disk[a]
        /\ voteInfo' = voteInfo
    BY <1>10, <2>1 DEF ApplyWrite, TypeOK
  <2>3. ReadYourWrites'
    <3> SUFFICES ASSUME NEW a \in Author
                 PROVE  /\ (\A i \in DOMAIN wqueue' : wqueue'[i].author # a)
                                => disk'[a] = voteInfo[a]
                        /\ \A i \in DOMAIN wqueue' :
                             wqueue'[i].author = a
                             /\ (\A j \in DOMAIN wqueue' : j > i => wqueue'[j].author # a)
                                => wqueue'[i].info = voteInfo[a]
      BY <2>2 DEF ReadYourWrites
    <3> HIDE DEF n
    <3>1. \A k \in 2 .. n : k - 1 \in 1 .. (n - 1) /\ wqueue'[k - 1] = wqueue[k]
      BY <2>1
    <3>2. ASSUME \A i \in DOMAIN wqueue' : wqueue'[i].author # a
          PROVE  disk'[a] = voteInfo[a]
      <4>1. \A k \in 2 .. n : wqueue[k].author # a
        BY <2>1, <3>1, <3>2
      <4>2. CASE wqueue[1].author = a
        <5>1. 1 \in DOMAIN wqueue /\ \A j \in DOMAIN wqueue : j > 1 => wqueue[j].author # a
          BY <2>1, <4>1
        <5> QED BY <2>2, <4>2, <5>1 DEF IInv, ReadYourWrites
      <4>3. CASE wqueue[1].author # a
        <5>1. \A i \in DOMAIN wqueue : wqueue[i].author # a
          BY <2>1, <4>1, <4>3
        <5> QED BY <2>2, <4>3, <5>1 DEF IInv, ReadYourWrites
      <4> QED BY <4>2, <4>3
    <3>3. ASSUME NEW i \in DOMAIN wqueue', wqueue'[i].author = a,
                 \A j \in DOMAIN wqueue' : j > i => wqueue'[j].author # a
          PROVE  wqueue'[i].info = voteInfo[a]
      <4>1. i + 1 \in DOMAIN wqueue /\ wqueue[i + 1] = wqueue'[i]
        BY <2>1
      <4>2. \A j \in DOMAIN wqueue : j > i + 1 => wqueue[j].author # a
        <5> SUFFICES ASSUME NEW j \in DOMAIN wqueue, j > i + 1 PROVE wqueue[j].author # a
          OBVIOUS
        <5>1. j \in 2 .. n /\ j - 1 \in DOMAIN wqueue' /\ j - 1 > i
          BY <2>1
        <5> QED BY <3>1, <3>3, <5>1
      <4> QED BY <3>3, <4>1, <4>2 DEF IInv, ReadYourWrites
    <3> QED BY <3>2, <3>3
  <2> QED BY <1>10, <2>3 DEF ApplyWrite, IInv, StoredIsHighest, SeenCurrent, CachedSigned, OneBallot
<1>11. CASE Restart
  <2>0. wqueue = <<>>
    BY <1>11 DEF Restart
  <2>1. voteInfo' = voteInfo
    BY SMTT(30), <1>11, <2>0 DEF Restart, IInv, ReadYourWrites, TypeOK
  <2> QED BY <1>11, <2>0, <2>1 DEF Restart, IInv, StoredIsHighest, SeenCurrent, CachedSigned,
                                   ReadYourWrites, OneBallot, Idle, Absent
<1>12. CASE UNCHANGED vars
  BY <1>12 DEF vars, IInv, StoredIsHighest, SeenCurrent, CachedSigned, ReadYourWrites, OneBallot
<1> QED
  BY <1>1, <1>2, <1>3, <1>4, <1>5, <1>6, <1>7, <1>8, <1>9, <1>10, <1>11, <1>12
  DEF Next, TaskStep

\* What happened stays on record: no action takes anything out of past.
LEMMA PastKept ==
    ASSUME [Next]_vars
    PROVE  past \subseteq past'
<1>1. ASSUME NEW t \in Task, TaskStep(t) PROVE past \subseteq past'
  BY <1>1 DEF TaskStep, Request, EndEarly, ReadVoteInfo, RefuseVote, RepeatVote, WriteVote, Cancel
<1>2. ASSUME NEW a \in Author, ReplyCachedVote(a) \/ Expire(a) PROVE past \subseteq past'
  BY <1>2 DEF ReplyCachedVote, Expire
<1> QED BY <1>1, <1>2 DEF Next, ApplyWrite, Restart, vars

\* The invariant holds until the first overlap or lost vote.
LEMMA UndisturbedInvariant == Spec => []Undisturbed
<1>1. Init => Undisturbed
  BY DEF Init, Undisturbed, IInv, StoredIsHighest, SeenCurrent, CachedSigned, ReadYourWrites,
         OneBallot, Idle, Absent
<1>2. Typed /\ Typed' /\ Undisturbed /\ [Next]_vars => Undisturbed'
  BY VoteStep, PastKept DEF Undisturbed
<1> QED BY <1>1, <1>2, TypeCorrect, PTL DEF Spec

\* The handler signs at most one header per author and round (vote_inner's
\* check of the stored vote), however many tasks run and however often the
\* process restarts, until tasks of one author overlap or a vote is lost.
THEOREM VoteOnceTheorem == Spec => []VoteOnce
<1>1. Undisturbed => VoteOnce
  BY DEF Undisturbed, IInv, VoteOnce
<1> QED BY <1>1, UndisturbedInvariant, PTL

\* A task that ends leaves no entry of its own in flight, and takes no task away
\* from an entry of another author or of a later round.
LEMMA FinishNoOrphan ==
    ASSUME Typed, NoOrphanInFlight, NEW t \in Task, task[t].pc # "idle",
           NEW resp \in Response, Finish(t, resp)
    PROVE  NoOrphanInFlight'
<1> SUFFICES ASSUME NEW a \in Author, cache'[a].st = "InFlight"
             PROVE  \E u \in Task : /\ task'[u].pc # "idle" /\ task'[u].author = a
                                    /\ task'[u].round = cache'[a].round
  BY DEF NoOrphanInFlight
<1> DEFINE c == CompleteGuard(cache, task[t].author, task[t].round, task[t].digest, resp)
<1>1. cache'[a] = c[a]
  BY DEF Finish, EvictExpired, Absent
<1>2. c[a] = cache[a] /\ (a = task[t].author => cache[a].round > task[t].round)
  BY <1>1 DEF CompleteGuard, Completed, Typed, TypeOK
<1>3. PICK u \in Task : /\ task[u].pc # "idle" /\ task[u].author = a
                        /\ task[u].round = cache[a].round
  BY <1>1, <1>2 DEF NoOrphanInFlight
<1>4. u # t
  BY <1>2, <1>3 DEF Typed, TypeOK, TaskState
<1>5. task'[u] = task[u]
  BY <1>4 DEF Finish, Typed, TypeOK
<1> QED BY <1>1, <1>2, <1>3, <1>5

\* An author is never blocked by an in-flight entry nobody will complete: the
\* entry has a running task, whether tasks finish, are superseded after
\* IN_FLIGHT_TTL or are cancelled (InFlightGuard::complete and its drop), and
\* races and crashes included.
THEOREM NoOrphanTheorem == Spec => []NoOrphanInFlight
<1>1. Init => NoOrphanInFlight
  BY DEF Init, NoOrphanInFlight, Absent
<1>2. Typed /\ NoOrphanInFlight /\ [Next]_vars => NoOrphanInFlight'
  <2> SUFFICES ASSUME Typed, NoOrphanInFlight, [Next]_vars PROVE NoOrphanInFlight'
    OBVIOUS
  <2>1. ASSUME NEW t \in Task, NEW a \in Author, NEW r \in Round, NEW d \in Digest,
               NEW p \in BOOLEAN, Request(t, a, r, d, p)
        PROVE  NoOrphanInFlight'
    <3>1. /\ cache'[a] = InFlight(r, d) /\ \A b \in Author : b # a => cache'[b] = cache[b]
          /\ task'[t].pc = "validating" /\ task'[t].author = a /\ task'[t].round = r
          /\ task[t].pc = "idle" /\ \A u \in Task : u # t => task'[u] = task[u]
      BY <2>1 DEF Request, Typed, TypeOK
    <3>2. InFlight(r, d).round = r
      BY DEF InFlight
    <3> QED BY <3>1, <3>2 DEF NoOrphanInFlight
  <2>2. ASSUME NEW t \in Task, NEW resp \in Response, EndEarly(t, resp)
        PROVE  NoOrphanInFlight'
    BY <2>2, FinishNoOrphan DEF EndEarly
  <2>3. ASSUME NEW t \in Task, RefuseVote(t) \/ RepeatVote(t) \/ WriteVote(t)
        PROVE  NoOrphanInFlight'
    BY ZenonT(30), <2>3, FinishNoOrphan DEF RefuseVote, RepeatVote, WriteVote, Response
  <2>4. ASSUME NEW t \in Task, ReadVoteInfo(t) PROVE NoOrphanInFlight'
    <3>1. /\ cache' = cache /\ task'[t].pc = "deciding" /\ task[t].pc # "idle"
          /\ \A u \in Task : /\ task'[u].author = task[u].author /\ task'[u].round = task[u].round
                             /\ u # t => task'[u] = task[u]
      BY <2>4 DEF ReadVoteInfo, Typed, TypeOK, TaskState
    <3> QED BY <3>1 DEF NoOrphanInFlight
  <2>5. ASSUME NEW t \in Task, Cancel(t) PROVE NoOrphanInFlight'
    <3> SUFFICES ASSUME NEW a \in Author, cache'[a].st = "InFlight"
                 PROVE  \E u \in Task : /\ task'[u].pc # "idle" /\ task'[u].author = a
                                        /\ task'[u].round = cache'[a].round
      BY DEF NoOrphanInFlight
    <3>1. /\ cache'[a] = cache[a]
          /\ a = task[t].author => cache[a].round # task[t].round
      BY <2>5 DEF Cancel, Absent, Typed, TypeOK
    <3>2. PICK u \in Task : /\ task[u].pc # "idle" /\ task[u].author = a
                            /\ task[u].round = cache[a].round
      BY <3>1 DEF NoOrphanInFlight
    <3>3. task'[u] = task[u]
      BY <2>5, <3>1, <3>2 DEF Cancel, Typed, TypeOK
    <3> QED BY <3>1, <3>2, <3>3
  <2>6. ASSUME NEW a \in Author, Expire(a) PROVE NoOrphanInFlight'
    <3>1. task' = task /\ \A b \in Author : cache'[b].st = cache[b].st /\ cache'[b].round = cache[b].round
      BY <2>6 DEF Expire, Typed, TypeOK, CacheEntry
    <3> QED BY <3>1 DEF NoOrphanInFlight
  <2>7. ASSUME UNCHANGED <<cache, task>> PROVE NoOrphanInFlight'
    BY <2>7 DEF NoOrphanInFlight
  <2>8. CASE Restart
    BY <2>8 DEF Restart, NoOrphanInFlight, Absent
  <2> QED
    BY ZenonT(30), <2>1, <2>2, <2>3, <2>4, <2>5, <2>6, <2>7, <2>8
    DEF Next, TaskStep, ReplyCachedVote, ApplyWrite, vars
<1> QED BY <1>1, <1>2, TypeCorrect, PTL DEF Spec

\* The handler implements the abstract ledger: until tasks of one author
\* overlap or a vote is lost, every vote it signs is one the ledger allows, and
\* every other step leaves the ledger alone.
THEOREM LedgerTheorem == Spec => LedgerSpec
<1>1. Init => Ledger!Init
  BY DEF Init, Ledger!Init
<1>2. Typed /\ Undisturbed /\ [Next]_vars => [past' # {} \/ Ledger!Next]_issued
  <2> SUFFICES ASSUME Typed, Undisturbed, Next, past' = {}
               PROVE  Ledger!Next \/ UNCHANGED issued
    BY DEF vars
  <2>0. IInv
    BY PastKept DEF Undisturbed
  <2> USE RoundAssumption DEF Typed
  <2>1. ASSUME NEW t \in Task, RepeatVote(t) \/ WriteVote(t) PROVE Ledger!Next
    <3> DEFINE b == Ballot(task[t].author, task[t].round, task[t].digest)
    <3>1. /\ b \in Ledger!Ballot /\ issued' = issued \cup {b}
          /\ b.author = task[t].author /\ b.round = task[t].round /\ b.digest = task[t].digest
      BY <2>1 DEF RepeatVote, WriteVote, ActiveTyped, Ballot, Ledger!Ballot
    <3>2. /\ task[t].seen = voteInfo[task[t].author]
          /\ voteInfo[task[t].author].round \in Nat /\ task[t].round \in Nat
          /\ \A v \in issued : v.round \in Nat
      BY ZenonT(30), <2>0, <2>1 DEF RepeatVote, WriteVote, IInv, SeenCurrent, ActiveTyped, TypeOK, VoteInfo
    <3>3. LET x == task[t]
          IN  x.round > x.seen.round \/ (x.round = x.seen.round /\ x.digest = x.seen.digest)
      BY <2>1, ZenonT(30) DEF RepeatVote, WriteVote
    <3>4. ASSUME NEW v \in issued, v.author = b.author
          PROVE  \/ v.round < task[t].seen.round
                 \/ v.round = task[t].seen.round /\ v.digest = task[t].seen.digest
      BY <2>0, <3>1, <3>2, <3>4, ZenonT(30) DEF IInv, StoredIsHighest
    <3> HIDE DEF b
    <3>5. Ledger!MaySign(b)
      BY SMTT(30), <3>1, <3>2, <3>3, <3>4 DEF Ledger!MaySign
    <3> QED BY <3>1, <3>5, ZenonT(30) DEF Ledger!Next, Ledger!Sign
  <2>2. ASSUME NEW a \in Author, ReplyCachedVote(a) PROVE UNCHANGED issued
    BY <2>0, <2>2 DEF ReplyCachedVote, IInv, CachedSigned
  <2> QED BY ZenonT(30), <2>1, <2>2 DEF Next, TaskStep, Request, EndEarly, ReadVoteInfo, RefuseVote, Cancel,
                            Expire, ApplyWrite, Restart
<1> QED BY <1>1, <1>2, TypeCorrect, UndisturbedInvariant, PTL DEF Spec, LedgerSpec
=============================================================================
