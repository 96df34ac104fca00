--------------------------- MODULE TwoPhaseCommit ---------------------------
(***************************************************************************)
(* The transaction client of the embedded engine (store/tikv/txn.go,       *)
(* 2pc.go, lock_resolver.go, snapshot.go, region_request.go) over the      *)
(* multi-version store.                                                    *)
(*                                                                         *)
(* A transaction takes a start timestamp, reads some keys through its      *)
(* snapshot, prewrites all its keys, takes a commit timestamp, commits the *)
(* batch with its primary key, answers its caller, and commits the other   *)
(* keys in the background; when it fails it rolls its keys back in the     *)
(* background.  A reader or a prewrite that meets the lock of another      *)
(* transaction resolves it once the lock has outlived its time to live:    *)
(* it rolls the transaction back at its primary key, unless it finds it    *)
(* committed there, and gives the lock the same end.                       *)
(*                                                                         *)
(* Faults: a request whose sending failed may still be executed, at any    *)
(* later time and besides its retry (stray); a goroutine may give up when  *)
(* its back-off budget is spent; the process may crash and lose all its    *)
(* transactions and its cache; the region may split between the moment a   *)
(* batch is formed and the moment it is executed.                          *)
(*                                                                         *)
(* The latches of txn.Commit are the module Latch; here they are disabled, *)
(* which is the default (txn.go:168).  Batches are formed by region; the   *)
(* further split of a batch above 16 KiB acts like a finer region.         *)
(***************************************************************************)
EXTENDS MvccStore, Sequences

CONSTANTS
    Txn,        \* the transactions
    ReadSet,    \* ReadSet[t]: the keys t reads
    KeyList,    \* KeyList[t]: the keys t writes or locks, in order; the first is its primary key
    OpOf,       \* OpOf[t][k]: the operation of t on k
    CacheSize,  \* ResolvedCacheSize of the lock resolver
    MaxFaults   \* bound: failed sends, goroutines that give up, splits and crashes

VARIABLES
    db,         \* the store
    clock,      \* the last timestamp the oracle gave out
    start,      \* start[t], commit[t]: the timestamps of t, 0 before it has them
    commit,
    pc,         \* pc[t]: the phase of t
    jobs,       \* jobs[t]: the goroutines of the phase that have not finished
    result,     \* result[t]: what the caller of t was told
    undetermined, \* c.mu.undeterminedErr # nil
    seen,       \* seen[t][k]: the value t read, as the start timestamp of its writer
    expired,    \* the transactions whose lock TTL has passed
    resolved,   \* the cache of the lock resolver, oldest first
    stray,      \* failed requests that may still be executed
    split,      \* the region has been split
    cached,     \* the region cache of the client knows of the split
    faults      \* the number of faults so far

vars == <<db, clock, start, commit, pc, jobs, result, undetermined, seen, expired, resolved,
          stray, split, cached, faults>>

Unread == -1

None == -1

Elements(s) == {s[i] : i \in 1..Len(s)}

KeysOf(t) == Elements(KeyList[t])

Primary(t) == KeyList[t][1]

\* newTwoPhaseCommitter: the mutations come before the keys that are only locked, so a
\* transaction whose primary key is only locked writes nothing.
ASSUME TxnAssumption ==
    /\ IsFiniteSet(Txn) /\ Keys \subseteq Nat
    /\ KeyList \in [Txn -> Seq(Keys)] /\ ReadSet \in [Txn -> SUBSET Keys]
    /\ \A t \in Txn : \A k \in KeysOf(t) : OpOf[t][k] \in Ops
    /\ \A t \in Txn : \A k \in KeysOf(t) : OpOf[t][Primary(t)] = "lock" => OpOf[t][k] = "lock"
    /\ CacheSize \in Nat

Phases == {"idle", "read", "prewrite", "commit", "secondary", "cleanPrimary", "cleanRest", "done"}

------------------------------------------------------------------------------
(* Regions, batches and goroutines *)

\* The keys of the region of k: all of them, or k alone once the region is split.
RegionOf(k, isSplit) == IF isSplit THEN {k} ELSE Keys

\* GroupKeysByRegion with the cached regions.
Groups(S, isSplit) == {S \cap RegionOf(k, isSplit) : k \in S}

\* No lock is being resolved.
NoCur == [lock |-> [key |-> 0, start |-> 0, primary |-> 0], status |-> None]

\* A goroutine works on a batch of keys.  locks holds the expired locks it still has to
\* resolve, cur the one of which it knows the status of the transaction.
Job(S) == [keys |-> S, locks |-> {}, cur |-> NoCur]

JobsFor(S, isSplit) == {Job(b) : b \in Groups(S, isSplit)}

\* The batch with the primary key (batches[:1] of doActionOnKeys).
PrimaryJob(t, S, isSplit) == {Job(S \cap RegionOf(Primary(t), isSplit))}

\* The store refuses a batch that does not lie in one region.
OutOfRegion(S) == \E k \in S : ~(S \subseteq RegionOf(k, split))

Set(f, t, v) == [f EXCEPT ![t] = v]

Replace(t, j, new) == jobs' = [jobs EXCEPT ![t] = (@ \ {j}) \cup new]

\* On a region error the client drops the cached region and forms the batches anew.
RegionRetry(t, j, new) ==
    /\ cached' = split
    /\ Replace(t, j, new)

\* Mutant: only locks on primary keys are found expired.
ExpiredPrimaries(S) ==
    {[key |-> k, start |-> db[k].lock.start, primary |-> db[k].lock.primary] :
        k \in {x \in S : x = db[x].lock.primary /\ \E u \in expired : start[u] = db[x].lock.start}}

\* The expired ones of the locks on the keys S (the first loop of ResolveLocks).
ExpiredLocks(S) ==
    {[key |-> k, start |-> db[k].lock.start, primary |-> db[k].lock.primary] :
        k \in {x \in S : \E u \in expired : start[u] = db[x].lock.start}}

\* The goroutine has to resolve the expired locks among those on S and then tries again.
ResolveFirst(j, S) == [keys |-> j.keys, locks |-> ExpiredLocks(S), cur |-> NoCur]

Ready(j) == j.locks = {}

\* The locks are resolved in the order of the keys.
NextLock(j) == CHOOSE l \in j.locks : \A m \in j.locks : l.key <= m.key

------------------------------------------------------------------------------
(* Requests *)

Request(kind, S, ts, cts) == [kind |-> kind, keys |-> S, ts |-> ts, cts |-> cts]

TxnAt(ts) == CHOOSE t \in Txn : start[t] = ts

\* What the store does on a request.
Execute(r) ==
    IF OutOfRegion(r.keys) THEN db ELSE
    CASE r.kind = "prewrite"    -> Prewrite(db, [k \in r.keys |-> OpOf[TxnAt(r.ts)][k]],
                                            Primary(TxnAt(r.ts)), r.ts)
      [] r.kind = "commit"      -> Commit(db, r.keys, r.ts, r.cts)
      [] r.kind = "rollback"    -> Rollback(db, r.keys, r.ts)
      [] r.kind = "resolve"     -> ResolveLock(db, UNION {RegionOf(k, split) : k \in r.keys},
                                               r.ts, r.cts)
      [] OTHER                  -> db

\* The request that a goroutine of t sends next.
RequestOf(t, j) ==
    IF j.cur # NoCur THEN Request("resolve", {j.cur.lock.key}, j.cur.lock.start, j.cur.status)
    ELSE IF ~Ready(j) THEN Request("rollback", {NextLock(j).primary}, NextLock(j).start, 0) ELSE
    CASE pc[t] = "read"                            -> Request("get", j.keys, start[t], 0)
      [] pc[t] = "prewrite"                        -> Request("prewrite", j.keys, start[t], 0)
      [] pc[t] \in {"commit", "secondary"}         -> Request("commit", j.keys, start[t], commit[t])
      [] pc[t] \in {"cleanPrimary", "cleanRest"}   -> Request("rollback", j.keys, start[t], 0)

------------------------------------------------------------------------------

Init ==
    /\ db = EmptyStore
    /\ clock = 0
    /\ start = [t \in Txn |-> 0]
    /\ commit = [t \in Txn |-> 0]
    /\ pc = [t \in Txn |-> "idle"]
    /\ jobs = [t \in Txn |-> {}]
    /\ result = [t \in Txn |-> "none"]
    /\ undetermined = [t \in Txn |-> FALSE]
    /\ seen = [t \in Txn |-> [k \in Keys |-> Unread]]
    /\ expired = {}
    /\ resolved = <<>>
    /\ stray = {}
    /\ split = FALSE
    /\ cached = FALSE
    /\ faults = 0

\* newTiKVTxn, and the reads of the transaction through its snapshot (BatchGet).
Begin(t) ==
    /\ pc[t] = "idle"
    /\ clock' = clock + 1
    /\ start' = Set(start, t, clock')
    /\ pc' = Set(pc, t, "read")
    /\ jobs' = Set(jobs, t, JobsFor(ReadSet[t], cached))
    /\ UNCHANGED <<db, commit, result, undetermined, seen, expired, resolved, stray, split,
                   cached, faults>>

\* batchGetSingleRegion: the pairs that are not locked are collected; the locked keys are
\* asked for again after their locks have been looked at.
ReadBatch(t, j) ==
    /\ pc[t] = "read" /\ Ready(j)
    /\ IF OutOfRegion(j.keys)
       THEN RegionRetry(t, j, JobsFor(j.keys, split)) /\ UNCHANGED seen
       ELSE LET blocked == {k \in j.keys : ReadBlocked(db[k], start[t])}
            IN  /\ seen' = [seen EXCEPT ![t] = [k \in Keys |->
                              IF k \in j.keys \ blocked THEN Visible(db[k], start[t]) ELSE @[k]]]
                /\ Replace(t, j, IF blocked = {} THEN {} ELSE {ResolveFirst(Job(blocked), blocked)})
                /\ UNCHANGED cached
    /\ UNCHANGED <<db, clock, start, commit, pc, result, undetermined, expired, resolved,
                   stray, split, faults>>

\* The reads are done.  txn.Commit of a transaction without mutations returns at once.
StartCommit(t) ==
    /\ pc[t] = "read" /\ jobs[t] = {}
    /\ IF KeysOf(t) = {}
       THEN /\ pc' = Set(pc, t, "done")
            /\ result' = Set(result, t, "ok")
            /\ UNCHANGED jobs
       ELSE /\ pc' = Set(pc, t, "prewrite")
            /\ jobs' = Set(jobs, t, JobsFor(KeysOf(t), cached))
            /\ UNCHANGED result
    /\ UNCHANGED <<db, clock, start, commit, undetermined, seen, expired, resolved, stray,
                   split, cached, faults>>

------------------------------------------------------------------------------
(* The two phases *)

\* execute returns an error and its deferred function starts cleanupKeys in the background;
\* the other goroutines of the phase are cancelled.
Fail(t) ==
    /\ result' = Set(result, t, "error")
    /\ pc' = Set(pc, t, "cleanPrimary")
    /\ jobs' = Set(jobs, t, PrimaryJob(t, KeysOf(t), cached))

\* prewriteSingleBatch: one prewrite request and what its answer leads to.
PrewriteBatch(t, j) ==
    /\ pc[t] = "prewrite" /\ Ready(j)
    /\ LET errs == [k \in j.keys |-> PrewriteError(db[k], start[t])]
           locked == {k \in j.keys : errs[k] = "locked"}
       IN  CASE OutOfRegion(j.keys) ->
                    RegionRetry(t, j, JobsFor(j.keys, split)) /\ UNCHANGED <<db, pc, result>>
             [] ~OutOfRegion(j.keys) /\ \E k \in j.keys : errs[k] = "conflict" ->
                    Fail(t) /\ UNCHANGED <<db, cached>>
             [] OTHER ->
                    /\ db' = Execute(RequestOf(t, j))
                    /\ Replace(t, j, IF locked = {} THEN {} ELSE {ResolveFirst(j, locked)})
                    /\ UNCHANGED <<pc, result, cached>>
    /\ UNCHANGED <<clock, start, commit, undetermined, seen, expired, resolved, stray, split,
                   faults>>

\* execute, between the two phases: the commit timestamp, then checkSchemaValid and the limit
\* on the duration of a transaction, each of which may refuse the commit.
GetCommitTS(t) ==
    /\ pc[t] = "prewrite" /\ jobs[t] = {}
    /\ clock' = clock + 1
    /\ commit' = Set(commit, t, clock')
    /\ \/ Fail(t)
       \/ /\ pc' = Set(pc, t, "commit")
          /\ jobs' = Set(jobs, t, PrimaryJob(t, KeysOf(t), cached))
          /\ UNCHANGED result
    /\ UNCHANGED <<db, start, undetermined, seen, expired, resolved, stray, split, cached,
                   faults>>

\* commitSingleBatch on the batch of the primary key.  The answer decides the transaction: the
\* caller is told at once, and the other batches are committed in the background.
CommitPrimary(t, j) ==
    /\ pc[t] = "commit"
    /\ IF OutOfRegion(j.keys)
       THEN /\ RegionRetry(t, j, PrimaryJob(t, j.keys, split))
            /\ UNCHANGED <<db, pc, result, undetermined>>
       ELSE /\ undetermined' = Set(undetermined, t, FALSE)
            /\ db' = Execute(RequestOf(t, j))
            /\ IF \E k \in j.keys : CommitRefused(db[k], start[t])
               THEN Fail(t)
               ELSE /\ result' = Set(result, t, "ok")
                    /\ pc' = Set(pc, t, "secondary")
                    /\ jobs' = Set(jobs, t, JobsFor(KeysOf(t) \ j.keys, cached))
            /\ UNCHANGED cached
    /\ UNCHANGED <<clock, start, commit, seen, expired, resolved, stray, split, faults>>

\* commitSingleBatch on a batch of secondary keys; an error is only logged.
CommitSecondary(t, j) ==
    /\ pc[t] = "secondary"
    /\ IF OutOfRegion(j.keys)
       THEN RegionRetry(t, j, JobsFor(j.keys, split)) /\ UNCHANGED db
       ELSE db' = Execute(RequestOf(t, j)) /\ Replace(t, j, {}) /\ UNCHANGED cached
    /\ UNCHANGED <<clock, start, commit, pc, result, undetermined, seen, expired, resolved,
                   stray, split, faults>>

\* cleanupSingleBatch on the batch of the primary key; the other batches follow unless the
\* store answers that the transaction is committed.
CleanPrimary(t, j) ==
    /\ pc[t] = "cleanPrimary"
    /\ IF OutOfRegion(j.keys)
       THEN RegionRetry(t, j, PrimaryJob(t, j.keys, split)) /\ UNCHANGED <<db, pc>>
       ELSE /\ db' = Execute(RequestOf(t, j))
            /\ IF \E k \in j.keys : AlreadyCommitted(db[k], start[t])
               THEN pc' = Set(pc, t, "done") /\ Replace(t, j, {})
               ELSE /\ pc' = Set(pc, t, "cleanRest")
                    /\ Replace(t, j, JobsFor(KeysOf(t) \ j.keys, cached))
            /\ UNCHANGED cached
    /\ UNCHANGED <<clock, start, commit, result, undetermined, seen, expired, resolved, stray,
                   split, faults>>

\* cleanupSingleBatch on the other batches.
CleanRest(t, j) ==
    /\ pc[t] = "cleanRest"
    /\ IF OutOfRegion(j.keys)
       THEN RegionRetry(t, j, JobsFor(j.keys, split)) /\ UNCHANGED db
       ELSE db' = Execute(RequestOf(t, j)) /\ Replace(t, j, {}) /\ UNCHANGED cached
    /\ UNCHANGED <<clock, start, commit, pc, result, undetermined, seen, expired, resolved,
                   stray, split, faults>>

------------------------------------------------------------------------------
(* The lock resolver *)

IsResolved(ts) == \E i \in 1..Len(resolved) : resolved[i].start = ts

StatusOf(ts) == (CHOOSE e \in Elements(resolved) : e.start = ts).status

\* saveResolved: a first-in first-out cache of bounded size.
SaveResolved(ts, status) ==
    LET q == Append(resolved, [start |-> ts, status |-> status])
    IN  resolved' = IF IsResolved(ts) THEN resolved
                    ELSE IF Len(q) > CacheSize THEN Tail(q) ELSE q

\* getTxnStatus: the cached status, or a Cleanup request to the primary key.
GetTxnStatus(t, j) ==
    /\ ~Ready(j) /\ j.cur = NoCur
    /\ LET l == NextLock(j)
           status == IF IsResolved(l.start) THEN StatusOf(l.start)
                     ELSE CleanupStatus(db[l.primary], l.start)
       IN  /\ SaveResolved(l.start, status)
           /\ db' = IF IsResolved(l.start) THEN db
                    ELSE Rollback(db, {l.primary}, l.start)
           /\ Replace(t, j, {[j EXCEPT !.cur = [lock |-> l, status |-> status]]})
    /\ UNCHANGED <<clock, start, commit, pc, result, undetermined, seen, expired, stray, split,
                   cached, faults>>

\* resolveLock: one request ends every lock of the transaction in the region, so the other
\* locks of the list that lie there are skipped (cleanRegions).
ResolveOne(t, j) ==
    /\ j.cur # NoCur
    /\ LET l == j.cur.lock
           clean == {m \in j.locks : m.start = l.start /\ m.key \in RegionOf(l.key, split)}
       IN  Replace(t, j, {[j EXCEPT !.locks = @ \ clean, !.cur = NoCur]})
    /\ db' = Execute(RequestOf(t, j))
    /\ UNCHANGED <<clock, start, commit, pc, result, undetermined, seen, expired, resolved,
                   stray, split, cached, faults>>

------------------------------------------------------------------------------
(* Faults and the environment *)

\* sendReqToRegion: the sending of a request fails.  The store may still execute it, and the
\* client sends it again.  For the commit of the primary key the failure is remembered.
SendFails(t, j) ==
    /\ faults < MaxFaults /\ faults' = faults + 1
    /\ RequestOf(t, j).kind # "get"
    /\ RequestOf(t, j).kind = "rollback" /\ ~Ready(j) => ~IsResolved(NextLock(j).start)
    /\ stray' = stray \cup {RequestOf(t, j)}
    /\ undetermined' = IF pc[t] = "commit" THEN Set(undetermined, t, TRUE) ELSE undetermined
    /\ UNCHANGED <<db, clock, start, commit, pc, jobs, result, seen, expired, resolved, split,
                   cached>>

\* A request of which the client has seen the failure is executed after all, or is lost.
ExecuteStray ==
    \E r \in stray :
        /\ stray' = stray \ {r}
        /\ db' \in {db, Execute(r)}
        /\ UNCHANGED <<clock, start, commit, pc, jobs, result, undetermined, seen, expired,
                       resolved, split, cached, faults>>

\* Mutant: a lost answer to the commit of the primary key counts as a failure.
GiveUpDetermined(t, j) ==
    /\ faults < MaxFaults /\ faults' = faults + 1
    /\ pc[t] = "commit"
    /\ Fail(t)
    /\ UNCHANGED <<db, clock, start, commit, undetermined, seen, expired, resolved, stray,
                   split, cached>>

\* Backoff returns an error: the budget of the goroutine is spent.
GiveUp(t, j) ==
    /\ faults < MaxFaults /\ faults' = faults + 1
    /\ CASE pc[t] = "read" ->
                /\ pc' = Set(pc, t, "done")
                /\ result' = Set(result, t, "error")
                /\ jobs' = Set(jobs, t, {})
         [] pc[t] = "commit" /\ undetermined[t] ->
                /\ pc' = Set(pc, t, "done")
                /\ result' = Set(result, t, "undetermined")
                /\ jobs' = Set(jobs, t, {})
         [] pc[t] \in {"prewrite", "commit"} /\ ~undetermined[t] ->
                Fail(t)
         [] pc[t] = "cleanPrimary" ->
                /\ pc' = Set(pc, t, "done")
                /\ Replace(t, j, {})
                /\ UNCHANGED result
         [] pc[t] \in {"secondary", "cleanRest"} ->
                Replace(t, j, {}) /\ UNCHANGED <<pc, result>>
    /\ UNCHANGED <<db, clock, start, commit, undetermined, seen, expired, resolved, stray,
                   split, cached>>

\* The locks of t have outlived their time to live (IsExpired).
Expire(t) ==
    /\ t \notin expired
    /\ \E k \in KeysOf(t) : HasLock(db[k]) /\ db[k].lock.start = start[t]
    /\ expired' = expired \cup {t}
    /\ UNCHANGED <<db, clock, start, commit, pc, jobs, result, undetermined, seen, resolved,
                   stray, split, cached, faults>>

Split ==
    /\ faults < MaxFaults /\ faults' = faults + 1
    /\ ~split
    /\ split' = TRUE
    /\ UNCHANGED <<db, clock, start, commit, pc, jobs, result, undetermined, seen, expired,
                   resolved, stray, cached>>

\* The process ends and starts again: its goroutines and its cache are gone.
Crash ==
    /\ faults < MaxFaults /\ faults' = faults + 1
    /\ pc' = [t \in Txn |-> IF pc[t] = "idle" THEN "idle" ELSE "done"]
    /\ jobs' = [t \in Txn |-> {}]
    /\ resolved' = <<>>
    /\ cached' = split
    /\ UNCHANGED <<db, clock, start, commit, result, undetermined, seen, expired, stray, split>>

------------------------------------------------------------------------------

JobStep(t) ==
    \E j \in jobs[t] :
        \/ ReadBatch(t, j)
        \/ PrewriteBatch(t, j)
        \/ CommitPrimary(t, j)
        \/ CommitSecondary(t, j)
        \/ CleanPrimary(t, j)
        \/ CleanRest(t, j)
        \/ GetTxnStatus(t, j)
        \/ ResolveOne(t, j)

TxnStep(t) == Begin(t) \/ StartCommit(t) \/ GetCommitTS(t) \/ JobStep(t)

Fault(t) == Expire(t) \/ \E j \in jobs[t] : SendFails(t, j) \/ GiveUp(t, j)

Next ==
    \/ \E t \in Txn : TxnStep(t) \/ Fault(t)
    \/ ExecuteStray
    \/ Split
    \/ Crash

Spec == Init /\ [][Next]_vars

\* The scheduler runs every goroutine and time passes; a failed send is not followed by
\* failures for ever.
Fairness == \A t \in Txn : WF_vars(TxnStep(t)) /\ WF_vars(Expire(t))

FairSpec == Spec /\ Fairness

------------------------------------------------------------------------------
(* Properties *)

Lock == [key : Keys, start : Nat, primary : Keys]

\* The store, the timestamps, the phases and the goroutines have their types.
TypeOK ==
    /\ \A k \in Keys :
         /\ db[k].lock = NoLock \/ db[k].lock \in [start : 1..clock, primary : Keys, op : Ops]
         /\ \A v \in db[k].values :
              v \in [type : {"put", "del", "rollback"}, start : 1..clock, commit : 1..clock]
    /\ start \in [Txn -> 0..clock] /\ commit \in [Txn -> 0..clock]
    /\ pc \in [Txn -> Phases]
    /\ result \in [Txn -> {"none", "ok", "error", "undetermined"}]
    /\ seen \in [Txn -> [Keys -> {Unread} \cup 0..clock]]
    /\ \A t \in Txn : \A j \in jobs[t] : j.keys # {} /\ j.locks \subseteq Lock

\* The commit timestamp of t as its primary key tells it, 0 when t is not committed there.
CommittedAt(t) ==
    LET done == IF KeysOf(t) = {} THEN {}
                ELSE {v \in db[Primary(t)].values : v.start = start[t] /\ v.type # "rollback"}
    IN  IF done = {} THEN 0 ELSE (CHOOSE v \in done : TRUE).commit

\* Commit is atomic (commitLock, rollbackLock, ResolveLock): once the primary key is committed
\* every other key of the transaction is committed at the same timestamp or still carries its
\* lock, from which readers will commit it; before that no key shows a version of it.
AllOrNothing ==
    \A t \in Txn : start[t] > 0 =>
        \A k \in KeysOf(t) :
            IF CommittedAt(t) > 0
            THEN \/ OpOf[t][k] = "lock"
                 \/ db[k].lock.start = start[t]
                 \/ Version(OpOf[t][k], start[t], CommittedAt(t)) \in db[k].values
            ELSE \A v \in CommitInfo(db[k], start[t]) : v.type = "rollback"

Told(t) ==
    /\ result[t] = "ok" /\ KeysOf(t) # {} => CommittedAt(t) = commit[t]
    /\ result[t] = "error" => CommittedAt(t) = 0

LocksOnly(t) == {k \in KeysOf(t) : OpOf[t][k] = "lock"}

\* The caller is told the truth also about a transaction that only locks some of its keys
\* (2pc.go:435-436: a key that is neither locked nor committed was rolled back).
LockingResultTrue == \A t \in Txn : LocksOnly(t) # {} => Told(t)

\* The status that the lock resolver caches or carries from one request to the next is final
\* (getTxnStatus, saveResolved): the primary key never tells otherwise afterwards.
StatusFinal ==
    LET known == {[start |-> e.start, status |-> e.status] : e \in Elements(resolved)}
                 \cup UNION {{[start |-> j.cur.lock.start, status |-> j.cur.status] :
                                 j \in {i \in jobs[t] : i.cur # NoCur}} : t \in Txn}
    IN  \A e \in known :
          LET u == TxnAt(e.start)
          IN  /\ db[Primary(u)].lock.start # e.start
              /\ CommittedAt(u) = e.status

\* What is said about a transaction is true and stays true.  To the caller of txn.Commit: success
\* means committed at the commit timestamp, an error other than ErrResultUndetermined means that
\* no later request, not even one that was thought lost, commits the transaction.  Inside the
\* lock resolver: a status once found.  Transactions that only lock some of their keys
\* (LockKeys) are the subject of LockingResultTrue.
ResultTrue == (\A t \in Txn : LocksOnly(t) = {} => Told(t)) /\ StatusFinal

\* A read always returns: a lock in its way is released by its owner or, once it has expired,
\* resolved by the reader.
ReadReturns == \A t \in Txn : pc[t] = "read" ~> pc[t] # "read"
=============================================================================
