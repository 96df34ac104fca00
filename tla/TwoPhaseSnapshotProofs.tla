----------------------- MODULE TwoPhaseSnapshotProofs -----------------------
(***************************************************************************)
(* Two-phase commit implements snapshot isolation: every behaviour of      *)
(* TwoPhaseCommit is one of SnapshotTxn, for any transactions, keys,       *)
(* faults and any cache size.  A transaction commits, seen from outside,   *)
(* when its primary key does.                                              *)
(***************************************************************************)
EXTENDS TwoPhaseCommitProofs, TwoPhaseSnapshot

\* Leaves that name no prover are for Zenon; those the SMT solver proves say so.
USE ZenonT(20)

\* t has not read the keys its goroutines still ask for, and no two of them ask for the same.
ReadsOK(t) ==
    /\ start[t] = 0 => \A k \in Keys : seen[t][k] = Unread
    /\ pc[t] = "read" => \A j \in jobs[t] : \A k \in j.keys : seen[t][k] = Unread
    /\ pc[t] = "read" => \A i, j \in jobs[t] : i # j => i.keys \cap j.keys = {}

\* Whoever has read a key that t is about to commit has started before the commit timestamp of t.
ReadSafe ==
    \A t, u \in Txn : \A k \in KeysOf(t) :
        OpOf[t][k] # "lock" /\ commit[t] > 0 /\ ~Done(t) /\ ~Dead(t) /\ seen[u][k] # Unread
            => start[u] < commit[t]

ReadInv == (\A t \in Txn : ReadsOK(t)) /\ ReadSafe

\* Every step but Begin and GetCommitTS leaves the timestamps alone and is a step of the store.
Moves ==
    /\ start' = start /\ commit' = commit /\ clock' = clock
    /\ db' = db \/ \E s \in Txn : start[s] > 0 /\ StoreStep(s)

LEMMA RequestMoves ==
    ASSUME IInv, NEW t \in Txn, NEW j \in jobs[t], RequestOf(t, j).kind # "get",
           start' = start, commit' = commit, clock' = clock, db' = Execute(RequestOf(t, j))
    PROVE  Moves
<1>1. StoreInv
  BY DEF IInv
<1>2. Legit(RequestOf(t, j))
  BY RequestLegit
<1>3. \E s \in Txn : start[s] > 0 /\ StoreStep(s)
  BY <1>1, <1>2, ExecuteKept
<1> QED BY <1>3 DEF Moves

LEMMA JobMoves ==
    ASSUME IInv, NEW t \in Txn, JobStep(t)
    PROVE  Moves
<1>1. PICK j \in jobs[t] :
        \/ ReadBatch(t, j) \/ PrewriteBatch(t, j) \/ CommitPrimary(t, j) \/ CommitSecondary(t, j)
        \/ CleanPrimary(t, j) \/ CleanRest(t, j) \/ GetTxnStatus(t, j) \/ ResolveOne(t, j)
  BY DEF JobStep
<1>2. CASE ReadBatch(t, j)
  BY <1>2 DEF ReadBatch, Moves
<1>3. CASE PrewriteBatch(t, j)
  <2>1. start' = start /\ commit' = commit /\ clock' = clock /\ pc[t] = "prewrite" /\ Ready(j)
    BY <1>3 DEF PrewriteBatch
  <2>2. db' = db \/ db' = Execute(RequestOf(t, j))
    BY <1>3 DEF PrewriteBatch
  <2>3. RequestOf(t, j).kind # "get"
    BY SMTT(60), <2>1, RequestIs DEF Request
  <2> QED BY <2>1, <2>2, <2>3, RequestMoves DEF Moves
<1>4. CASE CommitPrimary(t, j)
  <2>1. start' = start /\ commit' = commit /\ clock' = clock /\ pc[t] = "commit"
    BY <1>4 DEF CommitPrimary
  <2>2. db' = db \/ db' = Execute(RequestOf(t, j))
    BY <1>4 DEF CommitPrimary
  <2>3. RequestOf(t, j).kind # "get"
    BY SMTT(60), <2>1, RequestIs DEF Request
  <2> QED BY <2>1, <2>2, <2>3, RequestMoves DEF Moves
<1>5. CASE CommitSecondary(t, j)
  <2>1. start' = start /\ commit' = commit /\ clock' = clock /\ pc[t] = "secondary"
    BY <1>5 DEF CommitSecondary
  <2>2. db' = db \/ db' = Execute(RequestOf(t, j))
    BY <1>5 DEF CommitSecondary
  <2>3. RequestOf(t, j).kind # "get"
    BY SMTT(60), <2>1, RequestIs DEF Request
  <2> QED BY <2>1, <2>2, <2>3, RequestMoves DEF Moves
<1>6. CASE CleanPrimary(t, j)
  <2>1. start' = start /\ commit' = commit /\ clock' = clock /\ pc[t] = "cleanPrimary"
    BY <1>6 DEF CleanPrimary
  <2>2. db' = db \/ db' = Execute(RequestOf(t, j))
    BY <1>6 DEF CleanPrimary
  <2>3. RequestOf(t, j).kind # "get"
    BY SMTT(60), <2>1, RequestIs DEF Request
  <2> QED BY <2>1, <2>2, <2>3, RequestMoves DEF Moves
<1>7. CASE CleanRest(t, j)
  <2>1. start' = start /\ commit' = commit /\ clock' = clock /\ pc[t] = "cleanRest"
    BY <1>7 DEF CleanRest
  <2>2. db' = db \/ db' = Execute(RequestOf(t, j))
    BY <1>7 DEF CleanRest
  <2>3. RequestOf(t, j).kind # "get"
    BY SMTT(60), <2>1, RequestIs DEF Request
  <2> QED BY <2>1, <2>2, <2>3, RequestMoves DEF Moves
<1>8. CASE GetTxnStatus(t, j)
  <2> DEFINE l == NextLock(j)
  <2>1. start' = start /\ commit' = commit /\ clock' = clock /\ ~Ready(j)
    BY <1>8 DEF GetTxnStatus
  <2>2. db' = db \/ db' = Rollback(db, {l.primary}, l.start)
    BY <1>8 DEF GetTxnStatus
  <2>3. TrueLock(l) /\ StoreInv
    BY <2>1, NextLockIs DEF IInv
  <2>4. PICK u \in Txn : start[u] > 0 /\ l.start = start[u] /\ l.primary = Primary(u) /\ l.key \in KeysOf(u)
    BY <2>3 DEF TrueLock
  <2>5. Primary(u) \in KeysOf(u)
    BY <2>4, KeysAreKeys
  <2>6. db' = Rollback(db, {Primary(u)}, start[u]) => StoreStep(u)
    BY <2>1, <2>3, <2>4, <2>5, RollbackSteps
  <2> QED BY <2>1, <2>2, <2>4, <2>6 DEF Moves
<1>9. CASE ResolveOne(t, j)
  <2>1. start' = start /\ commit' = commit /\ clock' = clock /\ j.cur # NoCur
        /\ db' = Execute(RequestOf(t, j))
    BY <1>9 DEF ResolveOne
  <2>2. RequestOf(t, j).kind # "get"
    BY SMTT(60), <2>1, RequestIs DEF Request
  <2> QED BY <2>1, <2>2, RequestMoves
<1> QED BY <1>1, <1>2, <1>3, <1>4, <1>5, <1>6, <1>7, <1>8, <1>9

LEMMA StepMoves ==
    ASSUME IInv, [Next]_vars
    PROVE  Moves \/ \E t \in Txn : Begin(t) \/ GetCommitTS(t)
<1>1. CASE \E t \in Txn : TxnStep(t)
  BY <1>1, JobMoves DEF TxnStep, StartCommit, Moves
<1>2. CASE \E t \in Txn : Fault(t)
  BY <1>2 DEF Fault, Expire, SendFails, GiveUp, Moves
<1>3. CASE ExecuteStray
  <2>1. StoreInv /\ StrayOK
    BY DEF IInv
  <2>2. PICK r \in stray : db' \in {db, Execute(r)}
    BY <1>3 DEF ExecuteStray
  <2>3. start' = start /\ commit' = commit /\ clock' = clock
    BY <1>3 DEF ExecuteStray
  <2>4. db' = Execute(r) => \E s \in Txn : start[s] > 0 /\ StoreStep(s)
    BY <2>1, <2>3, ExecuteKept DEF StrayOK
  <2> QED BY <2>2, <2>3, <2>4 DEF Moves
<1>4. CASE Split \/ Crash \/ UNCHANGED vars
  BY <1>4 DEF Split, Crash, vars, Moves
<1> QED BY <1>1, <1>2, <1>3, <1>4 DEF Next

\* Such a step commits one transaction at most.
LEMMA MovesExtend ==
    ASSUME StoreInv, Moves
    PROVE  /\ Extends
           /\ \/ \A u \in Txn : Done(u)' <=> Done(u)
              \/ \E s \in Txn : start[s] > 0 /\ \A u \in Txn : u # s => (Done(u)' <=> Done(u))
<1>1. CASE db' = db
  BY <1>1, IdleKept DEF Moves, Kept
<1>2. ASSUME NEW s \in Txn, start[s] > 0, StoreStep(s)
      PROVE  Extends /\ \A u \in Txn : u # s => (Done(u)' <=> Done(u))
  BY <1>2, StoreStepKept DEF Moves, Kept
<1> QED BY <1>1, <1>2 DEF Moves

------------------------------------------------------------------------------
(* The invariant of the reads *)

\* A goroutine that reads is replaced by ones that ask for some of its keys.
LEMMA ReadsStay ==
    ASSUME NEW t \in Txn, ReadsOK(t), start'[t] = start[t], seen'[t] = seen[t],
           pc'[t] = "read" => pc[t] = "read",
           pc[t] = "read" =>
             \/ jobs'[t] = jobs[t]
             \/ jobs'[t] = {}
             \/ \E j \in jobs[t] : \E i : i.keys = j.keys /\ jobs'[t] = (jobs[t] \ {j}) \cup {i}
    PROVE  ReadsOK(t)'
<1>1. start'[t] = 0 => \A k \in Keys : seen'[t][k] = Unread
  BY DEF ReadsOK
<1>2. ASSUME pc'[t] = "read"
      PROVE  /\ \A j \in jobs'[t] : \A k \in j.keys : seen'[t][k] = Unread
             /\ \A i, j \in jobs'[t] : i # j => i.keys \cap j.keys = {}
  <2>1. CASE jobs'[t] = jobs[t] \/ jobs'[t] = {}
    BY <1>2, <2>1 DEF ReadsOK
  <2>2. ASSUME NEW j \in jobs[t], NEW i, i.keys = j.keys, jobs'[t] = (jobs[t] \ {j}) \cup {i}
        PROVE  /\ \A x \in jobs'[t] : \A k \in x.keys : seen'[t][k] = Unread
               /\ \A x, y \in jobs'[t] : x # y => x.keys \cap y.keys = {}
    <3>1. /\ \A x \in jobs[t] : \A k \in x.keys : seen[t][k] = Unread
          /\ \A x, y \in jobs[t] : x # y => x.keys \cap y.keys = {}
      BY <1>2 DEF ReadsOK
    <3>2. \A x \in jobs'[t] : x = i \/ (x \in jobs[t] /\ x # j)
      BY <2>2
    <3>3. \A x \in jobs'[t] : x # i => x.keys \cap i.keys = {}
      BY <2>2, <3>1, <3>2
    <3>4. ASSUME NEW x \in jobs'[t], NEW y \in jobs'[t], x # y PROVE x.keys \cap y.keys = {}
      BY <3>1, <3>2, <3>3, <3>4
    <3>5. \A x \in jobs'[t] : \A k \in x.keys : seen'[t][k] = Unread
      BY <2>2, <3>1, <3>2
    <3> QED BY <3>4, <3>5
  <2> QED BY <1>2, <2>1, <2>2
<1> QED BY <1>1, <1>2 DEF ReadsOK

\* What a transaction has seen changes only by a read.
LEMMA OnlyReadsSee ==
    ASSUME [Next]_vars, seen' # seen
    PROVE  \E t \in Txn : \E j \in jobs[t] : ReadBatch(t, j)
<1>1. ASSUME NEW w \in Txn, TxnStep(w) PROVE \E j \in jobs[w] : ReadBatch(w, j)
  <2>1. ~Begin(w) /\ ~StartCommit(w) /\ ~GetCommitTS(w)
    BY DEF Begin, StartCommit, GetCommitTS
  <2>2. \A j : /\ ~PrewriteBatch(w, j) /\ ~CommitPrimary(w, j) /\ ~CommitSecondary(w, j)
               /\ ~CleanPrimary(w, j) /\ ~CleanRest(w, j)
    BY DEF PrewriteBatch, CommitPrimary, CommitSecondary, CleanPrimary, CleanRest
  <2>3. \A j : ~GetTxnStatus(w, j) /\ ~ResolveOne(w, j)
    BY DEF GetTxnStatus, ResolveOne
  <2> QED BY <1>1, <2>1, <2>2, <2>3 DEF TxnStep, JobStep
<1>2. CASE \E w \in Txn : Fault(w)
  BY <1>2 DEF Fault, Expire, SendFails, GiveUp
<1>3. CASE ExecuteStray \/ Split \/ Crash \/ UNCHANGED vars
  BY <1>3 DEF ExecuteStray, Split, Crash, vars
<1> QED BY <1>1, <1>2, <1>3 DEF Next

\* What a read returns, and the goroutine it leaves.
LEMMA ReadBatchIs ==
    ASSUME ClientType, NEW t \in Txn, NEW j \in jobs[t], ReadBatch(t, j), ~OutOfRegion(j.keys)
    PROVE  /\ \A u \in Txn : u # t => seen'[u] = seen[u] /\ jobs'[u] = jobs[u]
           /\ \A k \in Keys : seen'[t][k] = IF k \in j.keys /\ ~ReadBlocked(db[k], start[t])
                                            THEN Visible(db[k], start[t]) ELSE seen[t][k]
           /\ \A i \in jobs'[t] :
                \/ i \in jobs[t] /\ i # j
                \/ i.keys = {k \in j.keys : ReadBlocked(db[k], start[t])}
           /\ \A i, m \in jobs'[t] : i # m => (i \in jobs[t] /\ i # j) \/ (m \in jobs[t] /\ m # j)
<1> DEFINE blocked == {k \in j.keys : ReadBlocked(db[k], start[t])}
           new == IF blocked = {} THEN {} ELSE {ResolveFirst(Job(blocked), blocked)}
           row == [k \in Keys |-> IF k \in j.keys \ blocked THEN Visible(db[k], start[t])
                                  ELSE seen[t][k]]
<1>1. jobs' = [jobs EXCEPT ![t] = (@ \ {j}) \cup new]
  BY DEF ReadBatch, Replace
<1>2. seen' = [seen EXCEPT ![t] = row]
  BY DEF ReadBatch, ClientType
<1>3. /\ jobs'[t] = (jobs[t] \ {j}) \cup new /\ seen'[t] = row
      /\ \A u \in Txn : u # t => seen'[u] = seen[u] /\ jobs'[u] = jobs[u]
  BY <1>1, <1>2 DEF ClientType
<1>4. \A i \in new : i.keys = blocked
  BY SMTT(60) DEF ResolveFirst, Job
<1>5. \A i, m \in new : i = m
  OBVIOUS
<1>6. \A k \in Keys : seen'[t][k] = IF k \in j.keys /\ ~ReadBlocked(db[k], start[t])
                                    THEN Visible(db[k], start[t]) ELSE seen[t][k]
  BY <1>3
<1>7. \A i \in jobs'[t] : (i \in jobs[t] /\ i # j) \/ i.keys = blocked
  BY <1>3, <1>4
<1>8. \A i, m \in jobs'[t] : i # m => (i \in jobs[t] /\ i # j) \/ (m \in jobs[t] /\ m # j)
  <2> HIDE DEF new
  <2> QED BY <1>3, <1>5
<1> QED BY <1>3, <1>6, <1>7, <1>8

LEMMA ReadsKept ==
    ASSUME IInv, [Next]_vars, \A t \in Txn : ReadsOK(t)
    PROVE  \A t \in Txn : ReadsOK(t)'
<1>1. ClientType /\ TimesOK /\ \A t \in Txn : PhaseOK(t)
  BY DEF IInv, TxnOK, StoreInv
<1>2. ASSUME NEW t \in Txn, Begin(t) PROVE \A u \in Txn : ReadsOK(u)'
  <2>1. /\ pc[t] = "idle" /\ seen' = seen /\ pc'[t] = "read" /\ jobs'[t] = JobsFor(ReadSet[t], cached)
        /\ start'[t] = clock + 1
        /\ \A u \in Txn : u # t => pc'[u] = pc[u] /\ jobs'[u] = jobs[u] /\ start'[u] = start[u]
    BY <1>1, <1>2 DEF Begin, Set, ClientType, TimesOK
  <2>2. \A u \in Txn : u # t => ReadsOK(u)'
    BY <2>1, ReadsStay
  <2>3. start[t] = 0 /\ ReadSet[t] \subseteq Keys /\ clock \in Nat
    BY <1>1, <2>1, TxnAssumption DEF PhaseOK, TimesOK
  <2>4. \A k \in Keys : seen'[t][k] = Unread
    BY <2>1, <2>3 DEF ReadsOK
  <2>5. /\ \A j \in jobs'[t] : j.keys \subseteq Keys
        /\ \A i, j \in jobs'[t] : i # j => i.keys \cap j.keys = {}
    <3>1. /\ \A j \in JobsFor(ReadSet[t], cached) : j.keys \subseteq ReadSet[t]
          /\ \A i, j \in JobsFor(ReadSet[t], cached) : i # j => i.keys \cap j.keys = {}
      BY <2>3, JobsForAre
    <3>2. \A j \in JobsFor(ReadSet[t], cached) : j.keys \subseteq Keys
      BY <2>3, <3>1
    <3> QED BY <2>1, <3>1, <3>2
  <2>6. ReadsOK(t)'
    BY <2>1, <2>3, <2>4, <2>5 DEF ReadsOK
  <2> QED BY <2>2, <2>6
<1>3. ASSUME NEW t \in Txn, StartCommit(t) \/ GetCommitTS(t) PROVE \A u \in Txn : ReadsOK(u)'
  <2>1. /\ seen' = seen /\ start' = start /\ pc'[t] # "read"
        /\ \A u \in Txn : u # t => pc'[u] = pc[u] /\ jobs'[u] = jobs[u]
    BY <1>1, <1>3 DEF StartCommit, GetCommitTS, Fail, Set, ClientType
  <2>2. \A u \in Txn : u # t => ReadsOK(u)'
    BY <2>1, ReadsStay
  <2>3. ReadsOK(t)'
    BY <2>1 DEF ReadsOK
  <2> QED BY <2>2, <2>3
<1>4. ASSUME NEW t \in Txn, NEW j \in jobs[t], ReadBatch(t, j) PROVE \A u \in Txn : ReadsOK(u)'
  <2>1. /\ start' = start /\ pc' = pc /\ pc[t] = "read" /\ start[t] # 0 /\ j.keys \subseteq Keys
    <3>1. start' = start /\ pc' = pc /\ pc[t] = "read"
      BY <1>4 DEF ReadBatch
    <3>2. start[t] > 0 /\ j \in JobSet
      BY Busy
    <3> QED BY SMTT(60), <3>1, <3>2 DEF JobSet
  <2>2. /\ \A x \in jobs[t] : \A k \in x.keys : seen[t][k] = Unread
        /\ \A x, y \in jobs[t] : x # y => x.keys \cap y.keys = {}
        /\ \A x \in jobs[t] : x.keys \subseteq Keys
    BY SMTT(60), <1>1, <2>1 DEF ReadsOK, ClientType, JobSet
  <2>3. CASE OutOfRegion(j.keys)
    <3>1. seen' = seen /\ Replace(t, j, JobsFor(j.keys, split))
      BY <1>4, <2>3 DEF ReadBatch, RegionRetry
    <3>2. jobs'[t] = (jobs[t] \ {j}) \cup JobsFor(j.keys, split) /\ \A u \in Txn : u # t => jobs'[u] = jobs[u]
      BY <1>1, <3>1, ReplaceIs
    <3>3. /\ \A x \in JobsFor(j.keys, split) : x.keys \subseteq j.keys
          /\ \A x, y \in JobsFor(j.keys, split) : x # y => x.keys \cap y.keys = {}
      BY SMTT(60), <2>1, JobsForAre
    <3>4. \A x \in jobs'[t] : (x \in jobs[t] /\ x # j) \/ x \in JobsFor(j.keys, split)
      BY <3>2
    <3>5. \A x \in jobs'[t] : \A k \in x.keys : seen'[t][k] = Unread
      BY <2>2, <3>1, <3>3, <3>4
    <3>6. ASSUME NEW x \in jobs'[t], NEW y \in jobs'[t], x # y PROVE x.keys \cap y.keys = {}
      <4>1. CASE x \in JobsFor(j.keys, split) /\ y \in JobsFor(j.keys, split)
        BY <3>3, <3>6, <4>1
      <4>2. CASE x \in JobsFor(j.keys, split) /\ y \in jobs[t] /\ y # j
        BY <2>2, <3>3, <4>2
      <4>3. CASE y \in JobsFor(j.keys, split) /\ x \in jobs[t] /\ x # j
        BY <2>2, <3>3, <4>3
      <4>4. CASE x \in jobs[t] /\ y \in jobs[t]
        BY <2>2, <3>6, <4>4
      <4> QED BY <3>4, <4>1, <4>2, <4>3, <4>4
    <3>7. ReadsOK(t)'
      BY <2>1, <3>5, <3>6 DEF ReadsOK
    <3>8. \A u \in Txn : u # t => ReadsOK(u)'
      BY <2>1, <3>1, <3>2, ReadsStay
    <3> QED BY <3>7, <3>8
  <2>4. CASE ~OutOfRegion(j.keys)
    <3>1. /\ \A u \in Txn : u # t => seen'[u] = seen[u] /\ jobs'[u] = jobs[u]
          /\ \A k \in Keys : seen'[t][k] = IF k \in j.keys /\ ~ReadBlocked(db[k], start[t])
                                           THEN Visible(db[k], start[t]) ELSE seen[t][k]
          /\ \A i \in jobs'[t] : \/ i \in jobs[t] /\ i # j
                                 \/ i.keys = {k \in j.keys : ReadBlocked(db[k], start[t])}
          /\ \A i, m \in jobs'[t] : i # m => (i \in jobs[t] /\ i # j) \/ (m \in jobs[t] /\ m # j)
      BY <1>1, <1>4, <2>4, ReadBatchIs
    <3>2. ASSUME NEW x \in jobs'[t], NEW k \in x.keys PROVE seen'[t][k] = Unread
      <4>1. CASE x \in jobs[t] /\ x # j
        <5>1. k \in Keys /\ k \notin j.keys
          BY <2>2, <3>2, <4>1
        <5> QED BY <2>2, <3>1, <3>2, <4>1, <5>1
      <4>2. CASE x.keys = {y \in j.keys : ReadBlocked(db[y], start[t])}
        <5>1. k \in j.keys /\ ReadBlocked(db[k], start[t])
          BY <3>2, <4>2
        <5> QED BY <2>1, <2>2, <3>1, <5>1
      <4> QED BY <3>1, <4>1, <4>2
    <3>3. ASSUME NEW x \in jobs'[t], NEW y \in jobs'[t], x # y PROVE x.keys \cap y.keys = {}
      BY SMTT(60), <2>2, <3>1, <3>3
    <3>4. ReadsOK(t)'
      BY <2>1, <3>2, <3>3 DEF ReadsOK
    <3>5. \A u \in Txn : u # t => ReadsOK(u)'
      BY <2>1, <3>1, ReadsStay
    <3> QED BY <3>4, <3>5
  <2> QED BY <2>3, <2>4
<1>5. ASSUME NEW t \in Txn, NEW j \in jobs[t],
             PrewriteBatch(t, j) \/ CommitPrimary(t, j) \/ CommitSecondary(t, j) \/ CleanPrimary(t, j) \/ CleanRest(t, j)
      PROVE  \A u \in Txn : ReadsOK(u)'
  <2>1. seen' = seen /\ start' = start /\ pc[t] # "read"
    BY <1>5 DEF PrewriteBatch, CommitPrimary, CommitSecondary, CleanPrimary, CleanRest
  <2>2. pc'[t] # "read" /\ \A u \in Txn : u # t => pc'[u] = pc[u]
    BY <1>1, <1>5 DEF PrewriteBatch, CommitPrimary, CommitSecondary, CleanPrimary, CleanRest, Fail, Set, ClientType
  <2>3. \A u \in Txn : u # t => jobs'[u] = jobs[u]
    BY <1>1, <1>5 DEF PrewriteBatch, CommitPrimary, CommitSecondary, CleanPrimary, CleanRest, Fail, Set,
                      RegionRetry, Replace, ClientType
  <2>4. \A u \in Txn : u # t => ReadsOK(u)'
    BY <2>1, <2>2, <2>3, ReadsStay
  <2>5. ReadsOK(t)'
    BY <2>1, <2>2 DEF ReadsOK
  <2> QED BY <2>4, <2>5
<1>6. ASSUME NEW t \in Txn, NEW j \in jobs[t], GetTxnStatus(t, j) \/ ResolveOne(t, j)
      PROVE  \A u \in Txn : ReadsOK(u)'
  <2>1. seen' = seen /\ start' = start /\ pc' = pc
    BY <1>6 DEF GetTxnStatus, ResolveOne
  <2>2. j \in JobSet
    BY <1>1 DEF ClientType
  <2>3. \E i : i.keys = j.keys /\ Replace(t, j, {i})
    <3>1. CASE GetTxnStatus(t, j)
      <4> DEFINE status == IF IsResolved(NextLock(j).start) THEN StatusOf(NextLock(j).start)
                           ELSE CleanupStatus(db[NextLock(j).primary], NextLock(j).start)
                 i == [j EXCEPT !.cur = [lock |-> NextLock(j), status |-> status]]
      <4>1. Replace(t, j, {i})
        BY <3>1 DEF GetTxnStatus
      <4>2. i.keys = j.keys
        BY <2>2 DEF JobSet
      <4> HIDE DEF i
      <4> QED BY <4>1, <4>2
    <3>2. CASE ResolveOne(t, j)
      <4> DEFINE clean == {m \in j.locks : m.start = j.cur.lock.start /\ m.key \in RegionOf(j.cur.lock.key, split)}
                 i == [j EXCEPT !.locks = @ \ clean, !.cur = NoCur]
      <4>1. Replace(t, j, {i})
        BY <3>2 DEF ResolveOne
      <4>2. i.keys = j.keys
        BY <2>2 DEF JobSet
      <4> HIDE DEF i
      <4> QED BY <4>1, <4>2
    <3> QED BY <1>6, <3>1, <3>2
  <2>4. PICK i : i.keys = j.keys /\ Replace(t, j, {i})
    BY <2>3
  <2>5. jobs'[t] = (jobs[t] \ {j}) \cup {i} /\ \A u \in Txn : u # t => jobs'[u] = jobs[u]
    BY <1>1, <2>4, ReplaceIs
  <2>6. ReadsOK(t)'
    BY <2>1, <2>4, <2>5, ReadsStay
  <2>7. \A u \in Txn : u # t => ReadsOK(u)'
    BY <2>1, <2>5, ReadsStay
  <2> QED BY <2>6, <2>7
<1>7. ASSUME NEW t \in Txn, NEW j \in jobs[t], GiveUp(t, j) PROVE \A u \in Txn : ReadsOK(u)'
  <2>1. seen' = seen /\ start' = start
    BY <1>7 DEF GiveUp
  <2>2. pc'[t] # "read" /\ \A u \in Txn : u # t => pc'[u] = pc[u]
    <3>1. pc[t] \in Phases /\ pc[t] \notin {"idle", "done"}
      BY <1>1 DEF ClientType, PhaseOK
    <3>2. CASE pc[t] \in {"secondary", "cleanRest"}
      BY <1>7, <3>2 DEF GiveUp
    <3>3. CASE pc[t] = "read" \/ pc[t] = "cleanPrimary"
      BY <1>1, <1>7, <3>3 DEF GiveUp, Set, ClientType
    <3>4. CASE pc[t] = "commit" /\ undetermined[t]
      BY <1>1, <1>7, <3>4 DEF GiveUp, Set, ClientType
    <3>5. CASE pc[t] \in {"prewrite", "commit"} /\ ~undetermined[t]
      BY <1>1, <1>7, <3>5 DEF GiveUp, Fail, Set, ClientType
    <3>6. CASE pc[t] = "prewrite" /\ undetermined[t]
      BY <1>1, <3>6 DEF PhaseOK
    <3> QED BY <3>1, <3>2, <3>3, <3>4, <3>5, <3>6 DEF Phases
  <2>3. \A u \in Txn : u # t => jobs'[u] = jobs[u]
    <3>1. pc[t] \in Phases /\ pc[t] \notin {"idle", "done"}
      BY <1>1 DEF ClientType, PhaseOK
    <3>2. CASE pc[t] \in {"secondary", "cleanRest", "cleanPrimary"}
      BY <1>1, <1>7, <3>2 DEF GiveUp, Replace, ClientType
    <3>3. CASE pc[t] = "read"
      BY <1>1, <1>7, <3>3 DEF GiveUp, Set, ClientType
    <3>4. CASE pc[t] = "commit" /\ undetermined[t]
      BY <1>1, <1>7, <3>4 DEF GiveUp, Set, ClientType
    <3>5. CASE pc[t] \in {"prewrite", "commit"} /\ ~undetermined[t]
      BY <1>1, <1>7, <3>5 DEF GiveUp, Fail, Set, ClientType
    <3>6. CASE pc[t] = "prewrite" /\ undetermined[t]
      BY <1>1, <3>6 DEF PhaseOK
    <3> QED BY <3>1, <3>2, <3>3, <3>4, <3>5, <3>6 DEF Phases
  <2>4. \A u \in Txn : u # t => ReadsOK(u)'
    BY <2>1, <2>2, <2>3, ReadsStay
  <2>5. ReadsOK(t)'
    BY <2>1, <2>2 DEF ReadsOK
  <2> QED BY <2>4, <2>5
<1>8. CASE Crash
  <2>1. seen' = seen /\ start' = start /\ \A u \in Txn : pc'[u] # "read"
    BY <1>8 DEF Crash
  <2> QED BY <2>1 DEF ReadsOK
<1>9. ASSUME UNCHANGED <<seen, start, pc, jobs>> PROVE \A u \in Txn : ReadsOK(u)'
  BY <1>9, ReadsStay
<1>10. CASE \E t \in Txn : Expire(t) \/ \E j \in jobs[t] : SendFails(t, j)
  BY <1>9, <1>10 DEF Expire, SendFails
<1>11. CASE ExecuteStray \/ Split \/ UNCHANGED vars
  BY <1>9, <1>11 DEF ExecuteStray, Split, vars
<1>12. CASE \E t \in Txn : TxnStep(t)
  BY <1>2, <1>3, <1>4, <1>5, <1>6, <1>12 DEF TxnStep, JobStep
<1>13. CASE \E t \in Txn : Fault(t)
  BY <1>7, <1>10, <1>13 DEF Fault
<1> QED BY <1>8, <1>11, <1>12, <1>13 DEF Next

\* A key that is being committed is locked, and its lock turns away the readers that start later.
LEMMA SafeKept ==
    ASSUME IInv, IInv', [Next]_vars, \A t \in Txn : ReadsOK(t), ReadSafe
    PROVE  ReadSafe'
<1>1. StoreInv /\ ClientType /\ TimesOK /\ \A t \in Txn : PhaseOK(t)
  BY DEF IInv, TxnOK, StoreInv
<1> SUFFICES ASSUME NEW t \in Txn, NEW u \in Txn, NEW k \in KeysOf(t), OpOf[t][k] # "lock", commit'[t] > 0,
                    ~Done(t)', ~Dead(t)', seen'[u][k] # Unread
             PROVE  start'[u] < commit'[t]
  BY DEF ReadSafe
<1>2. k \in Keys
  BY KeysAreKeys
<1>3. ASSUME Moves PROVE start[u] < commit[t]
  <2>1. start' = start /\ commit' = commit /\ Extends
    BY <1>1, <1>3, MovesExtend DEF Moves
  <2>2. ~Done(t) /\ ~Dead(t) /\ start[t] > 0
    BY <1>1, <2>1 DEF Extends, TimesOK
  <2>3. CASE seen[u][k] # Unread
    BY <2>1, <2>2, <2>3 DEF ReadSafe
  <2>4. CASE seen[u][k] = Unread
    <3>1. PICK j \in jobs[u] : ReadBatch(u, j) /\ k \in j.keys /\ ~ReadBlocked(db[k], start[u])
      <4>1. seen' # seen
        BY <2>4
      <4>2. PICK w \in Txn : \E j \in jobs[w] : ReadBatch(w, j)
        BY <4>1, OnlyReadsSee
      <4>3. PICK j \in jobs[w] : ReadBatch(w, j)
        BY <4>2
      <4>4. ~OutOfRegion(j.keys)
        BY <4>1, <4>3 DEF ReadBatch
      <4>5. /\ \A x \in Txn : x # w => seen'[x] = seen[x]
            /\ \A y \in Keys : seen'[w][y] = IF y \in j.keys /\ ~ReadBlocked(db[y], start[w])
                                             THEN Visible(db[y], start[w]) ELSE seen[w][y]
        BY <1>1, <4>3, <4>4, ReadBatchIs
      <4>6. w = u
        BY <2>4, <4>5
      <4> QED BY <1>2, <2>4, <4>3, <4>5, <4>6
    <3>2. Mutates(t)
      BY WritersMutate
    <3>3. Locked(t, k)
      BY <1>1, <2>1, <2>2, <3>2 DEF StoreInv, Prepared
    <3>4. HasLock(db[k]) /\ db[k].lock.start = start[t] /\ db[k].lock.op = OpOf[t][k]
      BY SMTT(60), <2>2, <3>3 DEF Locked, Own, HasLock, NoLock
    <3>5. start[t] \in Nat /\ start[u] \in Nat /\ commit[t] \in Nat /\ start[t] < commit[t]
      BY <1>1, <2>1 DEF TimesOK
    <3>6. ~(start[t] <= start[u])
      BY <3>1, <3>4 DEF ReadBlocked
    <3> QED BY SMTT(60), <3>5, <3>6
  <2> QED BY <2>3, <2>4
<1>4. ASSUME NEW s \in Txn, Begin(s) PROVE start'[u] < commit'[t]
  <2>1. /\ pc[s] = "idle" /\ start' = [start EXCEPT ![s] = clock + 1] /\ commit' = commit /\ seen' = seen
    BY <1>4 DEF Begin, Set
  <2>2. start[s] = 0
    BY <1>1, <2>1 DEF PhaseOK
  <2>3. u # s
    BY <1>2, <2>1, <2>2 DEF ReadsOK
  <2>4. start'[u] = start[u]
    BY <1>1, <2>1, <2>3 DEF TimesOK
  <2>5. \A x \in Txn : (Done(x)' <=> Done(x)) /\ (start[x] > 0 /\ Dead(x) => Dead(x)')
    BY <1>1, <1>4, <2>2, BeginKept DEF Begin, Extends
  <2>6. start[t] > 0
    BY <1>1, <2>1 DEF TimesOK
  <2> QED BY <2>1, <2>4, <2>5, <2>6 DEF ReadSafe
<1>5. ASSUME NEW s \in Txn, GetCommitTS(s) PROVE start'[u] < commit'[t]
  <2>1. start' = start /\ commit' = [commit EXCEPT ![s] = clock + 1] /\ seen' = seen /\ db' = db
    BY <1>5 DEF GetCommitTS, Set
  <2>2. CASE t = s
    BY SMTT(60), <1>1, <2>1, <2>2 DEF TimesOK
  <2>3. CASE t # s
    <3>1. commit'[t] = commit[t]
      BY <1>1, <2>1, <2>3 DEF TimesOK
    <3>2. Mark(t, Primary(t))' = Mark(t, Primary(t)) /\ Tomb(t)' = Tomb(t)
      BY <2>1, <3>1 DEF Mark, Tomb
    <3>3. ~Done(t) /\ ~Dead(t)
      BY <2>1, <3>2 DEF Done, Dead
    <3> QED BY <2>1, <3>1, <3>3 DEF ReadSafe
  <2> QED BY <2>2, <2>3
<1>6. CASE Moves
  BY <1>3, <1>6 DEF Moves
<1> QED BY <1>4, <1>5, <1>6, StepMoves

------------------------------------------------------------------------------
(* The refinement *)

\* The commit timestamps as a snapshot sees them.
Visibly == [t \in Txn |-> CommittedAt(t)]

LEMMA VisiblyIs ==
    ASSUME StoreInv, NEW t \in Txn
    PROVE  Visibly[t] = IF Done(t) THEN commit[t] ELSE 0
BY DoneIs DEF Visibly

VisiblyTrue ==
    \A t \in Txn : /\ Visibly[t] = IF Done(t) THEN commit[t] ELSE 0
                   /\ Done(t) => commit[t] > 0 /\ start[t] > 0 /\ Mutates(t)

LEMMA VisiblyNow == StoreInv => VisiblyTrue
BY VisiblyIs, DoneIs DEF VisiblyTrue

LEMMA VisiblyNext == StoreInv' => VisiblyTrue'
BY VisiblyNow, PTL

\* The keys t writes, and the keys it touches.
LEMMA AbsWrites ==
    ASSUME NEW t \in Txn
    PROVE  /\ Abs!Writes(t) = {k \in KeysOf(t) : OpOf[t][k] # "lock"}
           /\ Abs!Writes(t) \cup OpKeys("lock")[t] = KeysOf(t)
           /\ \A k : k \in OpKeys("put")[t] <=> k \in KeysOf(t) /\ OpOf[t][k] = "put"
<1>1. \A k \in KeysOf(t) : OpOf[t][k] \in {"put", "del", "lock"}
  BY OpsAre DEF Ops
<1>2. Abs!Writes(t) = OpKeys("put")[t] \cup OpKeys("del")[t]
  BY DEF Abs!Writes
<1>3. /\ OpKeys("put")[t] = {k \in KeysOf(t) : OpOf[t][k] = "put"}
      /\ OpKeys("del")[t] = {k \in KeysOf(t) : OpOf[t][k] = "del"}
      /\ OpKeys("lock")[t] = {k \in KeysOf(t) : OpOf[t][k] = "lock"}
  BY DEF OpKeys
<1> QED BY <1>1, <1>2, <1>3

\* A read that no lock turns away returns the newest version below the snapshot.
LEMMA VisibleIsValue ==
    ASSUME StoreInv, NEW t \in Txn, NEW k \in Keys, ~ReadBlocked(db[k], start[t])
    PROVE  Abs!IsValue(k, start[t], Visible(db[k], start[t]))
<1> DEFINE ts == start[t]
           S == {v \in db[k].values : v.type # "rollback" /\ v.commit <= ts}
<1>1. Abs!Covered(k, ts) = {u \in Txn : Visibly[u] > 0 /\ k \in Abs!Writes(u) /\ Visibly[u] <= ts}
  BY DEF Abs!Covered, Abs!Committed, Visibly
<1>2. ts \in Nat /\ \A u \in Txn : start[u] \in Nat /\ commit[u] \in Nat
  BY DEF StoreInv, TimesOK
<1>3. ASSUME NEW u \in Abs!Covered(k, ts) PROVE u \in Txn /\ Mark(u, k) \in S /\ Visibly[u] = commit[u]
  <2>1. u \in Txn /\ Done(u) /\ Visibly[u] = commit[u] /\ commit[u] > 0 /\ commit[u] <= ts
    BY SMTT(60), <1>1, <1>3, VisiblyIs
  <2>2. k \in KeysOf(u) /\ OpOf[u][k] # "lock"
    BY <1>1, <1>3, AbsWrites
  <2>3. start[u] > 0 /\ start[u] < commit[u] /\ Mutates(u) /\ ~Dead(u)
    BY <2>1, DoneIs DEF StoreInv, TimesOK, Decided
  <2>4. ~Locked(u, k)
    <3> SUFFICES ASSUME Locked(u, k) PROVE FALSE
      OBVIOUS
    <3>1. HasLock(db[k]) /\ db[k].lock.start = start[u] /\ db[k].lock.op = OpOf[u][k]
      BY SMTT(60), <2>3 DEF Locked, Own, HasLock, NoLock
    <3>2. start[u] <= ts
      BY SMTT(60), <1>2, <2>1, <2>3
    <3> QED BY <2>2, <3>1, <3>2 DEF ReadBlocked
  <2>5. Mark(u, k) \in db[k].values
    BY <2>1, <2>2, <2>3, <2>4 DEF StoreInv, Prepared
  <2>6. Mark(u, k).type # "rollback" /\ Mark(u, k).commit = commit[u]
    BY <2>1, <2>2, OpsAre DEF Mark, Version
  <2> QED BY <2>1, <2>5, <2>6
<1>4. ASSUME NEW v \in S PROVE \E u \in Abs!Covered(k, ts) : v = Mark(u, k) /\ OpOf[u][k] # "lock" /\ k \in KeysOf(u)
  <2>1. PICK u \in Txn :
          /\ start[u] > 0 /\ k \in KeysOf(u)
          /\ v = Tomb(u) \/ (v = Mark(u, k) /\ commit[u] > 0 /\ OpOf[u][k] # "lock" /\ Done(u))
    BY <1>4 DEF StoreInv, VersionsTrue
  <2>2. v = Mark(u, k) /\ commit[u] > 0 /\ OpOf[u][k] # "lock" /\ Done(u)
    BY SMTT(60), <1>4, <2>1 DEF Tomb, Version
  <2>3. v.commit = commit[u]
    BY <2>2 DEF Mark, Version
  <2>4. Visibly[u] = commit[u]
    BY <2>2, VisiblyIs
  <2>5. k \in Abs!Writes(u)
    BY <2>1, <2>2, AbsWrites
  <2>6. u \in Abs!Covered(k, ts)
    BY <1>1, <1>4, <2>2, <2>3, <2>4, <2>5
  <2> QED BY <2>1, <2>2, <2>6
<1>5. CASE S = {}
  <2>1. Visible(db[k], ts) = 0
    BY <1>5 DEF Visible
  <2>2. Abs!Covered(k, ts) = {}
    BY <1>3, <1>5
  <2> QED BY <2>1, <2>2 DEF Abs!IsValue
<1>6. CASE S # {}
  <2>1. Newest(S) \in S /\ \A w \in S : w.commit <= Newest(S).commit
    BY <1>6, NewestIs
  <2>2. PICK u \in Abs!Covered(k, ts) : Newest(S) = Mark(u, k) /\ OpOf[u][k] # "lock" /\ k \in KeysOf(u)
    BY <1>4, <2>1
  <2>3. u \in Txn /\ Visibly[u] = commit[u]
    BY <1>3, <2>2
  <2>4. \A w \in Abs!Covered(k, ts) : Visibly[w] <= Visibly[u]
    <3> SUFFICES ASSUME NEW w \in Abs!Covered(k, ts) PROVE Visibly[w] <= Visibly[u]
      OBVIOUS
    <3>1. Mark(w, k) \in S /\ Visibly[w] = commit[w]
      BY <1>3
    <3>2. Mark(w, k).commit = commit[w] /\ Mark(u, k).commit = commit[u]
      BY DEF Mark, Version
    <3> QED BY <2>1, <2>2, <2>3, <3>1, <3>2
  <2>5. Newest(S).type = OpOf[u][k] /\ Newest(S).start = start[u]
    BY SMTT(60), <2>2 DEF Mark, Version
  <2>6. Visible(db[k], ts) = IF Newest(S).type = "del" THEN 0 ELSE Newest(S).start
    BY <1>6 DEF Visible
  <2>7. OpOf[u][k] \in {"put", "del"}
    BY <2>2, <2>3, OpsAre DEF Ops
  <2>8. k \in OpKeys("put")[u] <=> OpOf[u][k] = "put"
    BY <2>2, <2>3, AbsWrites
  <2>9. Visible(db[k], ts) = IF k \in OpKeys("put")[u] THEN start[u] ELSE 0
    BY <2>5, <2>6, <2>7, <2>8
  <2> HIDE DEF S
  <2> QED BY <2>2, <2>4, <2>9 DEF Abs!IsValue, Visibly
<1> QED BY <1>5, <1>6

\* A step of the store that commits s is the commit of the abstract transaction.
LEMMA CommitRefines ==
    ASSUME IInv, IInv', ReadInv, NEW s \in Txn, start' = start, commit' = commit, seen' = seen, Extends,
           ~Done(s), Done(s)', \A u \in Txn : u # s => (Done(u)' <=> Done(u))
    PROVE  Abs!Commit(s)
<1>1. StoreInv /\ StoreInv' /\ TimesOK /\ ReadSafe
  BY DEF IInv, ReadInv, StoreInv
<1>2. start[s] > 0 /\ commit[s] > 0 /\ Mutates(s)
  <2>1. commit'[s] > 0 /\ start'[s] > 0 /\ Mutates(s)'
    BY <1>1, VisiblyNext DEF VisiblyTrue
  <2> QED BY <2>1 DEF Mutates
<1>3. ~Dead(s)
  BY <1>1, <1>2 DEF Extends, StoreInv, Decided
<1>4. \A k \in KeysOf(s) : Locked(s, k)
  BY <1>1, <1>2, <1>3 DEF StoreInv, Prepared
<1>5. /\ start[s] \in Nat /\ commit[s] \in Nat /\ start[s] < commit[s] /\ commit[s] <= clock
  BY <1>1, <1>2 DEF TimesOK
<1>6. Visibly[s] = 0 /\ \A u \in Txn : Visibly[u] = 0 \/ (Visibly[u] = commit[u] /\ u # s)
  BY <1>1, VisiblyIs
<1>7. Visibly' = [Visibly EXCEPT ![s] = commit[s]]
  <2>1. \A u \in Txn : Visibly'[u] = IF Done(u)' THEN commit[u] ELSE 0
    BY <1>1, VisiblyNext DEF VisiblyTrue
  <2>2. \A u \in Txn : Visibly'[u] = IF u = s THEN commit[s] ELSE Visibly[u]
    BY <1>1, <2>1, VisiblyIs
  <2>3. Visibly' = [u \in Txn |-> Visibly'[u]] /\ Visibly = [u \in Txn |-> Visibly[u]]
    BY DEF Visibly
  <2> QED BY <2>2, <2>3
<1>8. ASSUME NEW u \in Txn, Visibly[u] > 0, Abs!Writes(u) \cap (Abs!Writes(s) \cup OpKeys("lock")[s]) # {}
      PROVE  Visibly[u] < start[s]
  <2>1. Visibly[u] = commit[u] /\ u # s /\ Done(u)
    BY SMTT(60), <1>1, <1>6, <1>8, VisiblyIs
  <2>2. PICK k \in KeysOf(u) : OpOf[u][k] # "lock" /\ k \in KeysOf(s)
    BY <1>8, AbsWrites
  <2>3. k \in Keys
    BY <2>2, KeysAreKeys
  <2>4. start[u] > 0 /\ commit[u] > 0 /\ Mutates(u) /\ ~Dead(u)
    BY <1>1, <2>1, DoneIs DEF StoreInv, Decided
  <2>5. db[k].lock.start = start[s]
    <3>1. Locked(s, k)
      BY <1>4, <2>2
    <3> QED BY SMTT(60), <3>1 DEF Locked, Own
  <2>6. ~Locked(u, k)
    <3>1. start[u] # start[s]
      BY <1>1, <2>1, <2>4 DEF TimesOK
    <3> QED BY SMTT(60), <2>5, <3>1 DEF Locked, Own
  <2>7. Mark(u, k) \in db[k].values
    BY <1>1, <2>2, <2>4, <2>6 DEF StoreInv, Prepared
  <2>8. Mark(u, k).type # "rollback" /\ Mark(u, k).commit = commit[u]
    BY <2>2, OpsAre DEF Mark, Version
  <2>9. Mark(u, k).commit < start[s]
    BY <1>1, <1>2, <2>3, <2>5, <2>7, <2>8 DEF StoreInv, LockNewest
  <2> QED BY <2>1, <2>8, <2>9
<1>9. \A u \in Txn, k \in Abs!Writes(s) : seen[u][k] # Unread => start[u] < commit[s]
  <2> SUFFICES ASSUME NEW u \in Txn, NEW k \in Abs!Writes(s), seen[u][k] # Unread PROVE start[u] < commit[s]
    OBVIOUS
  <2>1. k \in KeysOf(s) /\ OpOf[s][k] # "lock"
    BY AbsWrites
  <2> QED BY <1>1, <1>2, <1>3, <2>1 DEF ReadSafe
<1>10. \A u \in Txn : start[u] # commit[s] /\ Visibly[u] # commit[s]
  BY SMTT(60), <1>1, <1>2, <1>6 DEF TimesOK
<1>11. commit[s] \in Nat /\ s \in DOMAIN Visibly
  BY <1>5 DEF Visibly
<1> QED
  <2>1. start[s] > 0 /\ ~Abs!Committed(s) /\ start' = start /\ seen' = seen
    <3>1. ~(Visibly[s] > 0)
      BY SMTT(60), <1>6
    <3> QED BY <1>2, <3>1 DEF Abs!Committed, Visibly
  <2>2. \A u \in Txn : Abs!Committed(u) /\ Abs!Writes(u) \cap (Abs!Writes(s) \cup OpKeys("lock")[s]) # {}
                         => Visibly[u] < start[s]
    BY <1>8 DEF Abs!Committed, Visibly
  <2>3. commit[s] > start[s]
    BY <1>5
  <2>4. /\ \A u \in Txn, k \in Abs!Writes(s) : seen[u][k] # Abs!Unread => start[u] < commit[s]
    BY <1>9 DEF Unread, Abs!Unread
  <2>5. Visibly'[s] = commit[s]
    BY <1>7, <1>11
  <2>6. PICK c \in Nat : c = commit[s]
    BY <1>11
  <2> QED BY <1>7, <1>10, <2>1, <2>2, <2>3, <2>4, <2>5, <2>6 DEF Abs!Commit, Visibly

\* Every step is a step of the snapshot specification or changes nothing it sees.
LEMMA StepRefines ==
    ASSUME IInv, ReadInv, IInv', ReadInv', [Next]_vars
    PROVE  [Abs!Next]_(Abs!vars)
<1>1. StoreInv /\ StoreInv' /\ ClientType /\ ClientType' /\ TimesOK /\ ReadSafe
      /\ \A t \in Txn : PhaseOK(t) /\ ReadsOK(t)
  BY DEF IInv, ReadInv, StoreInv, TxnOK
<1>2. ASSUME \A u \in Txn : Visibly'[u] = Visibly[u] PROVE Visibly' = Visibly
  BY <1>2 DEF Visibly
<1>3. \A u \in Txn : Visibly[u] = (IF Done(u) THEN commit[u] ELSE 0) /\ Visibly'[u] = IF Done(u)' THEN commit'[u] ELSE 0
  <2>1. \A u \in Txn : Visibly'[u] = IF Done(u)' THEN commit'[u] ELSE 0
    BY <1>1, VisiblyNext DEF VisiblyTrue
  <2> QED BY <1>1, <2>1, VisiblyIs
<1>4. ASSUME NEW t \in Txn, Begin(t) PROVE Abs!Begin(t)
  <2>1. /\ pc[t] = "idle" /\ start' = [start EXCEPT ![t] = clock'] /\ clock' = clock + 1
        /\ commit' = commit /\ seen' = seen /\ db' = db
    BY <1>4 DEF Begin, Set
  <2>2. start[t] = 0
    BY <1>1, <2>1 DEF PhaseOK
  <2>3. \A u \in Txn : Done(u)' <=> Done(u)
    BY <1>1, <1>4, <2>2, BeginKept DEF Begin
  <2>4. Visibly' = Visibly
    BY <1>2, <1>3, <2>1, <2>3
  <2>5. clock' \in Nat /\ start'[t] = clock'
    BY SMTT(60), <1>1, <2>1 DEF TimesOK
  <2>6. \A u \in Txn : start[u] < clock' /\ Visibly[u] < clock'
    BY SMTT(60), <1>1, <1>3, <2>1 DEF TimesOK
  <2> QED BY <2>1, <2>2, <2>4, <2>5, <2>6 DEF Abs!Begin, Visibly
<1>5. ASSUME NEW t \in Txn, GetCommitTS(t) PROVE UNCHANGED Abs!vars
  <2>1. /\ pc[t] = "prewrite" /\ commit' = [commit EXCEPT ![t] = clock + 1] /\ db' = db
        /\ start' = start /\ seen' = seen
    BY <1>5 DEF GetCommitTS, Set
  <2>2. commit[t] = 0 /\ \A u \in Txn : u # t => commit'[u] = commit[u]
    BY <1>1, <2>1 DEF PhaseOK, TimesOK
  <2>3. \A u \in Txn : u # t => (Done(u)' <=> Done(u))
    BY <2>1, <2>2 DEF Done, Mark
  <2>4. ~Done(t) /\ ~Done(t)'
    <3>1. ~Done(t)
      <4>1. Done(t) => commit[t] > 0
        BY <1>1, DoneIs
      <4> QED BY SMTT(60), <2>2, <4>1
    <3>2. ASSUME Done(t)' PROVE FALSE
      <4>1. Primary(t) \in Keys /\ Mark(t, Primary(t))' \in db[Primary(t)].values
        BY <2>1, <3>2, KeysAreKeys DEF Done
      <4>2. Mark(t, Primary(t))'.commit = clock + 1
        BY <1>1, <2>1 DEF Mark, Version, TimesOK
      <4>3. clock + 1 <= clock
        BY <1>1, <4>1, <4>2, StoreIsOld
      <4>4. clock \in Nat
        BY <1>1 DEF TimesOK
      <4> QED BY SMTT(60), <4>3, <4>4
    <3> QED BY <3>1, <3>2
  <2>5. Visibly' = Visibly
    BY <1>2, <1>3, <2>2, <2>3, <2>4
  <2> QED BY <2>1, <2>5 DEF Abs!vars, Visibly
<1>6. ASSUME NEW t \in Txn, NEW j \in jobs[t], ReadBatch(t, j) PROVE [Abs!Read(t)]_(Abs!vars)
  <2>1. pc[t] = "read" /\ start' = start /\ commit' = commit /\ db' = db /\ clock' = clock
    BY <1>6 DEF ReadBatch
  <2>2. Visibly' = Visibly
    <3>1. \A u \in Txn : Done(u)' <=> Done(u)
      BY <1>1, <2>1, IdleKept
    <3> QED BY <1>2, <1>3, <2>1, <3>1
  <2>3. CASE OutOfRegion(j.keys)
    BY <1>6, <2>1, <2>2, <2>3 DEF ReadBatch, Abs!vars, Visibly
  <2>4. CASE ~OutOfRegion(j.keys)
    <3>1. /\ \A u \in Txn : u # t => seen'[u] = seen[u]
          /\ \A k \in Keys : seen'[t][k] = IF k \in j.keys /\ ~ReadBlocked(db[k], start[t])
                                           THEN Visible(db[k], start[t]) ELSE seen[t][k]
      BY <1>1, <1>6, <2>4, ReadBatchIs
    <3>2. start[t] > 0
      BY SMTT(60), <1>1, <2>1 DEF PhaseOK, TimesOK
    <3>3. \A k \in j.keys : seen[t][k] = Unread
      BY <1>1, <2>1 DEF ReadsOK
    <3>4. ASSUME NEW u \in Txn, NEW k \in Keys
          PROVE  \/ seen'[u][k] = seen[u][k]
                 \/ u = t /\ seen[t][k] = Unread /\ Abs!IsValue(k, start[t], seen'[t][k])
      BY <1>1, <3>1, <3>3, VisibleIsValue
    <3>5. seen' \in [Txn -> [Keys -> Nat \cup {Unread}]]
      BY <1>1 DEF ClientType
    <3>6. Abs!Read(t)
      BY <2>1, <2>2, <3>2, <3>4, <3>5 DEF Abs!Read, Abs!Unread, Unread, Visibly
    <3> QED BY <3>6
  <2> QED BY <2>3, <2>4
<1>7. ASSUME Moves, seen' = seen PROVE [\E s \in Txn : Abs!Commit(s)]_(Abs!vars)
  <2>1. start' = start /\ commit' = commit /\ Extends
    BY <1>1, <1>7, MovesExtend DEF Moves
  <2>2. CASE \A u \in Txn : Done(u)' <=> Done(u)
    <3>1. Visibly' = Visibly
      BY <1>2, <1>3, <2>1, <2>2
    <3> QED BY <1>7, <2>1, <3>1 DEF Abs!vars, Visibly
  <2>3. ASSUME NEW s \in Txn, start[s] > 0, ~(Done(s)' <=> Done(s)), \A u \in Txn : u # s => (Done(u)' <=> Done(u))
        PROVE  Abs!Commit(s)
    <3>1. ~Done(s) /\ Done(s)'
      BY <2>1, <2>3 DEF Extends
    <3> QED BY <1>7, <2>1, <2>3, <3>1, CommitRefines
  <2>4. \/ \A u \in Txn : Done(u)' <=> Done(u)
        \/ \E s \in Txn : start[s] > 0 /\ \A u \in Txn : u # s => (Done(u)' <=> Done(u))
    BY <1>1, <1>7, MovesExtend
  <2> QED BY <2>2, <2>3, <2>4
<1>8. seen' = seen \/ \E t \in Txn : \E j \in jobs[t] : ReadBatch(t, j)
  BY OnlyReadsSee
<1>9. Moves \/ \E t \in Txn : Begin(t) \/ GetCommitTS(t)
  BY StepMoves
<1> QED BY <1>4, <1>5, <1>6, <1>7, <1>8, <1>9 DEF Abs!Next

------------------------------------------------------------------------------
(* The theorem *)

LEMMA ReadInvariance == Spec => [](IInv /\ ReadInv)
<1>1. Init => IInv /\ ReadInv
  <2> SUFFICES ASSUME Init PROVE ReadInv
    BY InitHolds
  <2>1. \A t \in Txn : start[t] = 0 /\ commit[t] = 0 /\ pc[t] = "idle" /\ \A k \in Keys : seen[t][k] = Unread
    BY DEF Init
  <2> QED BY <2>1 DEF ReadInv, ReadsOK, ReadSafe
<1>2. (IInv /\ ReadInv) /\ [Next]_vars => (IInv /\ ReadInv)'
  <2> SUFFICES ASSUME IInv, ReadInv, [Next]_vars PROVE IInv' /\ ReadInv'
    OBVIOUS
  <2>1. IInv'
    BY NextKeeps
  <2>2. (\A t \in Txn : ReadsOK(t)) /\ ReadSafe
    BY DEF ReadInv
  <2>3. \A t \in Txn : ReadsOK(t)'
    BY <2>2, ReadsKept
  <2>4. ReadSafe'
    BY <2>1, <2>2, SafeKept
  <2> QED BY <2>1, <2>3, <2>4 DEF ReadInv
<1> QED BY <1>1, <1>2, PTL DEF Spec

\* Two-phase commit implements snapshot isolation: for every set of transactions and keys and all
\* the faults of the model, reads see the newest version below their snapshot, a transaction
\* commits at one moment, and two writers of a key do not overlap (txn.go, 2pc.go, snapshot.go,
\* lock_resolver.go over mvcc_leveldb.go).
THEOREM ImplementsSnapshots == Spec => Snapshot
<1>1. Init => Abs!Init
  <2> SUFFICES ASSUME Init PROVE Abs!Init
    OBVIOUS
  <2>1. StoreInv
    BY InitHolds DEF IInv
  <2>2. \A t \in Txn : ~Done(t)
    BY SMTT(60), <2>1, DoneIs DEF Init
  <2>3. \A t \in Txn : CommittedAt(t) = 0
    BY <2>1, <2>2, DoneIs
  <2> QED BY <2>3 DEF Init, Abs!Init, Unread, Abs!Unread
<1>2. (IInv /\ ReadInv) /\ (IInv /\ ReadInv)' /\ [Next]_vars => [Abs!Next]_(Abs!vars)
  BY StepRefines
<1> QED BY <1>1, <1>2, ReadInvariance, PTL DEF Spec, Snapshot, Abs!Spec
=============================================================================
