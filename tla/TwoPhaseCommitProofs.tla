------------------------ MODULE TwoPhaseCommitProofs ------------------------
(***************************************************************************)
(* Two-phase commit is atomic and tells the truth, and implements snapshot *)
(* isolation, for any transactions, keys, faults and any cache size.       *)
(*                                                                         *)
(* The argument has two layers.  Whatever happens to the store happens by  *)
(* requests, and each request that is ever sent, retried or executed late  *)
(* is legitimate: it asks for what is already decided at the primary key,  *)
(* or it takes the primary key along.  Legitimate requests only ever do    *)
(* one of three things to a key (StoreStep), and these keep the store      *)
(* consistent.                                                             *)
(***************************************************************************)
EXTENDS TwoPhaseCommit, TLAPS

\* Leaves that name no prover are for Zenon; those the SMT solver proves say so.
USE ZenonT(20)

VersionSet == [type : {"put", "del", "rollback"}, start : Nat, commit : Nat]

EntrySet == [lock : [start : Nat, primary : Nat, op : Ops \cup {"none"}], values : SUBSET VersionSet]

\* The lock, the version and the rollback record of t.
Own(t, k) == [start |-> start[t], primary |-> Primary(t), op |-> OpOf[t][k]]

Mark(t, k) == Version(OpOf[t][k], start[t], commit[t])

Tomb(t) == Version("rollback", start[t], start[t])

Locked(t, k) == db[k].lock = Own(t, k)

\* t is committed at its primary key, or rolled back there.
Done(t) == KeysOf(t) # {} /\ Mark(t, Primary(t)) \in db[Primary(t)].values

Dead(t) == KeysOf(t) # {} /\ Tomb(t) \in db[Primary(t)].values

\* t changes something: its primary key is not only locked.
Mutates(t) == KeysOf(t) # {} /\ OpOf[t][Primary(t)] # "lock"

------------------------------------------------------------------------------
(* The invariant of the store *)

\* The oracle gives out each timestamp once.
TimesOK ==
    /\ clock \in Nat /\ start \in [Txn -> Nat] /\ commit \in [Txn -> Nat]
    /\ \A t \in Txn : start[t] <= clock /\ commit[t] <= clock
    /\ \A t \in Txn : commit[t] > 0 => start[t] > 0 /\ start[t] < commit[t]
    /\ \A t, u \in Txn : start[t] > 0 /\ start[t] = start[u] => t = u
    /\ \A t, u \in Txn : commit[t] > 0 => commit[t] # start[u]
    /\ \A t, u \in Txn : commit[t] > 0 /\ commit[t] = commit[u] => t = u

\* A lock is that of a transaction on one of its keys.
LocksTrue ==
    \A k \in Keys : db[k].lock = NoLock \/ \E t \in Txn : start[t] > 0 /\ k \in KeysOf(t) /\ Locked(t, k)

\* A version is the rollback record of a transaction, or what it wrote, and then it is committed
\* at its primary key.
VersionsTrue ==
    \A k \in Keys : \A v \in db[k].values : \E t \in Txn :
        /\ start[t] > 0 /\ k \in KeysOf(t)
        /\ v = Tomb(t) \/ (v = Mark(t, k) /\ commit[t] > 0 /\ OpOf[t][k] # "lock" /\ Done(t))

\* A transaction has not both a lock and a version on a key.
Exclusive ==
    \A t \in Txn, k \in Keys :
        start[t] > 0 /\ db[k].lock.start = start[t] => CommitInfo(db[k], start[t]) = {}

\* Nothing was committed on a key between the start of the transaction that locks it and now.
LockNewest ==
    \A t \in Txn, k \in Keys :
        start[t] > 0 /\ db[k].lock.start = start[t]
            => \A v \in db[k].values : v.type # "rollback" => v.commit < start[t]

\* The primary key decides once.
Decided == \A t \in Txn : start[t] > 0 => ~(Done(t) /\ Dead(t))

\* When a transaction has its commit timestamp it is rolled back, or each of its keys is locked
\* or, once the primary key is committed, written.
Prepared ==
    \A t \in Txn : Mutates(t) /\ commit[t] > 0 =>
        \/ Dead(t)
        \/ \A k \in KeysOf(t) :
             Locked(t, k) \/ (Done(t) /\ (OpOf[t][k] = "lock" \/ Mark(t, k) \in db[k].values))

\* A non-empty set of numbers has a smallest one.  This is so in every state (NumbersAreOrdered);
\* as a part of the invariant it is at hand in the proofs that need it.
WellOrdered == \A S \in SUBSET Nat : S # {} => \E n \in S : \A m \in S : n <= m

StoreInv ==
    /\ WellOrdered /\ db \in [Keys -> EntrySet] /\ TimesOK /\ LocksTrue /\ VersionsTrue /\ Exclusive /\ LockNewest
    /\ Decided /\ Prepared

------------------------------------------------------------------------------
(* Constants *)

LEMMA Times ==
    ASSUME StoreInv
    PROVE  /\ clock \in Nat /\ start \in [Txn -> Nat] /\ commit \in [Txn -> Nat]
           /\ \A t, u \in Txn : start[t] > 0 /\ start[t] = start[u] => t = u
<1>1. TimesOK
  BY DEF StoreInv
<1> QED BY <1>1 DEF TimesOK

LEMMA KeysAreKeys ==
    ASSUME NEW t \in Txn
    PROVE  KeysOf(t) \subseteq Keys /\ (KeysOf(t) # {} => Primary(t) \in KeysOf(t))
<1>1. KeyList[t] \in Seq(Keys)
  BY TxnAssumption
<1>2. \A i \in 1..Len(KeyList[t]) : KeyList[t][i] \in Keys
  BY SMTT(60), <1>1
<1>3. KeysOf(t) # {} => 1 \in 1..Len(KeyList[t])
  BY SMTT(60), <1>1 DEF KeysOf, Elements
<1> QED BY <1>2, <1>3 DEF KeysOf, Elements, Primary

\* A transaction that writes a key writes its primary key.
LEMMA WritersMutate ==
    ASSUME NEW t \in Txn, NEW k \in KeysOf(t), OpOf[t][k] # "lock"
    PROVE  Mutates(t)
BY TxnAssumption DEF Mutates

LEMMA OpsAre ==
    ASSUME NEW t \in Txn, NEW k \in KeysOf(t)
    PROVE  OpOf[t][k] \in Ops /\ OpOf[t][k] # "none" /\ OpOf[t][k] # "rollback"
<1>1. k \in Keys
  BY KeysAreKeys
<1> QED BY <1>1, TxnAssumption DEF Ops

\* A bounded non-empty set of numbers has a largest one.
LEMMA LargestOf ==
    ASSUME WellOrdered, NEW S, S \subseteq Nat, S # {}, NEW b \in Nat, \A n \in S : n <= b
    PROVE  \E n \in S : \A m \in S : m <= n
<1> DEFINE T == {b - n : n \in S}
<1>1. T \in SUBSET Nat /\ T # {}
  <2>1. \A n \in S : b - n \in Nat
    BY SMTT(60)
  <2> QED BY <2>1
<1>2. PICK x \in T : \A y \in T : x <= y
  BY <1>1 DEF WellOrdered
<1>3. PICK n \in S : x = b - n
  OBVIOUS
<1>4. ASSUME NEW m \in S PROVE m <= n
  <2>1. b - n <= b - m
    BY <1>2, <1>3
  <2>2. m \in Nat /\ n \in Nat
    OBVIOUS
  <2> QED BY SMTT(60), <2>1, <2>2
<1> QED BY <1>4

------------------------------------------------------------------------------
(* Reading the store *)

\* What carries the start timestamp of t is of t.
LEMMA LockIs ==
    ASSUME StoreInv, NEW t \in Txn, start[t] > 0, NEW k \in Keys, db[k].lock.start = start[t]
    PROVE  Locked(t, k) /\ k \in KeysOf(t)
<1>1. db[k].lock # NoLock
  BY SMTT(60) DEF NoLock
<1>2. PICK u \in Txn : start[u] > 0 /\ k \in KeysOf(u) /\ Locked(u, k)
  BY <1>1 DEF StoreInv, LocksTrue
<1>3. start[u] = start[t]
  BY SMTT(60), <1>2 DEF Locked, Own
<1> QED BY <1>2, <1>3 DEF StoreInv, TimesOK

LEMMA VersionIs ==
    ASSUME StoreInv, NEW t \in Txn, start[t] > 0, NEW k \in Keys, NEW v \in db[k].values,
           v.start = start[t]
    PROVE  /\ k \in KeysOf(t)
           /\ \/ v = Tomb(t)
              \/ v = Mark(t, k) /\ commit[t] > 0 /\ OpOf[t][k] # "lock" /\ Done(t)
<1>1. PICK u \in Txn :
        /\ start[u] > 0 /\ k \in KeysOf(u)
        /\ v = Tomb(u) \/ (v = Mark(u, k) /\ commit[u] > 0 /\ OpOf[u][k] # "lock" /\ Done(u))
  BY DEF StoreInv, VersionsTrue
<1>2. start[u] = start[t]
  BY SMTT(60), <1>1 DEF Tomb, Mark, Version
<1>3. u = t
  BY <1>1, <1>2 DEF StoreInv, TimesOK
<1> QED BY <1>1, <1>3

\* The type of a version of t tells the rollback record from the write.
LEMMA VersionType ==
    ASSUME StoreInv, NEW t \in Txn, start[t] > 0, NEW k \in Keys, NEW v \in db[k].values,
           v.start = start[t]
    PROVE  /\ v.type = "rollback" => v = Tomb(t)
           /\ v.type # "rollback" => v = Mark(t, k) /\ commit[t] > 0 /\ OpOf[t][k] # "lock" /\ Done(t)
           /\ v.commit >= start[t]
<1>1. /\ k \in KeysOf(t)
      /\ \/ v = Tomb(t)
         \/ v = Mark(t, k) /\ commit[t] > 0 /\ OpOf[t][k] # "lock" /\ Done(t)
  BY VersionIs
<1>2. start[t] \in Nat /\ commit[t] \in Nat /\ (commit[t] > 0 => start[t] < commit[t])
  BY DEF StoreInv, TimesOK
<1>3. CASE v = Tomb(t)
  BY SMTT(60), <1>2, <1>3 DEF Tomb, Version
<1>4. CASE v = Mark(t, k) /\ commit[t] > 0 /\ OpOf[t][k] # "lock" /\ Done(t)
  <2>1. v.type # "rollback" /\ v.commit = commit[t]
    BY <1>1, <1>4, OpsAre DEF Mark, Version
  <2> QED BY SMTT(60), <1>2, <1>4, <2>1
<1> QED BY <1>1, <1>3, <1>4

\* Done is what CommittedAt says.
LEMMA DoneIs ==
    ASSUME StoreInv, NEW t \in Txn
    PROVE  /\ Done(t) => CommittedAt(t) = commit[t] /\ commit[t] > 0 /\ start[t] > 0 /\ Mutates(t)
           /\ ~Done(t) => CommittedAt(t) = 0
<1>1. KeysOf(t) # {} => Primary(t) \in Keys /\ Primary(t) \in KeysOf(t)
  BY KeysAreKeys
<1> DEFINE p == Primary(t)
           done == {v \in db[p].values : v.start = start[t] /\ v.type # "rollback"}
<1>2. \A k \in Keys : \A v \in db[k].values : v.start > 0
  BY SMTT(60) DEF StoreInv, VersionsTrue, Tomb, Mark, Version
<1>3. CASE Done(t)
  <2>1. Mark(t, p) \in db[p].values /\ Mark(t, p).start = start[t] /\ p \in Keys /\ p \in KeysOf(t)
    BY <1>1, <1>3 DEF Done, Mark, Version
  <2>2. start[t] > 0
    BY <1>2, <2>1
  <2>3. Mark(t, p).type # "rollback"
    BY <2>1, OpsAre DEF Mark, Version
  <2>4. commit[t] > 0 /\ OpOf[t][p] # "lock"
    BY <2>1, <2>2, <2>3, VersionType
  <2>5. \A v \in done : v.commit = commit[t]
    BY SMTT(60), <2>1, <2>2, VersionType DEF Mark, Version
  <2>6. done # {} /\ (CHOOSE v \in done : TRUE) \in done
    BY <2>1, <2>3
  <2>7. CommittedAt(t) = commit[t]
    BY <1>3, <2>5, <2>6 DEF CommittedAt, Done
  <2> QED BY <1>3, <2>1, <2>2, <2>4, <2>7 DEF Mutates, Done
<1>4. CASE ~Done(t) /\ KeysOf(t) # {}
  <2>1. done = {}
    <3> SUFFICES ASSUME NEW v \in done PROVE FALSE
      OBVIOUS
    <3>1. start[t] > 0
      BY <1>1, <1>2, <1>4
    <3> QED BY <1>1, <1>4, <3>1, VersionType
  <2> QED BY <1>4, <2>1 DEF CommittedAt
<1>5. CASE KeysOf(t) = {}
  BY <1>5 DEF CommittedAt, Done
<1> QED BY <1>3, <1>4, <1>5

------------------------------------------------------------------------------
(* What a legitimate request of t may do to a key *)

\* It locks the key, when nothing was committed there since t started and t has not been there.
Places(t, k) ==
    /\ k \in KeysOf(t) /\ db[k].lock = NoLock
    /\ CommitInfo(db[k], start[t]) = {} /\ \A v \in db[k].values : v.commit < start[t]
    /\ db'[k] = [lock |-> Own(t, k), values |-> db[k].values]

\* It turns the lock into a version, when the primary key is, or gets, committed.
Commits(t, k) ==
    /\ k \in KeysOf(t) /\ Locked(t, k) /\ commit[t] > 0 /\ (Mutates(t) => Done(t)')
    /\ db'[k] = [lock |-> NoLock,
                 values |-> db[k].values \cup IF OpOf[t][k] = "lock" THEN {} ELSE {Mark(t, k)}]

\* It leaves a rollback record, when the primary key has, or gets, one.
RollsBack(t, k) ==
    /\ k \in KeysOf(t) /\ CommitInfo(db[k], start[t]) = {} /\ ~Done(t) /\ Dead(t)'
    /\ db'[k] = [lock |-> IF db[k].lock.start = start[t] THEN NoLock ELSE db[k].lock,
                 values |-> db[k].values \cup {Tomb(t)}]

StoreStep(t) ==
    /\ db' \in [Keys -> EntrySet]
    /\ \A k \in Keys : db'[k] = db[k] \/ Places(t, k) \/ Commits(t, k) \/ RollsBack(t, k)

\* What was decided stays decided.
Extends ==
    /\ \A u \in Txn : start[u] > 0 => start'[u] = start[u]
    /\ \A u \in Txn : commit[u] > 0 => commit'[u] = commit[u]
    /\ \A u \in Txn : start[u] > 0 /\ Done(u) => Done(u)'
    /\ \A u \in Txn : start[u] > 0 /\ Dead(u) => Dead(u)'

\* Only t is decided by a step of t, and a lock goes only when its transaction is decided.
LEMMA StoreStepDecides ==
    ASSUME StoreInv, NEW t \in Txn, start[t] > 0, StoreStep(t), start' = start, commit' = commit
    PROVE  /\ Extends
           /\ \A u \in Txn : u # t => (Done(u)' <=> Done(u)) /\ (Dead(u)' <=> Dead(u))
           /\ \A u \in Txn, k \in Keys : Locked(u, k) /\ start[u] > 0 =>
                Locked(u, k)' \/ (u = t /\ (Dead(t)' \/ Commits(t, k)))
           /\ \A k \in Keys : \A v \in db'[k].values :
                \/ v \in db[k].values
                \/ v = Mark(t, k) /\ OpOf[t][k] # "lock" /\ Commits(t, k)
                \/ v = Tomb(t) /\ RollsBack(t, k)
           /\ \A k \in Keys : db[k].values \subseteq db'[k].values
           /\ \A u \in Txn, k \in Keys : start[u] > 0 /\ db'[k].lock.start = start[u] =>
                db[k].lock.start = start[u] \/ (u = t /\ Places(t, k))
<1>1. \A u \in Txn : \A k : Own(u, k)' = Own(u, k) /\ Mark(u, k)' = Mark(u, k) /\ Tomb(u)' = Tomb(u)
  BY DEF Own, Mark, Tomb
<1>2. \A k \in Keys : db[k] \in EntrySet
  BY DEF StoreInv
<1>3. \A k \in Keys : \A v \in db'[k].values :
         \/ v \in db[k].values
         \/ v = Mark(t, k) /\ OpOf[t][k] # "lock" /\ Commits(t, k)
         \/ v = Tomb(t) /\ RollsBack(t, k)
  BY SMTT(60) DEF StoreStep, Places, Commits, RollsBack
<1>4. \A k \in Keys : db[k].values \subseteq db'[k].values
  BY SMTT(60) DEF StoreStep, Places, Commits, RollsBack
<1>5. \A u \in Txn : KeysOf(u) # {} => Primary(u) \in Keys
  BY KeysAreKeys
<1>6. \A u \in Txn : (Done(u) => Done(u)') /\ (Dead(u) => Dead(u)')
  BY <1>1, <1>4, <1>5 DEF Done, Dead
<1>7. Extends
  BY <1>6 DEF Extends
<1>8. ASSUME NEW u \in Txn, u # t PROVE (Done(u)' <=> Done(u)) /\ (Dead(u)' <=> Dead(u))
  <2>1. start[u] # start[t]
    BY <1>8 DEF StoreInv, TimesOK
  <2>2. \A k : Mark(u, k) # Mark(t, k) /\ Mark(u, k) # Tomb(t) /\ Tomb(u) # Mark(t, k) /\ Tomb(u) # Tomb(t)
    BY <2>1 DEF Mark, Tomb, Version
  <2> QED BY <1>1, <1>3, <1>5, <1>6, <2>2 DEF Done, Dead
<1>9. ASSUME NEW u \in Txn, NEW k \in Keys, Locked(u, k), start[u] > 0
      PROVE  Locked(u, k)' \/ (u = t /\ (Dead(t)' \/ Commits(t, k)))
  <2>1. db[k].lock # NoLock /\ db[k].lock.start = start[u]
    BY SMTT(60), <1>9 DEF Locked, Own, NoLock
  <2>2. CASE db'[k] = db[k]
    BY <1>1, <1>9, <2>2 DEF Locked
  <2>3. CASE Places(t, k)
    BY <2>1, <2>3 DEF Places
  <2>4. CASE Commits(t, k)
    <3>1. start[u] = start[t]
      BY SMTT(60), <2>1, <2>4 DEF Commits, Locked, Own
    <3>2. u = t
      BY <3>1 DEF StoreInv, TimesOK
    <3> QED BY <2>4, <3>2
  <2>5. CASE RollsBack(t, k)
    <3>1. CASE start[u] = start[t]
      <4>1. u = t
        BY <3>1 DEF StoreInv, TimesOK
      <4> QED BY <2>5, <4>1 DEF RollsBack
    <3>2. CASE start[u] # start[t]
      BY SMTT(60), <1>1, <1>9, <2>1, <2>5, <3>2 DEF RollsBack, Locked
    <3> QED BY <3>1, <3>2
  <2> QED BY <2>2, <2>3, <2>4, <2>5 DEF StoreStep
<1>10. ASSUME NEW u \in Txn, NEW k \in Keys, start[u] > 0, db'[k].lock.start = start[u]
       PROVE  db[k].lock.start = start[u] \/ (u = t /\ Places(t, k))
  <2>1. CASE Places(t, k)
    <3>1. start[u] = start[t]
      BY SMTT(60), <1>10, <2>1 DEF Places, Own
    <3> QED BY <2>1, <3>1 DEF StoreInv, TimesOK
  <2>2. CASE Commits(t, k)
    BY SMTT(60), <1>10, <2>2 DEF Commits, NoLock
  <2>3. CASE RollsBack(t, k)
    BY SMTT(60), <1>10, <2>3 DEF RollsBack, NoLock
  <2> QED BY <1>10, <2>1, <2>2, <2>3 DEF StoreStep
<1> QED BY <1>3, <1>4, <1>7, <1>8, <1>9, <1>10

LEMMA StoreStepKeeps ==
    ASSUME StoreInv, NEW t \in Txn, start[t] > 0, StoreStep(t),
           start' = start, commit' = commit, clock' = clock
    PROVE  StoreInv'
<1>1. \A u \in Txn : \A k : Own(u, k)' = Own(u, k) /\ Mark(u, k)' = Mark(u, k) /\ Tomb(u)' = Tomb(u)
  BY DEF Own, Mark, Tomb
<1>2. /\ Extends
      /\ \A u \in Txn : u # t => (Done(u)' <=> Done(u)) /\ (Dead(u)' <=> Dead(u))
      /\ \A u \in Txn, k \in Keys : Locked(u, k) /\ start[u] > 0 =>
           Locked(u, k)' \/ (u = t /\ (Dead(t)' \/ Commits(t, k)))
  BY StoreStepDecides
<1>3. /\ \A k \in Keys : \A v \in db'[k].values :
           \/ v \in db[k].values
           \/ v = Mark(t, k) /\ OpOf[t][k] # "lock" /\ Commits(t, k)
           \/ v = Tomb(t) /\ RollsBack(t, k)
      /\ \A k \in Keys : db[k].values \subseteq db'[k].values
      /\ \A u \in Txn, k \in Keys : start[u] > 0 /\ db'[k].lock.start = start[u] =>
           db[k].lock.start = start[u] \/ (u = t /\ Places(t, k))
  BY StoreStepDecides
<1>4. TimesOK'
  BY DEF StoreInv, TimesOK
<1>5. LocksTrue'
  <2> SUFFICES ASSUME NEW k \in Keys, db'[k].lock # NoLock
               PROVE  \E u \in Txn : start[u] > 0 /\ k \in KeysOf(u) /\ Locked(u, k)'
    BY DEF LocksTrue
  <2>1. CASE Places(t, k)
    BY SMTT(60), <1>1, <2>1 DEF Places, Locked
  <2>2. CASE Commits(t, k)
    BY SMTT(60), <2>2 DEF Commits
  <2>3. CASE db'[k].lock = db[k].lock
    BY <1>1, <2>3 DEF StoreInv, LocksTrue, Locked
  <2> QED BY SMTT(60), <2>1, <2>2, <2>3 DEF StoreStep, RollsBack
<1>6. VersionsTrue'
  <2> SUFFICES ASSUME NEW k \in Keys, NEW v \in db'[k].values
               PROVE  \E u \in Txn :
                        /\ start[u] > 0 /\ k \in KeysOf(u)
                        /\ \/ v = Tomb(u)
                           \/ v = Mark(u, k) /\ commit[u] > 0 /\ OpOf[u][k] # "lock" /\ Done(u)'
    BY SMTT(60), <1>1 DEF VersionsTrue
  <2>1. CASE v \in db[k].values
    <3>1. PICK u \in Txn :
            /\ start[u] > 0 /\ k \in KeysOf(u)
            /\ v = Tomb(u) \/ (v = Mark(u, k) /\ commit[u] > 0 /\ OpOf[u][k] # "lock" /\ Done(u))
      BY <2>1 DEF StoreInv, VersionsTrue
    <3> QED BY <1>2, <3>1 DEF Extends
  <2>2. CASE v = Mark(t, k) /\ OpOf[t][k] # "lock" /\ Commits(t, k)
    <3>1. k \in KeysOf(t) /\ commit[t] > 0 /\ (Mutates(t) => Done(t)')
      BY <2>2 DEF Commits
    <3>2. Mutates(t)
      BY <2>2, <3>1, WritersMutate
    <3> QED BY <2>2, <3>1, <3>2
  <2>3. CASE v = Tomb(t) /\ RollsBack(t, k)
    BY <2>3 DEF RollsBack
  <2> QED BY <1>3, <2>1, <2>2, <2>3
<1>7. Exclusive'
  <2> SUFFICES ASSUME NEW u \in Txn, NEW k \in Keys, start[u] > 0, db'[k].lock.start = start[u],
                      NEW v \in db'[k].values, v.start = start[u]
               PROVE  FALSE
    BY DEF Exclusive, CommitInfo
  <2>1. CASE db[k].lock.start = start[u]
    <3>1. v \notin db[k].values
      BY <2>1 DEF StoreInv, Exclusive, CommitInfo
    <3>2. start[u] = start[t] /\ (Commits(t, k) \/ RollsBack(t, k))
      BY SMTT(60), <1>3, <3>1 DEF Mark, Tomb, Version
    <3> QED BY SMTT(60), <2>1, <3>2 DEF Commits, RollsBack, NoLock
  <2>2. CASE u = t /\ Places(t, k)
    BY SMTT(60), <2>2 DEF Places, CommitInfo
  <2> QED BY <1>3, <2>1, <2>2
<1>8. LockNewest'
  <2> SUFFICES ASSUME NEW u \in Txn, NEW k \in Keys, start[u] > 0, db'[k].lock.start = start[u],
                      NEW v \in db'[k].values, v.type # "rollback"
               PROVE  v.commit < start[u]
    BY DEF LockNewest
  <2>1. CASE db[k].lock.start = start[u]
    <3>1. CASE v \in db[k].values
      BY <2>1, <3>1 DEF StoreInv, LockNewest
    <3>2. CASE Commits(t, k)
      BY SMTT(60), <3>2 DEF Commits, NoLock
    <3>3. CASE v = Tomb(t)
      BY <3>3 DEF Tomb, Version
    <3> QED BY <1>3, <3>1, <3>2, <3>3
  <2>2. CASE u = t /\ Places(t, k)
    BY SMTT(60), <2>2 DEF Places
  <2> QED BY <1>3, <2>1, <2>2
<1>9. Decided'
  <2> SUFFICES ASSUME Done(t)', Dead(t)' PROVE FALSE
    BY <1>2 DEF StoreInv, Decided
  <2> DEFINE p == Primary(t)
  <2>1. p \in Keys /\ p \in KeysOf(t)
    BY KeysAreKeys DEF Done
  <2>2. Mark(t, p) \in db'[p].values /\ Tomb(t) \in db'[p].values
    BY <1>1 DEF Done, Dead
  <2>3. Mark(t, p) # Tomb(t) /\ Mark(t, p).start = start[t] /\ Tomb(t).start = start[t]
    BY <2>1, OpsAre DEF Mark, Tomb, Version
  <2>4. CASE Mark(t, p) \in db[p].values
    <3>1. Done(t)
      BY <2>1, <2>4 DEF Done
    <3>2. Tomb(t) \notin db[p].values
      BY <2>1, <3>1 DEF StoreInv, Decided, Dead
    <3> QED BY <1>3, <2>1, <2>2, <2>3, <3>1, <3>2 DEF RollsBack
  <2>5. CASE Mark(t, p) \notin db[p].values
    <3>1. Commits(t, p)
      BY <1>3, <2>1, <2>2, <2>3, <2>5
    <3>2. CommitInfo(db[p], start[t]) = {}
      <4>1. db[p].lock = Own(t, p)
        BY <3>1 DEF Commits, Locked
      <4>2. db[p].lock.start = start[t]
        BY SMTT(60), <4>1 DEF Own
      <4> QED BY <2>1, <4>2 DEF StoreInv, Exclusive
    <3>3. Tomb(t) \notin db[p].values
      BY <2>3, <3>2 DEF CommitInfo
    <3>4. Tomb(t) \notin db'[p].values
      BY SMTT(60), <2>3, <3>1, <3>3 DEF Commits
    <3> QED BY <2>2, <3>4
  <2> QED BY <2>4, <2>5
<1>10. Prepared'
  <2> SUFFICES ASSUME NEW u \in Txn, Mutates(u), commit[u] > 0, ~Dead(u)', NEW k \in KeysOf(u)
               PROVE  \/ Locked(u, k)'
                      \/ Done(u)' /\ (OpOf[u][k] = "lock" \/ Mark(u, k) \in db'[k].values)
    BY <1>1 DEF Prepared, Mutates
  <2>1. start[u] > 0 /\ k \in Keys
    BY KeysAreKeys DEF StoreInv, TimesOK
  <2>2. ~Dead(u)
    BY <1>2, <2>1 DEF Extends
  <2>3. Locked(u, k) \/ (Done(u) /\ (OpOf[u][k] = "lock" \/ Mark(u, k) \in db[k].values))
    BY <2>2 DEF StoreInv, Prepared
  <2>4. CASE Locked(u, k)
    <3>1. CASE u = t /\ Commits(t, k)
      BY SMTT(60), <3>1 DEF Commits
    <3> QED BY <1>2, <2>1, <2>4, <3>1
  <2>5. CASE ~Locked(u, k)
    BY <1>2, <1>3, <2>1, <2>3, <2>5 DEF Extends
  <2> QED BY <2>4, <2>5
<1>11. (db \in [Keys -> EntrySet])'
  BY DEF StoreStep
<1> QED BY <1>4, <1>5, <1>6, <1>7, <1>8, <1>9, <1>10, <1>11 DEF StoreInv

------------------------------------------------------------------------------
(* The requests *)

LEMMA EntriesTyped ==
    ASSUME StoreInv, NEW t \in Txn, start[t] > 0, NEW k \in Keys,
           db'[k] = db[k] \/ Places(t, k) \/ Commits(t, k) \/ RollsBack(t, k)
    PROVE  db'[k] \in EntrySet
<1>1. db[k] \in EntrySet /\ start[t] \in Nat /\ commit[t] \in Nat
  BY DEF StoreInv, TimesOK
<1>2. NoLock \in [start : Nat, primary : Nat, op : Ops \cup {"none"}]
  BY DEF NoLock
<1>3. Tomb(t) \in VersionSet
  BY <1>1 DEF Tomb, Version, VersionSet
<1>4. CASE Places(t, k)
  <2>1. Primary(t) \in Nat /\ OpOf[t][k] \in Ops
    BY <1>4, KeysAreKeys, OpsAre, TxnAssumption DEF Places
  <2>2. Own(t, k) \in [start : Nat, primary : Nat, op : Ops \cup {"none"}]
    BY <1>1, <2>1 DEF Own
  <2> QED BY SMTT(60), <1>1, <1>4, <2>2 DEF Places, EntrySet
<1>5. CASE Commits(t, k)
  <2>1. OpOf[t][k] \in Ops
    BY <1>5, OpsAre DEF Commits
  <2>2. OpOf[t][k] # "lock" => Mark(t, k) \in VersionSet
    BY <1>1, <2>1 DEF Mark, Version, VersionSet, Ops
  <2> QED BY SMTT(60), <1>1, <1>2, <1>5, <2>2 DEF Commits, EntrySet
<1>6. CASE RollsBack(t, k)
  BY SMTT(60), <1>1, <1>2, <1>3, <1>6 DEF RollsBack, EntrySet
<1> QED BY <1>1, <1>4, <1>5, <1>6

LEMMA StepTyped ==
    ASSUME StoreInv, NEW t \in Txn, start[t] > 0, db' = [k \in Keys |-> db'[k]],
           \A k \in Keys : db'[k] = db[k] \/ Places(t, k) \/ Commits(t, k) \/ RollsBack(t, k)
    PROVE  StoreStep(t)
<1>1. \A k \in Keys : db'[k] \in EntrySet
  BY EntriesTyped
<1> QED BY <1>1 DEF StoreStep

\* Nothing happens.
LEMMA StepIdle ==
    ASSUME StoreInv, NEW t \in Txn, db' = db
    PROVE  StoreStep(t)
BY DEF StoreInv, StoreStep

\* No two records share a timestamp, so none is replaced.
LEMMA PutAdds ==
    ASSUME StoreInv, NEW t \in Txn, start[t] > 0, NEW k \in Keys, CommitInfo(db[k], start[t]) = {}
    PROVE  /\ PutVersion(db[k].values, Tomb(t)) = db[k].values \cup {Tomb(t)}
           /\ commit[t] > 0 =>
                PutVersion(db[k].values, Mark(t, k)) = db[k].values \cup {Mark(t, k)}
<1>1. ASSUME NEW w \in db[k].values
      PROVE  w.commit # start[t] /\ (commit[t] > 0 => w.commit # commit[t])
  <2>1. PICK u \in Txn : start[u] > 0 /\ (w = Tomb(u) \/ (w = Mark(u, k) /\ commit[u] > 0))
    BY DEF StoreInv, VersionsTrue
  <2>2. w.start = start[u] /\ w.start # start[t]
    BY SMTT(60), <2>1 DEF Tomb, Mark, Version, CommitInfo
  <2>3. CASE w = Tomb(u)
    <3>1. w.commit = start[u]
      BY <2>3 DEF Tomb, Version
    <3> QED BY <2>1, <2>2, <3>1 DEF StoreInv, TimesOK
  <2>4. CASE w = Mark(u, k) /\ commit[u] > 0
    <3>1. w.commit = commit[u]
      BY <2>4 DEF Mark, Version
    <3> QED BY <2>1, <2>2, <2>4, <3>1 DEF StoreInv, TimesOK
  <2> QED BY <2>1, <2>3, <2>4
<1>2. Tomb(t).commit = start[t] /\ Mark(t, k).commit = commit[t]
  BY DEF Tomb, Mark, Version
<1>3. PutVersion(db[k].values, Tomb(t)) = db[k].values \cup {Tomb(t)}
  BY <1>1, <1>2 DEF PutVersion
<1>4. commit[t] > 0 => PutVersion(db[k].values, Mark(t, k)) = db[k].values \cup {Mark(t, k)}
  BY <1>1, <1>2 DEF PutVersion
<1> QED BY <1>3, <1>4

\* The newest version is one, and none is newer.
LEMMA NewestIs ==
    ASSUME StoreInv, NEW k \in Keys, NEW S, S \subseteq db[k].values, S # {}
    PROVE  Newest(S) \in S /\ \A w \in S : w.commit <= Newest(S).commit
<1> DEFINE C == {v.commit : v \in S}
<1>1. \A v \in db[k].values : v.commit \in Nat /\ v.commit <= clock
  <2> SUFFICES ASSUME NEW v \in db[k].values PROVE v.commit \in Nat /\ v.commit <= clock
    OBVIOUS
  <2>1. PICK u \in Txn : v = Tomb(u) \/ v = Mark(u, k)
    BY DEF StoreInv, VersionsTrue
  <2> QED BY SMTT(60), <2>1 DEF Tomb, Mark, Version, StoreInv, TimesOK
<1>2. C \subseteq Nat /\ C # {} /\ (\A n \in C : n <= clock) /\ clock \in Nat
  BY SMTT(60), <1>1 DEF StoreInv, TimesOK
<1> HIDE DEF C
<1>3. PICK n \in C : \A m \in C : m <= n
  BY <1>2, LargestOf DEF StoreInv
<1>4. PICK v \in S : v.commit = n
  BY DEF C
<1>5. \A w \in S : w.commit <= v.commit
  BY <1>3, <1>4 DEF C
<1> QED BY <1>5 DEF Newest

LEMMA PrewriteSteps ==
    ASSUME StoreInv, NEW t \in Txn, start[t] > 0, NEW S, S \subseteq KeysOf(t), start' = start,
           db' = Prewrite(db, [k \in S |-> OpOf[t][k]], Primary(t), start[t])
    PROVE  /\ StoreStep(t)
           /\ (\A k \in S : PrewriteError(db[k], start[t]) = "none") => \A k \in S : Locked(t, k)'
           /\ Done(t)' => commit' # commit \/ Done(t)
<1> DEFINE ops == [k \in S |-> OpOf[t][k]]
<1>1. DOMAIN ops = S /\ \A k \in S : ops[k] = OpOf[t][k]
  OBVIOUS
<1>2. CASE \E k \in S : PrewriteError(db[k], start[t]) # "none"
  <2>1. db' = db
    BY <1>1, <1>2 DEF Prewrite
  <2> QED BY <1>2, <2>1, StepIdle DEF Done, Mark
<1>3. CASE \A k \in S : PrewriteError(db[k], start[t]) = "none"
  <2>1. db' = [k \in Keys |->
                 IF k \in S /\ ~HasLock(db[k])
                 THEN [db[k] EXCEPT !.lock = [start |-> start[t], primary |-> Primary(t), op |-> ops[k]]]
                 ELSE db[k]]
    BY <1>1, <1>3 DEF Prewrite
  <2> HIDE DEF ops
  <2>2. ASSUME NEW k \in Keys, k \in S, ~HasLock(db[k])
        PROVE  Places(t, k) /\ db'[k].lock = Own(t, k) /\ db'[k].values = db[k].values
    <3>1. db[k].lock = NoLock /\ db[k] \in EntrySet
      BY <2>2 DEF HasLock, StoreInv
    <3>2. db[k].values = {} \/ ~(Newest(db[k].values).commit >= start[t])
      BY <1>3, <2>2 DEF PrewriteError
    <3>3. \A v \in db[k].values : v.commit \in Nat
      BY <3>1 DEF EntrySet, VersionSet
    <3>4. \A v \in db[k].values : v.commit < start[t]
      <4> SUFFICES ASSUME NEW v \in db[k].values PROVE v.commit < start[t]
        OBVIOUS
      <4>1. Newest(db[k].values) \in db[k].values /\ v.commit <= Newest(db[k].values).commit
        BY NewestIs
      <4>2. start[t] \in Nat
        BY DEF StoreInv, TimesOK
      <4> QED BY SMTT(60), <3>2, <3>3, <4>1, <4>2
    <3>5. CommitInfo(db[k], start[t]) = {}
      <4> SUFFICES ASSUME NEW v \in db[k].values, v.start = start[t] PROVE FALSE
        BY DEF CommitInfo
      <4>1. v.commit >= start[t]
        BY VersionType
      <4>2. start[t] \in Nat
        BY DEF StoreInv, TimesOK
      <4> QED BY SMTT(60), <3>3, <3>4, <4>1, <4>2
    <3>6. db'[k] = [lock |-> Own(t, k), values |-> db[k].values]
      BY <1>1, <2>1, <2>2, <3>1 DEF Own, EntrySet
    <3> QED BY SMTT(60), <2>2, <3>1, <3>4, <3>5, <3>6 DEF Places
  <2>3. ASSUME NEW k \in Keys, ~(k \in S /\ ~HasLock(db[k])) PROVE db'[k] = db[k]
    BY <2>1, <2>3
  <2>4. StoreStep(t)
    <3>1. db' = [k \in Keys |-> db'[k]]
      BY <2>1
    <3> QED BY <2>2, <2>3, <3>1, StepTyped
  <2>5. ASSUME NEW k \in S PROVE Locked(t, k)'
    <3>1. k \in Keys /\ Own(t, k)' = Own(t, k)
      BY KeysAreKeys DEF Own
    <3>2. CASE HasLock(db[k])
      <4>1. db[k].lock.start = start[t]
        BY <1>3, <3>2 DEF PrewriteError
      <4>2. db[k].lock = Own(t, k)
        BY <3>1, <4>1, LockIs DEF Locked
      <4> QED BY <2>3, <3>1, <3>2, <4>2 DEF Locked
    <3>3. CASE ~HasLock(db[k])
      BY <2>2, <3>1, <3>3 DEF Locked
    <3> QED BY <3>2, <3>3
  <2>6. \A k \in Keys : db'[k].values = db[k].values
    BY <2>2, <2>3
  <2>7. Done(t)' => commit' # commit \/ Done(t)
    <3>1. KeysOf(t) # {} => Primary(t) \in Keys
      BY KeysAreKeys
    <3> QED BY <2>6, <3>1 DEF Done, Mark
  <2> QED BY <1>3, <2>4, <2>5, <2>7
<1> QED BY <1>2, <1>3

\* A lock of t that becomes a version.
LEMMA CommitLockIs ==
    ASSUME StoreInv, NEW t \in Txn, start[t] > 0, commit[t] > 0, NEW k \in Keys, db[k].lock.start = start[t]
    PROVE  /\ k \in KeysOf(t) /\ Locked(t, k)
           /\ CommitLock(db[k], commit[t]) =
                [lock |-> NoLock,
                 values |-> db[k].values \cup IF OpOf[t][k] = "lock" THEN {} ELSE {Mark(t, k)}]
<1>1. k \in KeysOf(t) /\ db[k].lock = Own(t, k) /\ Locked(t, k)
  BY LockIs DEF Locked
<1>2. db[k].lock.op = OpOf[t][k] /\ db[k].lock.start = start[t]
  BY SMTT(60), <1>1 DEF Own
<1>3. CommitInfo(db[k], start[t]) = {}
  BY DEF StoreInv, Exclusive
<1>4. PutVersion(db[k].values, Mark(t, k)) = db[k].values \cup {Mark(t, k)}
  BY <1>3, PutAdds
<1> QED BY <1>1, <1>2, <1>4 DEF CommitLock, Mark

LEMMA CommitSteps ==
    ASSUME StoreInv, NEW t \in Txn, start[t] > 0, commit[t] > 0, NEW S, S \subseteq KeysOf(t),
           Primary(t) \in S \/ Done(t) \/ ~Mutates(t),
           start' = start, commit' = commit, db' = Commit(db, S, start[t], commit[t])
    PROVE  /\ StoreStep(t)
           /\ \A k \in S : CommitRefused(db[k], start[t]) => db' = db
           /\ Primary(t) \in S /\ Mutates(t) /\ (\A k \in S : ~CommitRefused(db[k], start[t])) => Done(t)'
<1>1. CASE \E k \in S : CommitRefused(db[k], start[t])
  <2>1. db' = db
    BY <1>1 DEF Commit
  <2> QED BY <1>1, <2>1, StepIdle
<1>2. CASE \A k \in S : ~CommitRefused(db[k], start[t])
  <2>1. db' = [k \in Keys |-> IF k \in S /\ db[k].lock.start = start[t]
                             THEN CommitLock(db[k], commit[t]) ELSE db[k]]
    BY <1>2 DEF Commit
  <2>2. Mark(t, Primary(t))' = Mark(t, Primary(t))
    BY DEF Mark
  <2>3. Mutates(t) => Done(t)'
    <3> SUFFICES ASSUME Mutates(t) PROVE Done(t)'
      OBVIOUS
    <3> DEFINE p == Primary(t)
    <3>1. KeysOf(t) # {} /\ p \in Keys /\ OpOf[t][p] # "lock"
      BY KeysAreKeys DEF Mutates
    <3>2. CASE p \in S /\ db[p].lock.start = start[t]
      <4>1. db'[p] = CommitLock(db[p], commit[t])
        BY <2>1, <3>1, <3>2
      <4>2. db'[p].values = db[p].values \cup {Mark(t, p)}
        <5>1. CommitLock(db[p], commit[t]) =
                [lock |-> NoLock, values |-> db[p].values \cup IF OpOf[t][p] = "lock" THEN {} ELSE {Mark(t, p)}]
          BY <3>1, <3>2, CommitLockIs
        <5> QED BY SMTT(60), <3>1, <4>1, <5>1
      <4> QED BY <2>2, <3>1, <4>2 DEF Done
    <3>3. CASE ~(p \in S /\ db[p].lock.start = start[t])
      <4>1. db'[p] = db[p]
        BY <2>1, <3>1, <3>3
      <4>2. Done(t)
        <5>1. CASE p \in S
          <6>1. PICK v \in db[p].values : v.start = start[t] /\ v.type # "rollback"
            BY <1>2, <3>3, <5>1 DEF CommitRefused, CommitInfo
          <6> QED BY <3>1, <6>1, VersionType
        <5>2. CASE p \notin S
          BY <5>2
        <5> QED BY <5>1, <5>2
      <4> QED BY <2>2, <3>1, <4>1, <4>2 DEF Done
    <3> QED BY <3>2, <3>3
  <2>4. ASSUME NEW k \in Keys PROVE db'[k] = db[k] \/ Commits(t, k)
    <3>1. CASE k \in S /\ db[k].lock.start = start[t]
      <4>1. db'[k] = CommitLock(db[k], commit[t])
        BY <2>1, <3>1
      <4> QED BY <2>3, <3>1, <4>1, CommitLockIs DEF Commits
    <3>2. CASE ~(k \in S /\ db[k].lock.start = start[t])
      BY <2>1, <3>2
    <3> QED BY <3>1, <3>2
  <2>5. StoreStep(t)
    <3>1. db' = [k \in Keys |-> db'[k]]
      BY <2>1
    <3> QED BY <2>4, <3>1, StepTyped
  <2> QED BY <1>2, <2>3, <2>5
<1> QED BY <1>1, <1>2

\* A lock of t that becomes a rollback record.
LEMMA RollbackLockIs ==
    ASSUME StoreInv, NEW t \in Txn, start[t] > 0, NEW k \in Keys, db[k].lock.start = start[t]
    PROVE  /\ k \in KeysOf(t) /\ CommitInfo(db[k], start[t]) = {}
           /\ RollbackLock(db[k]) = [lock |-> NoLock, values |-> db[k].values \cup {Tomb(t)}]
<1>1. k \in KeysOf(t)
  BY LockIs
<1>2. CommitInfo(db[k], start[t]) = {}
  BY DEF StoreInv, Exclusive
<1>3. PutVersion(db[k].values, Tomb(t)) = db[k].values \cup {Tomb(t)}
  BY <1>2, PutAdds
<1> QED BY <1>1, <1>2, <1>3 DEF RollbackLock, RollbackVersion, Tomb

LEMMA RollbackSteps ==
    ASSUME StoreInv, NEW t \in Txn, start[t] > 0, NEW S, S \subseteq KeysOf(t),
           Primary(t) \in S \/ Dead(t),
           start' = start, commit' = commit, db' = Rollback(db, S, start[t])
    PROVE  /\ StoreStep(t)
           /\ Done(t)' <=> Done(t)
           /\ (\A k \in S : ~AlreadyCommitted(db[k], start[t])) => Dead(t)'
           /\ (\E k \in S : AlreadyCommitted(db[k], start[t])) => db' = db
<1>1. CASE \E k \in S : AlreadyCommitted(db[k], start[t])
  <2>1. db' = db
    BY <1>1 DEF Rollback
  <2> QED BY <1>1, <2>1, StepIdle DEF Done, Mark
<1>2. CASE \A k \in S : ~AlreadyCommitted(db[k], start[t])
  <2> DEFINE p == Primary(t)
  <2>1. db' = [k \in Keys |-> IF k \in S THEN RollbackKey(db[k], start[t]) ELSE db[k]]
    BY <1>2 DEF Rollback
  <2>2. Tomb(t)' = Tomb(t) /\ Mark(t, p)' = Mark(t, p)
    BY DEF Tomb, Mark
  <2>3. KeysOf(t) # {} /\ p \in Keys /\ p \in KeysOf(t)
    BY KeysAreKeys DEF Dead
  <2>4. ASSUME NEW k \in Keys, k \in S
        PROVE  \/ db'[k] = db[k] /\ CommitInfo(db[k], start[t]) # {} /\ db[k].lock.start # start[t]
               \/ /\ CommitInfo(db[k], start[t]) = {}
                  /\ db'[k] = [lock |-> IF db[k].lock.start = start[t] THEN NoLock ELSE db[k].lock,
                               values |-> db[k].values \cup {Tomb(t)}]
    <3>1. db'[k] = RollbackKey(db[k], start[t])
      BY <2>1, <2>4
    <3>2. CASE db[k].lock.start = start[t]
      BY <3>1, <3>2, RollbackLockIs DEF RollbackKey
    <3>3. CASE db[k].lock.start # start[t] /\ CommitInfo(db[k], start[t]) # {}
      BY <3>1, <3>3 DEF RollbackKey
    <3>4. CASE db[k].lock.start # start[t] /\ CommitInfo(db[k], start[t]) = {}
      <4>1. db'[k] = [db[k] EXCEPT !.values = db[k].values \cup {Tomb(t)}]
        BY <3>1, <3>4, PutAdds DEF RollbackKey, RollbackVersion, Tomb
      <4>2. db[k] \in EntrySet
        BY DEF StoreInv
      <4> QED BY <3>4, <4>1, <4>2 DEF EntrySet
    <3> QED BY <3>2, <3>3, <3>4
  <2>0. ASSUME p \in S
        PROVE  IF CommitInfo(db[p], start[t]) = {} THEN db'[p].values = db[p].values \cup {Tomb(t)}
               ELSE db'[p] = db[p] /\ db[p].lock.start # start[t]
    <3>1. ASSUME NEW k \in Keys, k \in S
          PROVE  IF CommitInfo(db[k], start[t]) = {} THEN db'[k].values = db[k].values \cup {Tomb(t)}
                 ELSE db'[k] = db[k] /\ db[k].lock.start # start[t]
      <4>1. CASE CommitInfo(db[k], start[t]) = {}
        <5>1. db'[k] = [lock |-> IF db[k].lock.start = start[t] THEN NoLock ELSE db[k].lock,
                        values |-> db[k].values \cup {Tomb(t)}]
          BY <2>4, <3>1, <4>1
        <5> QED BY SMTT(60), <4>1, <5>1
      <4>2. CASE CommitInfo(db[k], start[t]) # {}
        BY <2>4, <3>1, <4>2
      <4> QED BY <4>1, <4>2
    <3> QED BY <2>0, <2>3, <3>1
  <2>5. Dead(t)'
    <3>1. CASE p \in S
      <4>1. CASE CommitInfo(db[p], start[t]) = {}
        <5>1. Tomb(t) \in db'[p].values
          BY <2>0, <3>1, <4>1
        <5> QED BY <2>2, <2>3, <5>1 DEF Dead
      <4>2. CASE CommitInfo(db[p], start[t]) # {}
        <5>1. db'[p] = db[p] /\ db[p].lock.start # start[t]
          BY <2>0, <3>1, <4>2
        <5>2. PICK v \in db[p].values : v.start = start[t] /\ v.type = "rollback"
          BY <1>2, <3>1, <4>2, <5>1 DEF AlreadyCommitted, CommitInfo
        <5>3. v = Tomb(t)
          BY <2>3, <5>2, VersionType
        <5> QED BY <2>2, <2>3, <5>1, <5>2, <5>3 DEF Dead
      <4> QED BY <4>1, <4>2
    <3>2. CASE p \notin S
      BY <2>1, <2>2, <2>3, <3>2 DEF Dead
    <3> QED BY <3>1, <3>2
  <2>6. ~Done(t)
    <3> SUFFICES ASSUME Done(t) PROVE FALSE
      OBVIOUS
    <3>1. p \in S
      BY DEF StoreInv, Decided
    <3>2. Mark(t, p) \in db[p].values /\ Mark(t, p).start = start[t] /\ Mark(t, p).type # "rollback"
      BY <2>3, OpsAre DEF Done, Mark, Version
    <3>3. db[p].lock.start # start[t]
      BY <2>3, <3>2 DEF StoreInv, Exclusive, CommitInfo
    <3> QED BY <1>2, <3>1, <3>2, <3>3 DEF AlreadyCommitted, CommitInfo
  <2>7. ~Done(t)'
    <3>1. Mark(t, p) # Tomb(t)
      BY <2>3, OpsAre DEF Mark, Tomb, Version
    <3>2. Mark(t, p) \notin db'[p].values
      <4>1. Mark(t, p) \notin db[p].values
        BY <2>3, <2>6 DEF Done
      <4>2. CASE p \in S
        BY <2>0, <3>1, <4>1, <4>2
      <4>3. CASE p \notin S
        BY <2>1, <2>3, <4>1, <4>3
      <4> QED BY <4>2, <4>3
    <3> QED BY <2>2, <2>3, <3>2 DEF Done
  <2>8. ASSUME NEW k \in Keys PROVE db'[k] = db[k] \/ RollsBack(t, k)
    BY <2>1, <2>4, <2>5, <2>6 DEF RollsBack
  <2>9. StoreStep(t)
    <3>1. db' = [k \in Keys |-> db'[k]]
      BY <2>1
    <3> QED BY <2>8, <3>1, StepTyped
  <2> QED BY <1>2, <2>5, <2>6, <2>7, <2>9
<1> QED BY <1>1, <1>2

LEMMA ResolveSteps ==
    ASSUME StoreInv, NEW t \in Txn, start[t] > 0, KeysOf(t) # {}, NEW S, NEW cts,
           IF cts = 0 THEN Dead(t) ELSE Done(t) /\ cts = commit[t],
           start' = start, commit' = commit, db' = ResolveLock(db, S, start[t], cts)
    PROVE  /\ StoreStep(t)
           /\ Done(t)' <=> Done(t)
<1> DEFINE p == Primary(t)
<1>1. p \in Keys /\ p \in KeysOf(t)
  BY KeysAreKeys
<1>2. Tomb(t)' = Tomb(t) /\ Mark(t, p)' = Mark(t, p)
  BY DEF Tomb, Mark
<1>3. db[p].lock.start # start[t]
  <2>1. PICK v \in db[p].values : v.start = start[t]
    <3>1. Mark(t, p).start = start[t] /\ Tomb(t).start = start[t]
      BY DEF Mark, Tomb, Version
    <3> QED BY <3>1 DEF Dead, Done
  <2> QED BY <1>1, <2>1 DEF StoreInv, Exclusive, CommitInfo
<1>4. db'[p] = db[p]
  BY <1>1, <1>3 DEF ResolveLock
<1>5. (Done(t)' <=> Done(t)) /\ (Dead(t)' <=> Dead(t))
  BY <1>2, <1>4 DEF Done, Dead
<1>6. ASSUME NEW k \in Keys PROVE db'[k] = db[k] \/ Commits(t, k) \/ RollsBack(t, k)
  <2>1. CASE ~(k \in S /\ db[k].lock.start = start[t])
    BY <2>1 DEF ResolveLock
  <2>2. CASE k \in S /\ db[k].lock.start = start[t] /\ cts = 0
    <3>1. db'[k] = RollbackLock(db[k])
      BY SMTT(60), <2>2 DEF ResolveLock
    <3>2. Dead(t) /\ ~Done(t)
      BY <2>2 DEF StoreInv, Decided
    <3> QED BY <1>5, <2>2, <3>1, <3>2, RollbackLockIs DEF RollsBack
  <2>3. CASE k \in S /\ db[k].lock.start = start[t] /\ cts # 0
    <3>1. Done(t) /\ cts = commit[t] /\ commit[t] > 0
      BY <2>3, DoneIs
    <3>2. db'[k] = CommitLock(db[k], commit[t])
      BY <2>3, <3>1 DEF ResolveLock
    <3> QED BY <1>5, <2>3, <3>1, <3>2, CommitLockIs DEF Commits
  <2> QED BY <2>1, <2>2, <2>3
<1>7. db' = [k \in Keys |-> db'[k]]
  BY DEF ResolveLock
<1> QED BY <1>5, <1>6, <1>7, StepTyped

------------------------------------------------------------------------------
(* Legitimate requests *)

\* st is the end of the transaction that started at ts, as its primary key tells it.
Known(ts, st) ==
    \E u \in Txn : /\ start[u] > 0 /\ ts = start[u] /\ KeysOf(u) # {}
                   /\ IF st = 0 THEN Dead(u) ELSE Done(u) /\ st = commit[u]

\* l was found on a key of a transaction.
TrueLock(l) ==
    \E u \in Txn : start[u] > 0 /\ l.start = start[u] /\ l.primary = Primary(u) /\ l.key \in KeysOf(u)

\* A request asks for what is decided at the primary key, or takes the primary key along.
Legit(r) ==
    \E t \in Txn :
        /\ start[t] > 0 /\ r.ts = start[t] /\ KeysOf(t) # {}
        /\ \/ r.kind = "prewrite" /\ r.keys \subseteq KeysOf(t)
           \/ /\ r.kind = "commit" /\ r.keys \subseteq KeysOf(t) /\ r.cts = commit[t] /\ commit[t] > 0
              /\ Primary(t) \in r.keys \/ Done(t) \/ ~Mutates(t)
           \/ /\ r.kind = "rollback" /\ r.keys \subseteq KeysOf(t)
              /\ Primary(t) \in r.keys \/ Dead(t)
           \/ /\ r.kind = "resolve"
              /\ IF r.cts = 0 THEN Dead(t) ELSE Done(t) /\ r.cts = commit[t]

LEMMA KnownStays ==
    ASSUME StoreInv, Extends, NEW ts, NEW st, Known(ts, st)
    PROVE  Known(ts, st)'
<1>1. PICK u \in Txn : /\ start[u] > 0 /\ ts = start[u] /\ KeysOf(u) # {}
                       /\ IF st = 0 THEN Dead(u) ELSE Done(u) /\ st = commit[u]
  BY DEF Known
<1>2. start'[u] = start[u] /\ (Dead(u) => Dead(u)') /\ (Done(u) => Done(u)')
  BY <1>1 DEF Extends
<1>3. Done(u) => commit'[u] = commit[u]
  BY DoneIs DEF Extends
<1> QED BY <1>1, <1>2, <1>3 DEF Known

LEMMA TrueLockStays ==
    ASSUME Extends, NEW l, TrueLock(l)
    PROVE  TrueLock(l)'
BY DEF Extends, TrueLock

LEMMA LegitStays ==
    ASSUME Extends, StoreInv, NEW r, Legit(r)
    PROVE  Legit(r)'
<1>1. PICK t \in Txn :
        /\ start[t] > 0 /\ r.ts = start[t] /\ KeysOf(t) # {}
        /\ \/ r.kind = "prewrite" /\ r.keys \subseteq KeysOf(t)
           \/ /\ r.kind = "commit" /\ r.keys \subseteq KeysOf(t) /\ r.cts = commit[t] /\ commit[t] > 0
              /\ Primary(t) \in r.keys \/ Done(t) \/ ~Mutates(t)
           \/ /\ r.kind = "rollback" /\ r.keys \subseteq KeysOf(t)
              /\ Primary(t) \in r.keys \/ Dead(t)
           \/ /\ r.kind = "resolve"
              /\ IF r.cts = 0 THEN Dead(t) ELSE Done(t) /\ r.cts = commit[t]
  BY DEF Legit
<1>2. start'[t] = start[t] /\ (Dead(t) => Dead(t)') /\ (Done(t) => Done(t)')
  BY <1>1 DEF Extends
<1>3. commit[t] > 0 => commit'[t] = commit[t]
  BY DEF Extends
<1>4. Done(t) => commit[t] > 0
  BY DoneIs
<1> QED BY <1>1, <1>2, <1>3, <1>4 DEF Legit, Mutates

\* The locks of a transaction that has no commit timestamp go only when it is rolled back.
LocksStay ==
    \A u \in Txn, k \in Keys :
        Locked(u, k) /\ start[u] > 0 => Locked(u, k)' \/ Dead(u)' \/ commit[u] > 0

\* What a step of the store on behalf of t leaves as it was.
Kept(t) ==
    /\ StoreInv' /\ Extends /\ LocksStay
    /\ \A u \in Txn : u # t => (Done(u)' <=> Done(u))

LEMMA StoreStepKept ==
    ASSUME StoreInv, NEW t \in Txn, start[t] > 0, StoreStep(t),
           start' = start, commit' = commit, clock' = clock
    PROVE  Kept(t)
<1>1. StoreInv'
  BY StoreStepKeeps
<1>2. /\ Extends
      /\ \A u \in Txn : u # t => (Done(u)' <=> Done(u)) /\ (Dead(u)' <=> Dead(u))
      /\ \A u \in Txn, k \in Keys : Locked(u, k) /\ start[u] > 0 =>
           Locked(u, k)' \/ (u = t /\ (Dead(t)' \/ Commits(t, k)))
  BY StoreStepDecides
<1>3. LocksStay
  BY <1>2 DEF LocksStay, Commits
<1> QED BY <1>1, <1>2, <1>3 DEF Kept

LEMMA IdleKept ==
    ASSUME StoreInv, NEW t, db' = db, start' = start, commit' = commit, clock' = clock
    PROVE  Kept(t) /\ \A u \in Txn : Done(u)' <=> Done(u)
<1>1. \A u \in Txn : \A k : Own(u, k)' = Own(u, k) /\ Mark(u, k)' = Mark(u, k) /\ Tomb(u)' = Tomb(u)
  BY DEF Own, Mark, Tomb
<1>2. \A u \in Txn : (Done(u)' <=> Done(u)) /\ (Dead(u)' <=> Dead(u))
  BY <1>1 DEF Done, Dead
<1>3. \A u \in Txn : \A k : Locked(u, k)' <=> Locked(u, k)
  BY <1>1 DEF Locked
<1>4. TimesOK'
  BY DEF StoreInv, TimesOK
<1>5. LocksTrue'
  BY <1>3 DEF StoreInv, LocksTrue
<1>6. VersionsTrue'
  BY SMTT(60), <1>1, <1>2 DEF StoreInv, VersionsTrue
<1>7. Exclusive' /\ LockNewest'
  BY DEF StoreInv, Exclusive, LockNewest
<1>8. Decided'
  BY <1>2 DEF StoreInv, Decided
<1>9. Prepared'
  BY <1>1, <1>2, <1>3 DEF StoreInv, Prepared, Mutates
<1>10. StoreInv'
  BY <1>4, <1>5, <1>6, <1>7, <1>8, <1>9 DEF StoreInv
<1> QED BY <1>2, <1>3, <1>10 DEF Kept, Extends, LocksStay

\* A legitimate request is a step of the store; only a commit request commits.
LEMMA ExecuteKept ==
    ASSUME StoreInv, NEW r, Legit(r), start' = start, commit' = commit, clock' = clock, db' = Execute(r)
    PROVE  \E t \in Txn : /\ start[t] > 0 /\ r.ts = start[t] /\ StoreStep(t) /\ Kept(t)
                          /\ r.kind # "commit" => (Done(t)' <=> Done(t))
<1>1. PICK t \in Txn :
        /\ start[t] > 0 /\ r.ts = start[t] /\ KeysOf(t) # {}
        /\ \/ r.kind = "prewrite" /\ r.keys \subseteq KeysOf(t)
           \/ /\ r.kind = "commit" /\ r.keys \subseteq KeysOf(t) /\ r.cts = commit[t] /\ commit[t] > 0
              /\ Primary(t) \in r.keys \/ Done(t) \/ ~Mutates(t)
           \/ /\ r.kind = "rollback" /\ r.keys \subseteq KeysOf(t)
              /\ Primary(t) \in r.keys \/ Dead(t)
           \/ /\ r.kind = "resolve"
              /\ IF r.cts = 0 THEN Dead(t) ELSE Done(t) /\ r.cts = commit[t]
  BY DEF Legit
<1>2. TxnAt(r.ts) = t
  BY <1>1 DEF TxnAt, StoreInv, TimesOK
<1> SUFFICES StoreStep(t) /\ (r.kind # "commit" => (Done(t)' <=> Done(t)))
  BY <1>1, StoreStepKept
<1>3. CASE OutOfRegion(r.keys)
  <2>1. db' = db
    BY <1>3 DEF Execute
  <2> QED BY <2>1, StepIdle, IdleKept
<1>4. CASE ~OutOfRegion(r.keys) /\ r.kind = "prewrite"
  <2>1. db' = Prewrite(db, [k \in r.keys |-> OpOf[t][k]], Primary(t), start[t])
    BY <1>1, <1>2, <1>4 DEF Execute
  <2>2. r.keys \subseteq KeysOf(t)
    BY <1>1, <1>4
  <2>3. StoreStep(t) /\ (Done(t)' => Done(t))
    BY <1>1, <2>1, <2>2, PrewriteSteps
  <2>4. Done(t) => Done(t)'
    BY <1>1, <2>3, StoreStepKept DEF Kept, Extends
  <2> QED BY <2>3, <2>4
<1>5. CASE ~OutOfRegion(r.keys) /\ r.kind = "commit"
  <2>1. db' = Commit(db, r.keys, start[t], commit[t])
    BY <1>1, <1>5 DEF Execute
  <2>2. /\ r.keys \subseteq KeysOf(t) /\ commit[t] > 0
        /\ Primary(t) \in r.keys \/ Done(t) \/ ~Mutates(t)
    BY <1>1, <1>5
  <2> QED BY <1>1, <1>5, <2>1, <2>2, CommitSteps
<1>6. CASE ~OutOfRegion(r.keys) /\ r.kind = "rollback"
  <2>1. db' = Rollback(db, r.keys, start[t])
    BY <1>1, <1>6 DEF Execute
  <2>2. r.keys \subseteq KeysOf(t) /\ (Primary(t) \in r.keys \/ Dead(t))
    BY <1>1, <1>6
  <2> QED BY <1>1, <2>1, <2>2, RollbackSteps
<1>7. CASE ~OutOfRegion(r.keys) /\ r.kind = "resolve"
  <2>1. db' = ResolveLock(db, UNION {RegionOf(k, split) : k \in r.keys}, start[t], r.cts)
    BY <1>1, <1>7 DEF Execute
  <2>2. IF r.cts = 0 THEN Dead(t) ELSE Done(t) /\ r.cts = commit[t]
    BY <1>1, <1>7
  <2> HIDE DEF Execute
  <2> QED BY <1>1, <2>1, <2>2, ResolveSteps
<1> QED BY <1>1, <1>3, <1>4, <1>5, <1>6, <1>7

------------------------------------------------------------------------------
(* The invariant of the clients *)

LockSet == [key : Nat, start : Nat, primary : Nat]

JobSet == [keys : SUBSET Keys, locks : SUBSET LockSet, cur : [lock : LockSet, status : Int]]

ClientType ==
    /\ pc \in [Txn -> Phases] /\ jobs \in [Txn -> SUBSET JobSet]
    /\ result \in [Txn -> {"none", "ok", "error", "undetermined"}]
    /\ undetermined \in [Txn -> BOOLEAN]
    /\ seen \in [Txn -> [Keys -> Nat \cup {Unread}]]

\* The locks a goroutine has met are locks of transactions, and the status it found is true.
JobOK(t, j) ==
    /\ \A l \in j.locks : TrueLock(l)
    /\ j.cur # NoCur => j.cur.lock \in j.locks /\ Known(j.cur.lock.start, j.cur.status)
    /\ pc[t] # "read" => j.keys \subseteq KeysOf(t)
    /\ pc[t] \in {"commit", "cleanPrimary"} => Primary(t) \in j.keys
    /\ pc[t] \notin {"read", "prewrite"} => j.locks = {} /\ j.cur = NoCur

\* Each key of t is locked or some goroutine is still to lock it, unless t is rolled back.
Prewriting(t) ==
    Dead(t) \/ \A k \in KeysOf(t) : Locked(t, k) \/ \E j \in jobs[t] : k \in j.keys

\* What the phase of t says about the store.
PhaseOK(t) ==
    /\ pc[t] = "idle" <=> start[t] = 0
    /\ pc[t] \in {"idle", "read", "prewrite"} => commit[t] = 0 /\ ~undetermined[t]
    /\ pc[t] \in {"commit", "secondary"} => commit[t] > 0
    /\ pc[t] \in {"prewrite", "commit", "secondary", "cleanPrimary", "cleanRest"} => KeysOf(t) # {}
    /\ pc[t] \in {"idle", "done"} => jobs[t] = {}
    /\ pc[t] \in {"commit", "cleanPrimary"} => \A i, j \in jobs[t] : i = j
    /\ pc[t] = "secondary" => Done(t) \/ ~Mutates(t)
    /\ pc[t] = "cleanRest" => Dead(t)
    /\ pc[t] = "prewrite" => Prewriting(t)

TxnOK(t) == PhaseOK(t) /\ \A j \in jobs[t] : JobOK(t, j)

\* A commit request of t is still under way.
StrayCommit(t) == \E r \in stray : r.kind = "commit" /\ r.ts = start[t]

\* What the caller was told is true and stays true.
ToldOK(t) ==
    LocksOnly(t) = {} =>
        /\ result[t] = "ok" => KeysOf(t) = {} \/ Done(t)
        /\ result[t] = "error" =>
             /\ pc[t] \in {"cleanPrimary", "cleanRest", "done"} /\ ~Done(t)
             /\ Dead(t) \/ ~StrayCommit(t)
        /\ pc[t] = "commit" /\ ~undetermined[t] => ~Done(t) /\ ~StrayCommit(t)

ResolvedOK ==
    /\ resolved \in Seq([start : Nat, status : Nat])
    /\ \A e \in Elements(resolved) : Known(e.start, e.status)

StrayOK == \A r \in stray : Legit(r)

IInv ==
    /\ StoreInv /\ ClientType /\ ResolvedOK /\ StrayOK
    /\ \A t \in Txn : TxnOK(t) /\ ToldOK(t)

------------------------------------------------------------------------------
(* What a step leaves alone *)

\* The step is not about u, and decides u only by a request that was already under way.
Same(u) ==
    /\ pc'[u] = pc[u] /\ jobs'[u] = jobs[u] /\ result'[u] = result[u]
    /\ undetermined'[u] = undetermined[u] /\ start'[u] = start[u] /\ commit'[u] = commit[u]
    /\ Done(u)' => Done(u) \/ StrayCommit(u)
    /\ StrayCommit(u)' => StrayCommit(u)

\* A goroutine that is left alone.
LEMMA JobStays ==
    ASSUME StoreInv, Extends, NEW t \in Txn, NEW j, JobOK(t, j), pc'[t] = pc[t]
    PROVE  JobOK(t, j)'
<1>1. \A l \in j.locks : TrueLock(l)'
  BY TrueLockStays DEF JobOK
<1>2. j.cur # NoCur => Known(j.cur.lock.start, j.cur.status)'
  BY KnownStays DEF JobOK
<1> QED BY <1>1, <1>2 DEF JobOK

LEMMA PrewritingStays ==
    ASSUME StoreInv, Extends, LocksStay, NEW t \in Txn, start[t] > 0, commit[t] = 0, Prewriting(t),
           \A j \in jobs[t] : \A k \in j.keys \cap KeysOf(t) :
               Locked(t, k)' \/ Dead(t)' \/ \E i \in jobs'[t] : k \in i.keys
    PROVE  Prewriting(t)'
<1>1. CASE Dead(t)
  BY <1>1 DEF Extends, Prewriting
<1>2. CASE ~Dead(t) /\ ~Dead(t)'
  <2> SUFFICES ASSUME NEW k \in KeysOf(t) PROVE Locked(t, k)' \/ \E i \in jobs'[t] : k \in i.keys
    BY DEF Prewriting
  <2>1. k \in Keys
    BY KeysAreKeys
  <2>2. Locked(t, k) \/ \E j \in jobs[t] : k \in j.keys
    BY <1>2 DEF Prewriting
  <2>3. CASE Locked(t, k)
    BY SMTT(60), <1>2, <2>1, <2>3 DEF LocksStay
  <2> QED BY <1>2, <2>2, <2>3
<1> QED BY <1>1, <1>2 DEF Prewriting

LEMMA SameKeeps ==
    ASSUME IInv, StoreInv', Extends, LocksStay, NEW u \in Txn, Same(u)
    PROVE  TxnOK(u)' /\ ToldOK(u)'
<1>1. StoreInv /\ PhaseOK(u) /\ ToldOK(u) /\ \A j \in jobs[u] : JobOK(u, j)
  BY DEF IInv, TxnOK
<1>2. \A j \in jobs'[u] : JobOK(u, j)'
  BY <1>1, JobStays DEF Same
<1>3. start[u] > 0 => (Done(u) => Done(u)') /\ (Dead(u) => Dead(u)')
  BY DEF Extends
<1>4. pc[u] # "idle" => start[u] > 0
  <2>1. start[u] \in Nat
    BY <1>1 DEF StoreInv, TimesOK
  <2>2. pc[u] # "idle" => start[u] # 0
    BY <1>1 DEF PhaseOK
  <2> QED BY SMTT(60), <2>1, <2>2
<1>5. pc[u] = "prewrite" => Prewriting(u)'
  <2> SUFFICES ASSUME pc[u] = "prewrite" PROVE Prewriting(u)'
    OBVIOUS
  <2>1. Prewriting(u) /\ commit[u] = 0
    BY <1>1 DEF PhaseOK
  <2> QED BY <1>1, <1>4, <2>1, PrewritingStays DEF Same
<1>6. PhaseOK(u)'
  BY <1>1, <1>3, <1>4, <1>5 DEF PhaseOK, Same, Mutates
<1>7. ToldOK(u)'
  <2> SUFFICES ASSUME LocksOnly(u) = {} PROVE ToldOK(u)'
    BY DEF ToldOK, LocksOnly
  <2>1. result'[u] = "ok" => KeysOf(u) = {} \/ Done(u)'
    <3>1. Done(u) => start[u] > 0
      BY <1>1, DoneIs
    <3> QED BY <1>1, <1>3, <3>1 DEF ToldOK, Same
  <2>2. ASSUME result'[u] = "error"
        PROVE  /\ pc'[u] \in {"cleanPrimary", "cleanRest", "done"} /\ ~Done(u)'
               /\ Dead(u)' \/ ~StrayCommit(u)'
    <3>1. /\ pc[u] \in {"cleanPrimary", "cleanRest", "done"} /\ ~Done(u)
          /\ Dead(u) \/ ~StrayCommit(u)
      BY <1>1, <2>2 DEF ToldOK, Same
    <3>2. CASE Dead(u)
      BY <1>3, <1>4, <3>1, <3>2 DEF Same, StoreInv, Decided
    <3>3. CASE ~StrayCommit(u)
      BY <3>1, <3>3 DEF Same
    <3> QED BY <3>1, <3>2, <3>3
  <2>3. pc'[u] = "commit" /\ ~undetermined'[u] => ~Done(u)' /\ ~StrayCommit(u)'
    BY <1>1 DEF ToldOK, Same
  <2> QED BY <2>1, <2>2, <2>3 DEF ToldOK
<1> QED BY <1>2, <1>6, <1>7 DEF TxnOK

LEMMA ActionKeeps ==
    ASSUME IInv, NEW t \in Txn, StoreInv', Extends, LocksStay, ClientType', ResolvedOK', StrayOK',
           \A u \in Txn : u # t => Same(u), TxnOK(t)', ToldOK(t)'
    PROVE  IInv'
<1>1. \A u \in Txn : TxnOK(u)' /\ ToldOK(u)'
  BY SameKeeps
<1> QED BY <1>1 DEF IInv

\* The requests under way, or fewer of them, and the cache stay true.
LEMMA SharedStay ==
    ASSUME IInv, Extends
    PROVE  /\ stray' \subseteq stray => StrayOK'
           /\ resolved' = resolved => ResolvedOK'
<1>1. StoreInv /\ StrayOK /\ ResolvedOK
  BY DEF IInv
<1>2. \A r \in stray : Legit(r)'
  BY <1>1, LegitStays DEF StrayOK
<1>3. \A e \in Elements(resolved) : Known(e.start, e.status)'
  BY <1>1, KnownStays DEF ResolvedOK
<1> QED BY <1>1, <1>2, <1>3 DEF StrayOK, ResolvedOK, Elements

LEMMA JobsForAre ==
    ASSUME NEW S, NEW b, S \subseteq Keys
    PROVE  /\ \A j \in JobsFor(S, b) : j \in JobSet /\ j.keys \subseteq S /\ j.locks = {} /\ j.cur = NoCur
           /\ \A k \in S : \E j \in JobsFor(S, b) : k \in j.keys
           /\ \A i, j \in JobsFor(S, b) : i # j => i.keys \cap j.keys = {}
<1>1. NoCur \in [lock : LockSet, status : Int] /\ {} \subseteq LockSet
  BY SMTT(60) DEF NoCur, LockSet, None
<1>2. ASSUME NEW j \in JobsFor(S, b)
      PROVE  /\ j \in JobSet /\ j.keys \subseteq S /\ j.locks = {} /\ j.cur = NoCur /\ j = Job(j.keys)
             /\ \E k \in S : j.keys = S \cap RegionOf(k, b)
  <2>1. PICK k \in S : j = Job(S \cap RegionOf(k, b))
    BY DEF JobsFor, Groups
  <2> QED BY <1>1, <2>1 DEF Job, JobSet
<1>3. ASSUME NEW k \in S PROVE \E j \in JobsFor(S, b) : k \in j.keys
  <2>1. k \in S \cap RegionOf(k, b)
    BY DEF RegionOf
  <2>2. Job(S \cap RegionOf(k, b)) \in JobsFor(S, b)
    BY DEF JobsFor, Groups
  <2> QED BY <2>1, <2>2 DEF Job
<1>4. ASSUME NEW i \in JobsFor(S, b), NEW j \in JobsFor(S, b), i # j
      PROVE  i.keys \cap j.keys = {}
  <2>1. i.keys # j.keys
    BY <1>2, <1>4
  <2>2. PICK x \in S : i.keys = S \cap RegionOf(x, b)
    BY <1>2
  <2>3. PICK y \in S : j.keys = S \cap RegionOf(y, b)
    BY <1>2
  <2> QED BY <2>1, <2>2, <2>3 DEF RegionOf
<1> QED BY <1>2, <1>3, <1>4

LEMMA PrimaryJobIs ==
    ASSUME NEW t \in Txn, NEW S, NEW b, S \subseteq KeysOf(t), Primary(t) \in S
    PROVE  \E j \in JobSet : /\ PrimaryJob(t, S, b) = {j} /\ j.keys \subseteq S /\ Primary(t) \in j.keys
                             /\ j.locks = {} /\ j.cur = NoCur
<1>1. S \subseteq Keys
  BY KeysAreKeys
<1> DEFINE j == Job(S \cap RegionOf(Primary(t), b))
<1>2. Primary(t) \in S \cap RegionOf(Primary(t), b)
  BY <1>1 DEF RegionOf
<1>3. NoCur \in [lock : LockSet, status : Int] /\ {} \subseteq LockSet
  BY SMTT(60) DEF NoCur, LockSet, None
<1>4. j \in JobSet /\ j.keys \subseteq S /\ Primary(t) \in j.keys /\ j.locks = {} /\ j.cur = NoCur
  BY <1>1, <1>2, <1>3 DEF Job, JobSet
<1>5. PrimaryJob(t, S, b) = {j}
  BY DEF PrimaryJob
<1> QED BY <1>4, <1>5

\* The locks that stand in the way of a goroutine are locks of transactions.
LEMMA ExpiredLocksAre ==
    ASSUME StoreInv, NEW S, S \subseteq Keys, \A k \in S : HasLock(db[k])
    PROVE  \A l \in ExpiredLocks(S) : l \in LockSet /\ TrueLock(l)
<1> SUFFICES ASSUME NEW l \in ExpiredLocks(S) PROVE l \in LockSet /\ TrueLock(l)
  OBVIOUS
<1>1. PICK k \in S : l = [key |-> k, start |-> db[k].lock.start, primary |-> db[k].lock.primary]
  BY DEF ExpiredLocks
<1>2. PICK u \in Txn : start[u] > 0 /\ k \in KeysOf(u) /\ db[k].lock = Own(u, k)
  BY DEF StoreInv, LocksTrue, HasLock, Locked
<1>3. db[k].lock.start = start[u] /\ db[k].lock.primary = Primary(u)
  BY SMTT(60), <1>2 DEF Own
<1>4. k \in Nat /\ start[u] \in Nat /\ Primary(u) \in Nat
  BY <1>2, KeysAreKeys, TxnAssumption DEF StoreInv, TimesOK
<1> QED BY <1>1, <1>2, <1>3, <1>4 DEF LockSet, TrueLock

\* Fail starts the clean-up.
LEMMA FailOK ==
    ASSUME IInv, NEW t \in Txn, KeysOf(t) # {}, start'[t] = start[t], start[t] > 0,
           pc'[t] = "cleanPrimary", jobs'[t] = PrimaryJob(t, KeysOf(t), cached), result'[t] = "error",
           LocksOnly(t) = {} => ~Done(t)' /\ (Dead(t)' \/ ~StrayCommit(t)')
    PROVE  jobs'[t] \subseteq JobSet /\ TxnOK(t)' /\ ToldOK(t)'
<1>1. Primary(t) \in KeysOf(t)
  BY KeysAreKeys
<1>2. PICK j \in JobSet : /\ jobs'[t] = {j} /\ j.keys \subseteq KeysOf(t) /\ Primary(t) \in j.keys
                          /\ j.locks = {} /\ j.cur = NoCur
  BY SMTT(60), <1>1, PrimaryJobIs
<1>3. PhaseOK(t)'
  <2>1. start'[t] # 0
    <3>1. start[t] \in Nat
      BY DEF IInv, StoreInv, TimesOK
    <3> QED BY SMTT(60), <3>1
  <2>2. \A i, m \in jobs'[t] : i = m
    BY <1>2
  <2> QED BY <2>1, <2>2 DEF PhaseOK
<1>4. \A i \in jobs'[t] : JobOK(t, i)'
  BY <1>2 DEF JobOK
<1>5. ToldOK(t)'
  BY DEF ToldOK, LocksOnly
<1> QED BY <1>2, <1>3, <1>4, <1>5 DEF TxnOK

\* A transaction whose goroutines are gone.
LEMMA EndedOK ==
    ASSUME NEW t \in Txn, pc'[t] = "done", jobs'[t] = {}, start'[t] # 0
    PROVE  TxnOK(t)'
BY DEF TxnOK, PhaseOK

\* A goroutine belongs to a transaction that is under way.
LEMMA Busy ==
    ASSUME IInv, NEW t \in Txn, NEW j \in jobs[t]
    PROVE  /\ pc[t] \in {"read", "prewrite", "commit", "secondary", "cleanPrimary", "cleanRest"}
           /\ start[t] > 0 /\ j \in JobSet /\ JobOK(t, j)
<1>1. PhaseOK(t) /\ JobOK(t, j) /\ TimesOK /\ ClientType
  BY DEF IInv, StoreInv, TxnOK
<1>2. j \in JobSet /\ pc[t] \in Phases
  BY <1>1 DEF ClientType
<1>3. pc[t] # "idle" /\ pc[t] # "done"
  BY <1>1 DEF PhaseOK
<1>4. start[t] \in Nat /\ start[t] # 0
  BY <1>1, <1>3 DEF PhaseOK, TimesOK
<1> QED BY SMTT(60), <1>1, <1>2, <1>3, <1>4 DEF Phases

\* Before a transaction has its commit timestamp nothing of it is committed or can be.
LEMMA NotCommittedYet ==
    ASSUME StoreInv, StrayOK, NEW t \in Txn, start[t] > 0, commit[t] = 0
    PROVE  ~Done(t) /\ ~StrayCommit(t)
<1>1. commit \in [Txn -> Nat] /\ start \in [Txn -> Nat]
      /\ \A u \in Txn : start[u] > 0 /\ start[u] = start[t] => u = t
  BY DEF StoreInv, TimesOK
<1>2. ~(commit[t] > 0)
  BY SMTT(60), <1>1
<1>3. ~Done(t)
  BY <1>2, DoneIs
<1>4. ASSUME NEW r \in stray, r.kind = "commit", r.ts = start[t] PROVE FALSE
  <2>1. PICK u \in Txn : start[u] > 0 /\ r.ts = start[u] /\ commit[u] > 0
    BY <1>4 DEF StrayOK, Legit
  <2>2. u = t
    BY <1>1, <1>4, <2>1
  <2> QED BY <1>2, <2>1, <2>2
<1> QED BY <1>3, <1>4 DEF StrayCommit

\* The job of the primary key, when it is the only one of its transaction.
LEMMA SinglePhase ==
    ASSUME IInv, NEW t \in Txn, NEW j \in jobs[t], pc[t] \in {"commit", "cleanPrimary"}
    PROVE  /\ j \in JobSet /\ j.keys \subseteq KeysOf(t) /\ Primary(t) \in j.keys /\ KeysOf(t) # {}
           /\ start[t] > 0 /\ jobs[t] = {j} /\ (pc[t] = "commit" => commit[t] > 0)
<1>0. PhaseOK(t)
  BY DEF IInv, TxnOK
<1>1. start[t] > 0 /\ j \in JobSet /\ JobOK(t, j)
  BY Busy
<1>2. j.keys \subseteq KeysOf(t) /\ Primary(t) \in j.keys
  BY <1>1 DEF JobOK
<1>3. KeysOf(t) # {} /\ jobs[t] = {j} /\ (pc[t] = "commit" => commit[t] > 0)
  BY <1>0 DEF PhaseOK
<1> QED BY <1>1, <1>2, <1>3

------------------------------------------------------------------------------
(* The timestamps *)

\* Nothing in the store is newer than the oracle.
LEMMA StoreIsOld ==
    ASSUME StoreInv, NEW k \in Keys
    PROVE  /\ db[k].lock.start \in Nat /\ db[k].lock.start <= clock
           /\ \A v \in db[k].values : /\ v.start \in Nat /\ v.start > 0 /\ v.start <= clock
                                      /\ v.commit \in Nat /\ v.commit <= clock
<1>1. db[k].lock.start \in Nat /\ db[k].lock.start <= clock
  <2>1. CASE db[k].lock = NoLock
    BY SMTT(60), <2>1 DEF NoLock, StoreInv, TimesOK
  <2>2. CASE db[k].lock # NoLock
    <3>1. PICK u \in Txn : db[k].lock = Own(u, k)
      BY <2>2 DEF StoreInv, LocksTrue, Locked
    <3>2. db[k].lock.start = start[u]
      BY SMTT(60), <3>1 DEF Own
    <3> QED BY <3>2 DEF StoreInv, TimesOK
  <2> QED BY <2>1, <2>2
<1>2. ASSUME NEW v \in db[k].values
      PROVE  v.start \in Nat /\ v.start > 0 /\ v.start <= clock /\ v.commit \in Nat /\ v.commit <= clock
  <2>1. PICK u \in Txn : start[u] > 0 /\ (v = Tomb(u) \/ v = Mark(u, k))
    BY DEF StoreInv, VersionsTrue
  <2>2. v.start = start[u] /\ (v.commit = start[u] \/ v.commit = commit[u])
    <3>1. CASE v = Tomb(u)
      BY <3>1 DEF Tomb, Version
    <3>2. CASE v = Mark(u, k)
      BY <3>2 DEF Mark, Version
    <3> QED BY <2>1, <3>1, <3>2
  <2> QED BY <2>1, <2>2 DEF StoreInv, TimesOK
<1> QED BY <1>1, <1>2

LEMMA BeginKept ==
    ASSUME StoreInv, NEW t \in Txn, start[t] = 0, clock' = clock + 1, start' = Set(start, t, clock'),
           db' = db, commit' = commit
    PROVE  /\ StoreInv' /\ Extends /\ LocksStay /\ start'[t] > 0
           /\ \A u \in Txn : u # t => start'[u] = start[u]
           /\ \A u \in Txn : Done(u)' <=> Done(u)
<1>1. /\ clock \in Nat /\ start \in [Txn -> Nat] /\ commit \in [Txn -> Nat]
      /\ start'[t] = clock + 1 /\ \A u \in Txn : u # t => start'[u] = start[u]
  BY DEF StoreInv, TimesOK, Set
<1>2. commit[t] = 0
  BY SMTT(60), <1>1 DEF StoreInv, TimesOK
<1>3. \A u \in Txn : u # t =>
        \A k : Own(u, k)' = Own(u, k) /\ Mark(u, k)' = Mark(u, k) /\ Tomb(u)' = Tomb(u)
  BY <1>1 DEF Own, Mark, Tomb
<1>4. \A u \in Txn : u # t => (Done(u)' <=> Done(u)) /\ (Dead(u)' <=> Dead(u))
  BY <1>3 DEF Done, Dead
<1>5. \A u \in Txn : u # t => \A k : Locked(u, k)' <=> Locked(u, k)
  BY <1>3 DEF Locked
<1>6. \A k \in Keys : /\ db[k].lock.start # start'[t]
                      /\ \A v \in db[k].values : v.start # start'[t]
  BY SMTT(60), <1>1, StoreIsOld
<1>7. ~Done(t)' /\ ~Dead(t)' /\ ~Done(t)
  <2>1. Mark(t, Primary(t))'.start = start'[t] /\ Tomb(t)'.start = start'[t]
    BY DEF Mark, Tomb, Version
  <2>2. KeysOf(t) # {} => Primary(t) \in Keys
    BY KeysAreKeys
  <2>3. ~Done(t)
    BY SMTT(60), DoneIs
  <2> QED BY <1>6, <2>1, <2>2, <2>3 DEF Done, Dead
<1>8. TimesOK'
  <2>1. clock' \in Nat /\ start' \in [Txn -> Nat] /\ commit' \in [Txn -> Nat]
    BY SMTT(60), <1>1 DEF Set
  <2>2. \A u \in Txn : start'[u] <= clock' /\ commit'[u] <= clock'
    BY SMTT(60), <1>1 DEF StoreInv, TimesOK
  <2>3. \A u \in Txn : commit'[u] > 0 => start'[u] > 0 /\ start'[u] < commit'[u]
    BY SMTT(60), <1>1, <1>2 DEF StoreInv, TimesOK
  <2>4. \A u, w \in Txn : start'[u] > 0 /\ start'[u] = start'[w] => u = w
    BY SMTT(60), <1>1 DEF StoreInv, TimesOK
  <2>5. \A u, w \in Txn : commit'[u] > 0 => commit'[u] # start'[w]
    BY SMTT(60), <1>1 DEF StoreInv, TimesOK
  <2>6. \A u, w \in Txn : commit'[u] > 0 /\ commit'[u] = commit'[w] => u = w
    BY DEF StoreInv, TimesOK
  <2> QED BY <2>1, <2>2, <2>3, <2>4, <2>5, <2>6 DEF TimesOK
<1>9. LocksTrue'
  BY SMTT(60), <1>1, <1>5 DEF StoreInv, LocksTrue
<1>10. VersionsTrue'
  <2> SUFFICES ASSUME NEW k \in Keys, NEW v \in db[k].values
               PROVE  \E u \in Txn :
                        /\ start'[u] > 0 /\ k \in KeysOf(u)
                        /\ \/ v = Tomb(u)'
                           \/ v = Mark(u, k)' /\ commit'[u] > 0 /\ OpOf[u][k] # "lock" /\ Done(u)'
    BY DEF VersionsTrue
  <2>1. PICK u \in Txn :
          /\ start[u] > 0 /\ k \in KeysOf(u)
          /\ v = Tomb(u) \/ (v = Mark(u, k) /\ commit[u] > 0 /\ OpOf[u][k] # "lock" /\ Done(u))
    BY DEF StoreInv, VersionsTrue
  <2>2. u # t
    BY SMTT(60), <1>1, <2>1
  <2> QED BY <1>1, <1>3, <1>4, <2>1, <2>2
<1>11. Exclusive' /\ LockNewest'
  BY SMTT(60), <1>1, <1>6 DEF StoreInv, Exclusive, LockNewest
<1>12. Decided'
  BY <1>1, <1>4, <1>7 DEF StoreInv, Decided
<1>13. Prepared'
  <2> SUFFICES ASSUME NEW u \in Txn, Mutates(u), commit[u] > 0, ~Dead(u)', NEW k \in KeysOf(u)
               PROVE  \/ Locked(u, k)'
                      \/ Done(u)' /\ (OpOf[u][k] = "lock" \/ Mark(u, k)' \in db[k].values)
    BY DEF Prepared, Mutates
  <2>1. u # t
    BY SMTT(60), <1>1, <1>2
  <2>2. Locked(u, k) \/ (Done(u) /\ (OpOf[u][k] = "lock" \/ Mark(u, k) \in db[k].values))
    BY <1>4, <2>1 DEF StoreInv, Prepared
  <2> QED BY <1>3, <1>4, <1>5, <2>1, <2>2
<1>14. StoreInv'
  BY <1>8, <1>9, <1>10, <1>11, <1>12, <1>13 DEF StoreInv
<1>15. Extends
  BY SMTT(60), <1>1, <1>4 DEF Extends
<1>16. LocksStay
  <2>1. ASSUME NEW u \in Txn, start[u] > 0 PROVE u # t
    BY SMTT(60), <1>1, <2>1
  <2> QED BY <1>5, <2>1 DEF LocksStay
<1> QED BY SMTT(60), <1>1, <1>4, <1>7, <1>14, <1>15, <1>16

LEMMA CommitTSKept ==
    ASSUME StoreInv, NEW t \in Txn, start[t] > 0, commit[t] = 0, Prewriting(t), jobs[t] = {},
           clock' = clock + 1, commit' = Set(commit, t, clock'), db' = db, start' = start
    PROVE  /\ StoreInv' /\ Extends /\ LocksStay /\ commit'[t] = clock + 1
           /\ \A u \in Txn : u # t => commit'[u] = commit[u]
           /\ \A u \in Txn : Done(u)' <=> Done(u)
           /\ ~Done(t)'
<1>1. /\ clock \in Nat /\ start \in [Txn -> Nat] /\ commit \in [Txn -> Nat]
      /\ commit'[t] = clock + 1 /\ \A u \in Txn : u # t => commit'[u] = commit[u]
  BY DEF StoreInv, TimesOK, Set
<1>2. \A u \in Txn : /\ u # t => \A k : Mark(u, k)' = Mark(u, k)
                     /\ \A k : Own(u, k)' = Own(u, k) /\ Tomb(u)' = Tomb(u)
  BY <1>1 DEF Own, Mark, Tomb
<1>3. \A u \in Txn : (Dead(u)' <=> Dead(u)) /\ (u # t => (Done(u)' <=> Done(u)))
  BY <1>2 DEF Done, Dead
<1>4. \A u \in Txn : \A k : Locked(u, k)' <=> Locked(u, k)
  BY <1>2 DEF Locked
<1>5. ~Done(t) /\ ~Done(t)'
  <2>1. Mark(t, Primary(t))'.commit = clock + 1
    BY <1>1 DEF Mark, Version
  <2>2. KeysOf(t) # {} => Primary(t) \in Keys
    BY KeysAreKeys
  <2>3. ~Done(t)
    BY SMTT(60), DoneIs
  <2>4. ASSUME Done(t)' PROVE FALSE
    <3>1. Primary(t) \in Keys /\ Mark(t, Primary(t))' \in db[Primary(t)].values
      BY <2>2, <2>4 DEF Done
    <3>2. Mark(t, Primary(t))'.commit <= clock
      BY <3>1, StoreIsOld
    <3> QED BY SMTT(60), <1>1, <2>1, <3>2
  <2> QED BY <2>3, <2>4
<1>6. TimesOK'
  <2>1. clock' \in Nat /\ start' \in [Txn -> Nat] /\ commit' \in [Txn -> Nat]
    BY SMTT(60), <1>1 DEF Set
  <2>0. TimesOK
    BY DEF StoreInv
  <2>2. \A u \in Txn : start'[u] <= clock' /\ commit'[u] <= clock'
    BY SMTT(60), <1>1, <2>0 DEF TimesOK
  <2>3. ASSUME NEW u \in Txn, commit'[u] > 0 PROVE start'[u] > 0 /\ start'[u] < commit'[u]
    <3>1. CASE u = t
      BY SMTT(60), <1>1, <2>0, <3>1 DEF TimesOK
    <3>2. CASE u # t
      BY <1>1, <2>0, <2>3, <3>2 DEF TimesOK
    <3> QED BY <3>1, <3>2
  <2>4. \A u, w \in Txn : start'[u] > 0 /\ start'[u] = start'[w] => u = w
    BY DEF StoreInv, TimesOK
  <2>5. \A u, w \in Txn : commit'[u] > 0 => commit'[u] # start'[w]
    BY SMTT(60), <1>1 DEF StoreInv, TimesOK
  <2>6. \A u, w \in Txn : commit'[u] > 0 /\ commit'[u] = commit'[w] => u = w
    BY SMTT(60), <1>1 DEF StoreInv, TimesOK
  <2> QED BY <2>1, <2>2, <2>3, <2>4, <2>5, <2>6 DEF TimesOK
<1>7. LocksTrue'
  BY <1>4 DEF StoreInv, LocksTrue
<1>8. VersionsTrue'
  <2> SUFFICES ASSUME NEW k \in Keys, NEW v \in db[k].values
               PROVE  \E u \in Txn :
                        /\ start[u] > 0 /\ k \in KeysOf(u)
                        /\ \/ v = Tomb(u)'
                           \/ v = Mark(u, k)' /\ commit'[u] > 0 /\ OpOf[u][k] # "lock" /\ Done(u)'
    BY DEF VersionsTrue
  <2>1. PICK u \in Txn :
          /\ start[u] > 0 /\ k \in KeysOf(u)
          /\ v = Tomb(u) \/ (v = Mark(u, k) /\ commit[u] > 0 /\ OpOf[u][k] # "lock" /\ Done(u))
    BY DEF StoreInv, VersionsTrue
  <2>2. CASE v = Tomb(u)
    BY <1>2, <2>1, <2>2
  <2>3. CASE v # Tomb(u)
    <3>1. commit[u] > 0
      BY <2>1, <2>3
    <3>2. u # t
      BY SMTT(60), <1>1, <3>1
    <3> QED BY <1>1, <1>2, <1>3, <2>1, <2>3, <3>1, <3>2
  <2> QED BY <2>2, <2>3
<1>9. Exclusive' /\ LockNewest'
  BY DEF StoreInv, Exclusive, LockNewest
<1>10. Decided'
  BY <1>3, <1>5 DEF StoreInv, Decided
<1>11. Prepared'
  <2> SUFFICES ASSUME NEW u \in Txn, Mutates(u), commit'[u] > 0, ~Dead(u)', NEW k \in KeysOf(u)
               PROVE  \/ Locked(u, k)'
                      \/ Done(u)' /\ (OpOf[u][k] = "lock" \/ Mark(u, k)' \in db[k].values)
    BY DEF Prepared, Mutates
  <2>1. CASE u = t
    BY <1>3, <1>4, <2>1 DEF Prewriting
  <2>2. CASE u # t
    <3>1. commit[u] > 0 /\ ~Dead(u)
      BY <1>1, <1>3, <2>2
    <3>2. Locked(u, k) \/ (Done(u) /\ (OpOf[u][k] = "lock" \/ Mark(u, k) \in db[k].values))
      BY <3>1 DEF StoreInv, Prepared
    <3> QED BY <1>2, <1>3, <1>4, <2>2, <3>2
  <2> QED BY <2>1, <2>2
<1>12. StoreInv'
  BY <1>6, <1>7, <1>8, <1>9, <1>10, <1>11 DEF StoreInv
<1>13. Extends
  BY SMTT(60), <1>1, <1>3, <1>5 DEF Extends
<1>14. LocksStay
  BY <1>4 DEF LocksStay
<1> QED BY <1>1, <1>3, <1>5, <1>12, <1>13, <1>14

------------------------------------------------------------------------------
(* One lemma per action *)

LEMMA BeginKeeps ==
    ASSUME IInv, NEW t \in Txn, Begin(t)
    PROVE  IInv'
<1>1. StoreInv /\ ClientType /\ TxnOK(t) /\ ToldOK(t)
  BY DEF IInv
<1>2. pc[t] = "idle" /\ start[t] = 0 /\ commit[t] = 0
  BY <1>1 DEF Begin, TxnOK, PhaseOK
<1>3. /\ StoreInv' /\ Extends /\ LocksStay /\ start'[t] > 0
      /\ \A u \in Txn : u # t => start'[u] = start[u]
      /\ \A u \in Txn : Done(u)' <=> Done(u)
  BY <1>1, <1>2, BeginKept DEF Begin
<1>4. /\ pc'[t] = "read" /\ jobs'[t] = JobsFor(ReadSet[t], cached)
      /\ \A u \in Txn : u # t => pc'[u] = pc[u] /\ jobs'[u] = jobs[u]
  BY <1>1 DEF Begin, Set, ClientType
<1>5. /\ \A j \in jobs'[t] : j \in JobSet /\ j.locks = {} /\ j.cur = NoCur
  <2>1. ReadSet[t] \subseteq Keys
    BY TxnAssumption
  <2>2. \A j \in JobsFor(ReadSet[t], cached) : j \in JobSet /\ j.locks = {} /\ j.cur = NoCur
    BY SMTT(60), <2>1, JobsForAre
  <2> QED BY <1>4, <2>2
<1>6. ClientType'
  BY <1>1, <1>4, <1>5 DEF Begin, Set, ClientType, Phases
<1>7. TxnOK(t)'
  <2>1. PhaseOK(t)'
    <3>1. commit'[t] = 0 /\ start'[t] # 0 /\ ~undetermined'[t]
      <4>1. commit'[t] = 0 /\ ~undetermined'[t]
        BY <1>1, <1>2 DEF TxnOK, PhaseOK, Begin
      <4>2. start'[t] # 0
        BY SMTT(60), <1>3
      <4> QED BY <4>1, <4>2
    <3> QED BY <1>4, <3>1 DEF PhaseOK
  <2>2. \A j \in jobs'[t] : JobOK(t, j)'
    BY <1>4, <1>5 DEF JobOK
  <2> QED BY <2>1, <2>2 DEF TxnOK
<1>8. ToldOK(t)'
  BY <1>1, <1>2, <1>3, <1>4 DEF ToldOK, Begin, LocksOnly
<1>9. \A u \in Txn : u # t => Same(u)
  BY <1>3, <1>4 DEF Same, Begin, StrayCommit
<1>10. StrayOK' /\ ResolvedOK'
  BY <1>3, SharedStay DEF Begin
<1> QED BY <1>3, <1>6, <1>7, <1>8, <1>9, <1>10, ActionKeeps

\* A step that changes neither the store nor a timestamp.
LEMMA QuietKeeps ==
    ASSUME IInv, NEW t \in Txn, db' = db, start' = start, commit' = commit, clock' = clock,
           stray' = stray, resolved' = resolved, ClientType', TxnOK(t)', ToldOK(t)',
           \A u \in Txn : u # t => /\ pc'[u] = pc[u] /\ jobs'[u] = jobs[u] /\ result'[u] = result[u]
                                   /\ undetermined'[u] = undetermined[u]
    PROVE  IInv'
<1>1. StoreInv
  BY DEF IInv
<1>2. StoreInv' /\ Extends /\ LocksStay /\ \A u \in Txn : Done(u)' <=> Done(u)
  BY <1>1, IdleKept DEF Kept
<1>3. \A u \in Txn : u # t => Same(u)
  BY <1>2 DEF Same, StrayCommit
<1>4. StrayOK' /\ ResolvedOK'
  BY <1>2, SharedStay
<1> QED BY <1>2, <1>3, <1>4, ActionKeeps

LEMMA ReadBatchKeeps ==
    ASSUME IInv, NEW t \in Txn, NEW j \in jobs[t], ReadBatch(t, j)
    PROVE  IInv'
<1>1. StoreInv /\ ClientType /\ PhaseOK(t) /\ ToldOK(t) /\ \A i \in jobs[t] : JobOK(t, i)
  BY DEF IInv, TxnOK
<1>2. /\ pc[t] = "read" /\ db' = db /\ start' = start /\ commit' = commit /\ clock' = clock
      /\ stray' = stray /\ resolved' = resolved /\ pc' = pc /\ result' = result
      /\ undetermined' = undetermined
  BY DEF ReadBatch
<1>3. j \in JobSet /\ j.keys \subseteq Keys
  BY SMTT(60), <1>1 DEF ClientType, JobSet
<1>4. StoreInv' /\ Extends /\ \A u \in Txn : Done(u)' <=> Done(u)
  BY <1>1, <1>2, IdleKept DEF Kept
<1>5. \E new \in SUBSET JobSet : /\ jobs' = [jobs EXCEPT ![t] = (@ \ {j}) \cup new]
                                 /\ \A i \in new : (\A l \in i.locks : TrueLock(l)) /\ i.cur = NoCur
  <2>1. CASE OutOfRegion(j.keys)
    <3>1. jobs' = [jobs EXCEPT ![t] = (@ \ {j}) \cup JobsFor(j.keys, split)]
      BY <2>1 DEF ReadBatch, RegionRetry, Replace
    <3>2. \A i \in JobsFor(j.keys, split) : i \in JobSet /\ i.locks = {} /\ i.cur = NoCur
      BY SMTT(60), <1>3, JobsForAre
    <3>3. JobsFor(j.keys, split) \in SUBSET JobSet
      BY <3>2
    <3> QED BY <3>1, <3>2, <3>3
  <2>2. CASE ~OutOfRegion(j.keys)
    <3> DEFINE blocked == {k \in j.keys : ReadBlocked(db[k], start[t])}
               new == IF blocked = {} THEN {} ELSE {ResolveFirst(Job(blocked), blocked)}
    <3>1. jobs' = [jobs EXCEPT ![t] = (@ \ {j}) \cup new]
      BY <2>2 DEF ReadBatch, Replace
    <3>2. blocked \subseteq Keys /\ \A k \in blocked : HasLock(db[k])
      BY <1>3 DEF ReadBlocked
    <3>3. \A l \in ExpiredLocks(blocked) : l \in LockSet /\ TrueLock(l)
      BY <1>1, <3>2, ExpiredLocksAre
    <3> HIDE DEF blocked
    <3>4. NoCur \in [lock : LockSet, status : Int]
      BY SMTT(60) DEF NoCur, LockSet, None
    <3>5. ResolveFirst(Job(blocked), blocked) \in JobSet
      BY <3>2, <3>3, <3>4 DEF ResolveFirst, Job, JobSet
    <3>6. \A i \in new : (\A l \in i.locks : TrueLock(l)) /\ i.cur = NoCur
      BY SMTT(60), <3>3 DEF ResolveFirst
    <3>7. new \in SUBSET JobSet
      BY <3>5
    <3> QED BY <3>1, <3>6, <3>7
  <2> QED BY <2>1, <2>2
<1>6. PICK new \in SUBSET JobSet : /\ jobs' = [jobs EXCEPT ![t] = (@ \ {j}) \cup new]
                                   /\ \A i \in new : (\A l \in i.locks : TrueLock(l)) /\ i.cur = NoCur
  BY <1>5
<1>7. jobs'[t] = (jobs[t] \ {j}) \cup new /\ \A u \in Txn : u # t => jobs'[u] = jobs[u]
  BY <1>1, <1>6 DEF ClientType
<1>8. seen' \in [Txn -> [Keys -> Nat \cup {Unread}]]
  <2>1. CASE OutOfRegion(j.keys)
    BY <1>1, <2>1 DEF ReadBatch, ClientType
  <2>2. CASE ~OutOfRegion(j.keys)
    <3> DEFINE blocked == {k \in j.keys : ReadBlocked(db[k], start[t])}
               row == [k \in Keys |-> IF k \in j.keys \ blocked THEN Visible(db[k], start[t])
                                      ELSE seen[t][k]]
    <3>1. seen' = [seen EXCEPT ![t] = row]
      BY <1>1, <2>2 DEF ReadBatch, ClientType
    <3>2. row \in [Keys -> Nat \cup {Unread}]
      <4> SUFFICES ASSUME NEW k \in Keys PROVE Visible(db[k], start[t]) \in Nat
        BY <1>1 DEF ClientType
      <4> DEFINE S == {v \in db[k].values : v.type # "rollback" /\ v.commit <= start[t]}
      <4>1. CASE S = {} \/ Newest(S).type = "del"
        BY <4>1 DEF Visible
      <4>2. CASE S # {} /\ Newest(S).type # "del"
        <5>1. Newest(S) \in db[k].values
          BY <1>1, <4>2, NewestIs
        <5> QED BY <1>1, <4>2, <5>1, StoreIsOld DEF Visible
      <4> QED BY <4>1, <4>2
    <3> QED BY <1>1, <3>1, <3>2 DEF ClientType
  <2> QED BY <2>1, <2>2
<1>9. ClientType'
  BY <1>1, <1>2, <1>6, <1>8 DEF ClientType
<1>10. TxnOK(t)'
  <2>1. PhaseOK(t)'
    BY <1>1, <1>2 DEF PhaseOK
  <2>2. \A i \in jobs[t] : JobOK(t, i)'
    BY <1>1, <1>2, <1>4, JobStays
  <2>3. \A i \in new : JobOK(t, i)'
    BY <1>2, <1>4, <1>6, TrueLockStays DEF JobOK
  <2> QED BY <1>7, <2>1, <2>2, <2>3 DEF TxnOK
<1>11. ToldOK(t)'
  BY <1>1, <1>2, <1>4 DEF ToldOK, StrayCommit, PhaseOK
<1> QED BY <1>2, <1>7, <1>9, <1>10, <1>11, QuietKeeps

LEMMA StartCommitKeeps ==
    ASSUME IInv, NEW t \in Txn, StartCommit(t)
    PROVE  IInv'
<1>1. StoreInv /\ ClientType /\ PhaseOK(t) /\ ToldOK(t)
  BY DEF IInv, TxnOK
<1>2. /\ pc[t] = "read" /\ db' = db /\ start' = start /\ commit' = commit /\ clock' = clock
      /\ stray' = stray /\ resolved' = resolved /\ seen' = seen /\ undetermined' = undetermined
      /\ jobs[t] = {}
  BY DEF StartCommit
<1>3. commit[t] = 0 /\ start[t] # 0
  BY <1>1, <1>2 DEF PhaseOK
<1>4. CASE KeysOf(t) = {}
  <2>1. /\ pc'[t] = "done" /\ result'[t] = "ok" /\ jobs' = jobs
        /\ \A u \in Txn : u # t => pc'[u] = pc[u] /\ result'[u] = result[u]
    BY <1>1, <1>4 DEF StartCommit, Set, ClientType
  <2>2. ClientType'
    BY <1>1, <1>2, <1>4 DEF StartCommit, Set, ClientType, Phases
  <2>3. TxnOK(t)'
    BY <1>2, <1>3, <2>1 DEF TxnOK, PhaseOK
  <2>4. ToldOK(t)'
    BY <1>4, <2>1 DEF ToldOK
  <2> QED BY <1>2, <2>1, <2>2, <2>3, <2>4, QuietKeeps
<1>5. CASE KeysOf(t) # {}
  <2>1. /\ pc'[t] = "prewrite" /\ jobs'[t] = JobsFor(KeysOf(t), cached) /\ result' = result
        /\ \A u \in Txn : u # t => pc'[u] = pc[u] /\ jobs'[u] = jobs[u]
    BY <1>1, <1>5 DEF StartCommit, Set, ClientType
  <2>2. KeysOf(t) \subseteq Keys
    BY KeysAreKeys
  <2>3. /\ \A j \in jobs'[t] : j \in JobSet /\ j.keys \subseteq KeysOf(t) /\ j.locks = {} /\ j.cur = NoCur
        /\ \A k \in KeysOf(t) : \E j \in jobs'[t] : k \in j.keys
    <3>1. /\ \A j \in JobsFor(KeysOf(t), cached) :
                j \in JobSet /\ j.keys \subseteq KeysOf(t) /\ j.locks = {} /\ j.cur = NoCur
          /\ \A k \in KeysOf(t) : \E j \in JobsFor(KeysOf(t), cached) : k \in j.keys
      BY SMTT(60), <2>2, JobsForAre
    <3> QED BY <2>1, <3>1
  <2>4. ClientType'
    <3>1. pc' \in [Txn -> Phases]
      BY <1>1, <1>5 DEF StartCommit, Set, ClientType, Phases
    <3>2. jobs' \in [Txn -> SUBSET JobSet]
      <4>1. jobs' = [jobs EXCEPT ![t] = JobsFor(KeysOf(t), cached)]
        BY <1>1, <1>5 DEF StartCommit, Set, ClientType
      <4>2. JobsFor(KeysOf(t), cached) \in SUBSET JobSet
        BY <2>1, <2>3
      <4> QED BY <1>1, <4>1, <4>2 DEF ClientType
    <3> QED BY <1>1, <1>2, <2>1, <3>1, <3>2 DEF StartCommit, ClientType
  <2>5. TxnOK(t)'
    <3>1. PhaseOK(t)'
      BY <1>1, <1>2, <1>3, <1>5, <2>1, <2>3 DEF PhaseOK, Prewriting
    <3>2. \A j \in jobs'[t] : JobOK(t, j)'
      BY <2>1, <2>3 DEF JobOK
    <3> QED BY <3>1, <3>2 DEF TxnOK
  <2>6. ToldOK(t)'
    <3>1. Done(t)' <=> Done(t)
      BY <1>1, <1>2, IdleKept
    <3> QED BY <1>1, <1>2, <2>1, <3>1 DEF ToldOK
  <2> QED BY <1>2, <2>1, <2>4, <2>5, <2>6, QuietKeeps
<1> QED BY <1>4, <1>5

------------------------------------------------------------------------------
(* The requests of a goroutine *)

LEMMA NextLockIs ==
    ASSUME IInv, NEW t \in Txn, NEW j \in jobs[t], ~Ready(j)
    PROVE  NextLock(j) \in j.locks /\ TrueLock(NextLock(j)) /\ NextLock(j) \in LockSet
<1>1. j.locks \subseteq LockSet /\ j.locks # {} /\ \A l \in j.locks : TrueLock(l)
  BY SMTT(60) DEF IInv, ClientType, JobSet, Ready, TxnOK, JobOK
<1> DEFINE N == {l.key : l \in j.locks}
<1>2. N \subseteq Nat /\ N # {}
  BY <1>1 DEF LockSet
<1> HIDE DEF N
<1>3. PICK n \in N : \A m \in N : n <= m
  BY <1>2 DEF WellOrdered, StoreInv, IInv
<1>4. \E l \in j.locks : \A m \in j.locks : l.key <= m.key
  BY <1>3 DEF N
<1> QED BY <1>1, <1>4 DEF NextLock

LEMMA RequestIs ==
    ASSUME IInv, NEW t \in Txn, NEW j \in jobs[t]
    PROVE  /\ pc[t] \notin {"idle", "done"}
           /\ pc[t] = "prewrite" /\ Ready(j) => RequestOf(t, j) = Request("prewrite", j.keys, start[t], 0)
           /\ pc[t] \in {"commit", "secondary"} =>
                RequestOf(t, j) = Request("commit", j.keys, start[t], commit[t])
           /\ pc[t] \in {"cleanPrimary", "cleanRest"} =>
                RequestOf(t, j) = Request("rollback", j.keys, start[t], 0)
           /\ j.cur # NoCur =>
                RequestOf(t, j) = Request("resolve", {j.cur.lock.key}, j.cur.lock.start, j.cur.status)
           /\ ~Ready(j) /\ j.cur = NoCur =>
                RequestOf(t, j) = Request("rollback", {NextLock(j).primary}, NextLock(j).start, 0)
           /\ pc[t] = "read" /\ Ready(j) => RequestOf(t, j) = Request("get", j.keys, start[t], 0)
<1>1. PhaseOK(t) /\ JobOK(t, j)
  BY DEF IInv, TxnOK
<1>2. pc[t] \notin {"idle", "done"}
  BY <1>1 DEF PhaseOK
<1>3. Ready(j) => j.cur = NoCur
  BY <1>1 DEF JobOK, Ready
<1>4. pc[t] \notin {"read", "prewrite"} => Ready(j)
  BY <1>1 DEF JobOK, Ready
<1>5. Ready(j) /\ pc[t] = "prewrite" => RequestOf(t, j) = Request("prewrite", j.keys, start[t], 0)
  BY <1>3 DEF RequestOf
<1>6. pc[t] \in {"commit", "secondary"} => RequestOf(t, j) = Request("commit", j.keys, start[t], commit[t])
  BY <1>3, <1>4 DEF RequestOf
<1>7. pc[t] \in {"cleanPrimary", "cleanRest"} => RequestOf(t, j) = Request("rollback", j.keys, start[t], 0)
  BY <1>3, <1>4 DEF RequestOf
<1>8. /\ j.cur # NoCur =>
           RequestOf(t, j) = Request("resolve", {j.cur.lock.key}, j.cur.lock.start, j.cur.status)
      /\ ~Ready(j) /\ j.cur = NoCur =>
           RequestOf(t, j) = Request("rollback", {NextLock(j).primary}, NextLock(j).start, 0)
  BY DEF RequestOf
<1>9. pc[t] = "read" /\ Ready(j) => RequestOf(t, j) = Request("get", j.keys, start[t], 0)
  BY <1>3 DEF RequestOf
<1> QED BY <1>2, <1>5, <1>6, <1>7, <1>8, <1>9

\* Every request but a read is legitimate.
LEMMA RequestLegit ==
    ASSUME IInv, NEW t \in Txn, NEW j \in jobs[t], RequestOf(t, j).kind # "get"
    PROVE  /\ Legit(RequestOf(t, j))
           /\ RequestOf(t, j).kind = "commit" =>
                pc[t] \in {"commit", "secondary"} /\ RequestOf(t, j).ts = start[t]
<1>1. StoreInv /\ PhaseOK(t) /\ JobOK(t, j) /\ pc[t] \in Phases
  BY DEF IInv, TxnOK, ClientType
<1>0. PICK r : r = RequestOf(t, j)
  OBVIOUS
<1>2. start[t] > 0
  BY Busy
<1> SUFFICES Legit(r) /\ (r.kind = "commit" => pc[t] \in {"commit", "secondary"} /\ r.ts = start[t])
  BY <1>0
<1>3. CASE j.cur # NoCur
  <2>1. r = Request("resolve", {j.cur.lock.key}, j.cur.lock.start, j.cur.status)
    BY <1>0, <1>3, RequestIs
  <2>2. r.kind = "resolve" /\ r.ts = j.cur.lock.start /\ r.cts = j.cur.status
    BY <2>1 DEF Request
  <2>3. Known(r.ts, r.cts)
    BY <1>1, <1>3, <2>2 DEF JobOK
  <2> QED BY <2>2, <2>3 DEF Known, Legit
<1>4. CASE j.cur = NoCur /\ ~Ready(j)
  <2> DEFINE l == NextLock(j)
  <2>1. r = Request("rollback", {l.primary}, l.start, 0)
    BY <1>0, <1>4, RequestIs
  <2>2. r.kind = "rollback" /\ r.ts = l.start /\ r.keys = {l.primary}
    BY <2>1 DEF Request
  <2>3. PICK u \in Txn : start[u] > 0 /\ l.start = start[u] /\ l.primary = Primary(u) /\ l.key \in KeysOf(u)
    BY <1>4, NextLockIs DEF TrueLock
  <2>4. KeysOf(u) # {} /\ Primary(u) \in KeysOf(u)
    BY <2>3, KeysAreKeys
  <2> HIDE DEF l
  <2> QED BY <2>2, <2>3, <2>4 DEF Legit
<1>5. CASE Ready(j) /\ pc[t] = "prewrite"
  <2>1. r = Request("prewrite", j.keys, start[t], 0)
    BY <1>0, <1>5, RequestIs
  <2>2. r.kind = "prewrite" /\ r.ts = start[t] /\ r.keys = j.keys
    BY <2>1 DEF Request
  <2>3. j.keys \subseteq KeysOf(t) /\ KeysOf(t) # {}
    BY <1>1, <1>5 DEF JobOK, PhaseOK
  <2> QED BY <1>2, <2>2, <2>3 DEF Legit
<1>6. CASE pc[t] \in {"commit", "secondary"}
  <2>1. r = Request("commit", j.keys, start[t], commit[t])
    BY <1>0, <1>6, RequestIs
  <2>2. r.kind = "commit" /\ r.ts = start[t] /\ r.keys = j.keys /\ r.cts = commit[t]
    BY <2>1 DEF Request
  <2>3. /\ j.keys \subseteq KeysOf(t) /\ KeysOf(t) # {} /\ commit[t] > 0
        /\ Primary(t) \in j.keys \/ Done(t) \/ ~Mutates(t)
    BY <1>1, <1>6 DEF JobOK, PhaseOK
  <2> QED BY <1>2, <1>6, <2>2, <2>3 DEF Legit
<1>7. CASE pc[t] \in {"cleanPrimary", "cleanRest"}
  <2>1. r = Request("rollback", j.keys, start[t], 0)
    BY <1>0, <1>7, RequestIs
  <2>2. r.kind = "rollback" /\ r.ts = start[t] /\ r.keys = j.keys
    BY <2>1 DEF Request
  <2>3. j.keys \subseteq KeysOf(t) /\ KeysOf(t) # {} /\ (Primary(t) \in j.keys \/ Dead(t))
    BY <1>1, <1>7 DEF JobOK, PhaseOK
  <2> QED BY <1>2, <2>2, <2>3 DEF Legit
<1>8. ~(pc[t] = "read" /\ Ready(j) /\ j.cur = NoCur)
  <2> SUFFICES ASSUME pc[t] = "read", Ready(j) PROVE FALSE
    OBVIOUS
  <2>1. RequestOf(t, j) = Request("get", j.keys, start[t], 0)
    BY RequestIs
  <2>2. RequestOf(t, j).kind = "get"
    BY SMTT(60), <2>1 DEF Request
  <2> QED BY <2>2
<1>9. pc[t] \in {"read", "prewrite", "commit", "secondary", "cleanPrimary", "cleanRest"}
  BY Busy
<1> QED BY <1>3, <1>4, <1>5, <1>6, <1>7, <1>8, <1>9

\* A step of t that is a step of the store on behalf of s.
LEMMA StoreActionKeeps ==
    ASSUME IInv, NEW t \in Txn, NEW s \in Txn, start[s] > 0, StoreStep(s),
           start' = start, commit' = commit, clock' = clock, stray' = stray,
           ClientType', ResolvedOK', TxnOK(t)', ToldOK(t)', s = t \/ (Done(s)' => Done(s)),
           \A u \in Txn : u # t => /\ pc'[u] = pc[u] /\ jobs'[u] = jobs[u] /\ result'[u] = result[u]
                                   /\ undetermined'[u] = undetermined[u]
    PROVE  IInv'
<1>1. Kept(s)
  BY StoreStepKept DEF IInv
<1>2. StoreInv' /\ Extends /\ LocksStay /\ \A u \in Txn : u # s => (Done(u)' <=> Done(u))
  BY <1>1 DEF Kept
<1>3. \A u \in Txn : u # t => Same(u)
  BY <1>2 DEF Same, StrayCommit
<1>4. StrayOK'
  BY <1>2, SharedStay
<1> QED BY <1>2, <1>3, <1>4, ActionKeeps

\* Jobs that replace a goroutine of t.
LEMMA ReplaceIs ==
    ASSUME ClientType, NEW t \in Txn, NEW j, NEW new, Replace(t, j, new)
    PROVE  /\ jobs'[t] = (jobs[t] \ {j}) \cup new /\ \A u \in Txn : u # t => jobs'[u] = jobs[u]
           /\ new \subseteq JobSet => jobs' \in [Txn -> SUBSET JobSet]
BY DEF Replace, ClientType

\* The goroutines of t after one of them was replaced by fresh ones.
LEMMA FreshJobs ==
    ASSUME StoreInv, Extends, NEW t \in Txn, NEW j, NEW new, jobs'[t] = (jobs[t] \ {j}) \cup new,
           pc'[t] = pc[t], pc[t] \notin {"commit", "cleanPrimary"}, \A i \in jobs[t] : JobOK(t, i),
           \A i \in new : i.locks = {} /\ i.cur = NoCur /\ (pc[t] # "read" => i.keys \subseteq KeysOf(t))
    PROVE  \A i \in jobs'[t] : JobOK(t, i)'
<1>1. \A i \in jobs[t] : JobOK(t, i)'
  BY JobStays
<1>2. \A i \in new : JobOK(t, i)'
  BY DEF JobOK
<1> QED BY <1>1, <1>2

LEMMA PrewriteBatchKeeps ==
    ASSUME IInv, NEW t \in Txn, NEW j \in jobs[t], PrewriteBatch(t, j)
    PROVE  IInv'
<1>1. StoreInv /\ ClientType /\ PhaseOK(t) /\ ToldOK(t) /\ StrayOK /\ \A i \in jobs[t] : JobOK(t, i)
  BY DEF IInv, TxnOK
<1>2. /\ pc[t] = "prewrite" /\ Ready(j) /\ start' = start /\ commit' = commit /\ clock' = clock
      /\ stray' = stray /\ resolved' = resolved /\ seen' = seen /\ undetermined' = undetermined
  BY DEF PrewriteBatch
<1>3. /\ j \in JobSet /\ j.keys \subseteq KeysOf(t) /\ j.keys \subseteq Keys /\ KeysOf(t) # {}
      /\ start[t] > 0 /\ commit[t] = 0 /\ Prewriting(t)
  <2>1. start[t] > 0 /\ j \in JobSet /\ JobOK(t, j)
    BY Busy
  <2>2. j.keys \subseteq KeysOf(t) /\ j.keys \subseteq Keys
    BY <1>2, <2>1, KeysAreKeys DEF JobOK
  <2>3. KeysOf(t) # {} /\ commit[t] = 0 /\ Prewriting(t)
    BY <1>1, <1>2 DEF PhaseOK
  <2> QED BY <2>1, <2>2, <2>3
<1>4. ~Done(t) /\ ~StrayCommit(t)
  BY <1>1, <1>3, NotCommittedYet
<1> DEFINE errs == [k \in j.keys |-> PrewriteError(db[k], start[t])]
           locked == {k \in j.keys : errs[k] = "locked"}
<1>5. CASE OutOfRegion(j.keys)
  <2>1. db' = db /\ pc' = pc /\ result' = result /\ Replace(t, j, JobsFor(j.keys, split))
    BY <1>5 DEF PrewriteBatch, RegionRetry
  <2>2. StoreInv' /\ Extends /\ LocksStay /\ \A u \in Txn : Done(u)' <=> Done(u)
    BY <1>1, <1>2, <2>1, IdleKept DEF Kept
  <2>3. /\ \A i \in JobsFor(j.keys, split) : i \in JobSet /\ i.keys \subseteq j.keys /\ i.locks = {} /\ i.cur = NoCur
        /\ \A k \in j.keys : \E i \in JobsFor(j.keys, split) : k \in i.keys
    <3>1. j.keys \subseteq Keys
      BY <1>3
    <3> QED BY SMTT(60), <3>1, JobsForAre
  <2>4. /\ jobs'[t] = (jobs[t] \ {j}) \cup JobsFor(j.keys, split)
        /\ \A u \in Txn : u # t => jobs'[u] = jobs[u]
        /\ jobs' \in [Txn -> SUBSET JobSet]
    BY <1>1, <2>1, <2>3, ReplaceIs
  <2>5. ClientType'
    BY <1>1, <1>2, <2>1, <2>4 DEF ClientType
  <2>6. Prewriting(t)'
    <3>1. \A i \in jobs[t] : \A k \in i.keys : \E x \in jobs'[t] : k \in x.keys
      BY <2>3, <2>4
    <3> QED BY <1>1, <1>3, <2>2, <3>1, PrewritingStays
  <2>7. PhaseOK(t)'
    BY <1>1, <1>2, <2>1, <2>6 DEF PhaseOK
  <2>8. \A i \in jobs'[t] : JobOK(t, i)'
    BY <1>1, <1>2, <1>3, <2>1, <2>2, <2>3, <2>4, FreshJobs
  <2>9. ToldOK(t)'
    BY <1>1, <1>2, <2>1, <2>2 DEF ToldOK
  <2> QED BY <1>2, <2>1, <2>4, <2>5, <2>7, <2>8, <2>9, QuietKeeps DEF TxnOK
<1>6. CASE ~OutOfRegion(j.keys) /\ \E k \in j.keys : errs[k] = "conflict"
  <2>1. db' = db /\ Fail(t)
    BY <1>6 DEF PrewriteBatch
  <2>2. \A u \in Txn : Done(u)' <=> Done(u)
    BY <1>1, <1>2, <2>1, IdleKept
  <2>3. /\ pc'[t] = "cleanPrimary" /\ jobs'[t] = PrimaryJob(t, KeysOf(t), cached) /\ result'[t] = "error"
        /\ \A u \in Txn : u # t => pc'[u] = pc[u] /\ jobs'[u] = jobs[u] /\ result'[u] = result[u]
    BY <1>1, <2>1 DEF Fail, Set, ClientType
  <2>4. ~Done(t)' /\ ~StrayCommit(t)'
    BY <1>2, <1>4, <2>2 DEF StrayCommit
  <2>5. jobs'[t] \subseteq JobSet /\ TxnOK(t)' /\ ToldOK(t)'
    BY <1>2, <1>3, <2>3, <2>4, FailOK
  <2>6. ClientType'
    BY <1>1, <1>2, <2>1, <2>3, <2>5 DEF Fail, Set, ClientType, Phases
  <2> QED BY <1>2, <2>1, <2>3, <2>5, <2>6, QuietKeeps
<1>7. CASE ~OutOfRegion(j.keys) /\ ~\E k \in j.keys : errs[k] = "conflict"
  <2> DEFINE new == IF locked = {} THEN {} ELSE {ResolveFirst(j, locked)}
  <2>1. db' = Execute(RequestOf(t, j)) /\ pc' = pc /\ result' = result /\ Replace(t, j, new)
    BY <1>7 DEF PrewriteBatch
  <2>2. db' = Prewrite(db, [k \in j.keys |-> OpOf[t][k]], Primary(t), start[t])
    <3>1. RequestOf(t, j) = Request("prewrite", j.keys, start[t], 0)
      BY <1>2, RequestIs
    <3>2. TxnAt(start[t]) = t
      BY <1>1, <1>3, Times DEF TxnAt
    <3>3. PICK r : r = RequestOf(t, j)
      OBVIOUS
    <3>4. r.kind = "prewrite" /\ r.keys = j.keys /\ r.ts = start[t]
      BY SMTT(60), <3>1, <3>3 DEF Request
    <3>5. db' = Execute(r)
      BY <2>1, <3>3
    <3> QED BY <1>7, <3>2, <3>4, <3>5 DEF Execute
  <2>3. /\ StoreStep(t)
        /\ (\A k \in j.keys : PrewriteError(db[k], start[t]) = "none") => \A k \in j.keys : Locked(t, k)'
        /\ Done(t)' => Done(t)
    BY <1>1, <1>2, <1>3, <2>2, PrewriteSteps
  <2>4. StoreInv' /\ Extends /\ LocksStay
    BY <1>1, <1>2, <1>3, <2>3, StoreStepKept DEF Kept
  <2>5. \A k \in j.keys : PrewriteError(db[k], start[t]) \in {"none", "locked", "conflict"}
    BY DEF PrewriteError
  <2>6. locked = {} => \A k \in j.keys : Locked(t, k)'
    BY <1>7, <2>3, <2>5
  <2>7. \A k \in locked : k \in Keys /\ HasLock(db[k])
    BY <1>3 DEF PrewriteError
  <2> HIDE DEF locked, errs
  <2>8. \A l \in ExpiredLocks(locked) : l \in LockSet /\ TrueLock(l)
    BY <1>1, <2>7, ExpiredLocksAre
  <2>9. \A i \in new : /\ i \in JobSet /\ i.keys = j.keys /\ i.cur = NoCur
                       /\ \A l \in i.locks : TrueLock(l)
    <3>1. NoCur \in [lock : LockSet, status : Int]
      BY SMTT(60) DEF NoCur, LockSet, None
    <3> QED BY SMTT(60), <1>3, <2>8, <3>1 DEF ResolveFirst, JobSet
  <2>10. /\ jobs'[t] = (jobs[t] \ {j}) \cup new
         /\ \A u \in Txn : u # t => jobs'[u] = jobs[u]
         /\ jobs' \in [Txn -> SUBSET JobSet]
    <3>1. new \subseteq JobSet
      BY <2>9
    <3> HIDE DEF new
    <3> QED BY <1>1, <2>1, <3>1, ReplaceIs
  <2>11. ClientType'
    BY <1>1, <1>2, <2>1, <2>10 DEF ClientType
  <2>12. Prewriting(t)'
    <3>1. \A k \in j.keys : Locked(t, k)' \/ \E x \in jobs'[t] : k \in x.keys
      BY <2>6, <2>9, <2>10
    <3>2. \A i \in jobs[t] : \A k \in i.keys : Locked(t, k)' \/ \E x \in jobs'[t] : k \in x.keys
      BY <2>10, <3>1
    <3> QED BY <1>1, <1>3, <2>4, <3>2, PrewritingStays
  <2>13. PhaseOK(t)'
    BY <1>1, <1>2, <2>1, <2>12 DEF PhaseOK
  <2>14. \A i \in jobs'[t] : JobOK(t, i)'
    <3>1. \A i \in jobs[t] : JobOK(t, i)'
      BY <1>1, <2>1, <2>4, JobStays
    <3>2. \A i \in new : JobOK(t, i)'
      <4> SUFFICES ASSUME NEW i \in new PROVE JobOK(t, i)'
        OBVIOUS
      <4>1. \A l \in i.locks : TrueLock(l)'
        BY <2>4, <2>9, TrueLockStays
      <4> QED BY <1>2, <1>3, <2>1, <2>9, <4>1 DEF JobOK
    <3> QED BY <2>10, <3>1, <3>2
  <2>15. ToldOK(t)'
    <3>1. ~Done(t)' /\ (StrayCommit(t)' <=> StrayCommit(t))
      BY <1>2, <1>4, <2>3 DEF StrayCommit
    <3> QED BY <1>1, <1>2, <1>4, <2>1, <3>1 DEF ToldOK
  <2>16. ResolvedOK'
    BY <1>2, <2>4, SharedStay
  <2> QED BY <1>2, <1>3, <2>1, <2>3, <2>10, <2>11, <2>13, <2>14, <2>15, <2>16, StoreActionKeeps DEF TxnOK
<1> QED BY <1>5, <1>6, <1>7

LEMMA ToldStays ==
    ASSUME IInv, StoreInv', Extends, NEW t \in Txn, result'[t] = result[t],
           pc'[t] = pc[t] \/ pc'[t] \in {"cleanRest", "done"},
           undetermined[t] => undetermined'[t],
           Done(t)' => Done(t) \/ pc[t] = "secondary",
           StrayCommit(t)' => StrayCommit(t) \/ pc[t] = "secondary" \/ (pc[t] = "commit" /\ undetermined'[t])
    PROVE  ToldOK(t)'
<1>1. StoreInv /\ PhaseOK(t) /\ ToldOK(t)
  BY DEF IInv, TxnOK
<1> SUFFICES ASSUME LocksOnly(t) = {} PROVE ToldOK(t)'
  BY DEF ToldOK, LocksOnly
<1>2. result'[t] = "ok" => KeysOf(t) = {} \/ Done(t)'
  <2>1. Done(t) => start[t] > 0
    BY <1>1, DoneIs
  <2> QED BY <1>1, <2>1 DEF ToldOK, Extends
<1>3. ASSUME result'[t] = "error"
      PROVE  /\ pc'[t] \in {"cleanPrimary", "cleanRest", "done"} /\ ~Done(t)'
             /\ Dead(t)' \/ ~StrayCommit(t)'
  <2>1. pc[t] \in {"cleanPrimary", "cleanRest", "done"} /\ ~Done(t) /\ (Dead(t) \/ ~StrayCommit(t))
    BY <1>1, <1>3 DEF ToldOK
  <2>2. start[t] > 0
    <3>1. start[t] # 0
      BY <1>1, <2>1 DEF PhaseOK
    <3> QED BY SMTT(60), <1>1, <3>1, Times
  <2> QED BY <2>1, <2>2 DEF Extends
<1>4. ASSUME pc'[t] = "commit", ~undetermined'[t] PROVE ~Done(t)' /\ ~StrayCommit(t)'
  <2>1. ~Done(t) /\ ~StrayCommit(t) /\ pc[t] = "commit"
    BY <1>1, <1>4 DEF ToldOK
  <2> QED BY <1>4, <2>1
<1> QED BY <1>2, <1>3, <1>4 DEF ToldOK

LEMMA GetCommitTSKeeps ==
    ASSUME IInv, NEW t \in Txn, GetCommitTS(t)
    PROVE  IInv'
<1>1. StoreInv /\ ClientType /\ PhaseOK(t) /\ ToldOK(t) /\ StrayOK
  BY DEF IInv, TxnOK
<1>2. /\ pc[t] = "prewrite" /\ jobs[t] = {} /\ start' = start /\ db' = db /\ clock' = clock + 1
      /\ commit' = Set(commit, t, clock')
      /\ stray' = stray /\ resolved' = resolved /\ seen' = seen /\ undetermined' = undetermined
  BY DEF GetCommitTS
<1>3. KeysOf(t) # {} /\ start[t] > 0 /\ commit[t] = 0 /\ Prewriting(t)
  <2>1. KeysOf(t) # {} /\ start[t] # 0 /\ commit[t] = 0 /\ Prewriting(t)
    BY <1>1, <1>2 DEF PhaseOK
  <2>2. start[t] \in Nat
    BY <1>1, Times
  <2> QED BY SMTT(60), <2>1, <2>2
<1>4. /\ StoreInv' /\ Extends /\ LocksStay /\ commit'[t] = clock + 1
      /\ \A u \in Txn : u # t => commit'[u] = commit[u]
      /\ \A u \in Txn : Done(u)' <=> Done(u)
      /\ ~Done(t)'
  BY <1>1, <1>2, <1>3, CommitTSKept
<1>5. ~StrayCommit(t)'
  <2>1. ~StrayCommit(t)
    BY <1>1, <1>3, NotCommittedYet
  <2> QED BY <1>2, <2>1 DEF StrayCommit
<1>6. commit'[t] > 0
  BY SMTT(60), <1>1, <1>4, Times
<1>7. StrayOK' /\ ResolvedOK'
  BY <1>2, <1>4, SharedStay
<1>8. CASE Fail(t)
  <2>1. /\ pc'[t] = "cleanPrimary" /\ jobs'[t] = PrimaryJob(t, KeysOf(t), cached) /\ result'[t] = "error"
        /\ \A u \in Txn : u # t => pc'[u] = pc[u] /\ jobs'[u] = jobs[u] /\ result'[u] = result[u]
    BY <1>1, <1>8 DEF Fail, Set, ClientType
  <2>2. jobs'[t] \subseteq JobSet /\ TxnOK(t)' /\ ToldOK(t)'
    BY <1>2, <1>3, <1>4, <1>5, <2>1, FailOK
  <2>3. ClientType'
    BY <1>1, <1>2, <1>8, <2>1, <2>2 DEF Fail, Set, ClientType, Phases
  <2>4. \A u \in Txn : u # t => Same(u)
    BY <1>2, <1>4, <2>1 DEF Same, StrayCommit
  <2> QED BY <1>4, <1>7, <2>2, <2>3, <2>4, ActionKeeps
<1>9. CASE /\ pc' = Set(pc, t, "commit")
           /\ jobs' = Set(jobs, t, PrimaryJob(t, KeysOf(t), cached)) /\ result' = result
  <2>1. /\ pc'[t] = "commit" /\ jobs'[t] = PrimaryJob(t, KeysOf(t), cached)
        /\ \A u \in Txn : u # t => pc'[u] = pc[u] /\ jobs'[u] = jobs[u]
    BY <1>1, <1>9 DEF Set, ClientType
  <2>2. PICK j \in JobSet : /\ jobs'[t] = {j} /\ j.keys \subseteq KeysOf(t) /\ Primary(t) \in j.keys
                            /\ j.locks = {} /\ j.cur = NoCur
    <3>1. Primary(t) \in KeysOf(t)
      BY <1>3, KeysAreKeys
    <3>2. PICK j \in JobSet : /\ PrimaryJob(t, KeysOf(t), cached) = {j} /\ j.keys \subseteq KeysOf(t)
                              /\ Primary(t) \in j.keys /\ j.locks = {} /\ j.cur = NoCur
      BY SMTT(60), <3>1, PrimaryJobIs
    <3> QED BY <2>1, <3>2
  <2>3. ClientType'
    BY <1>1, <1>2, <1>9, <2>1, <2>2 DEF Set, ClientType, Phases
  <2>4. PhaseOK(t)'
    <3>1. start'[t] # 0
      BY SMTT(60), <1>1, <1>2, <1>3, Times
    <3>2. \A i, m \in jobs'[t] : i = m
      BY <2>2
    <3> QED BY <1>3, <1>6, <2>1, <3>1, <3>2 DEF PhaseOK
  <2>5. \A i \in jobs'[t] : JobOK(t, i)'
    BY <2>1, <2>2 DEF JobOK
  <2>6. ToldOK(t)'
    BY <1>1, <1>2, <1>4, <1>5, <1>9, <2>1 DEF ToldOK, LocksOnly
  <2>7. \A u \in Txn : u # t => Same(u)
    BY <1>2, <1>4, <1>9, <2>1 DEF Same, StrayCommit
  <2> QED BY <1>4, <1>7, <2>3, <2>4, <2>5, <2>6, <2>7, ActionKeeps DEF TxnOK
<1> QED BY <1>8, <1>9 DEF GetCommitTS

LEMMA CommitPrimaryKeeps ==
    ASSUME IInv, NEW t \in Txn, NEW j \in jobs[t], CommitPrimary(t, j)
    PROVE  IInv'
<1>1. StoreInv /\ ClientType /\ PhaseOK(t) /\ ToldOK(t) /\ JobOK(t, j)
  BY DEF IInv, TxnOK
<1>2. /\ pc[t] = "commit" /\ start' = start /\ commit' = commit /\ clock' = clock
      /\ stray' = stray /\ resolved' = resolved /\ seen' = seen
  BY DEF CommitPrimary
<1>3. /\ j \in JobSet /\ j.keys \subseteq KeysOf(t) /\ Primary(t) \in j.keys /\ KeysOf(t) # {}
      /\ start[t] > 0 /\ commit[t] > 0 /\ jobs[t] = {j}
  BY <1>2, SinglePhase
<1>4. CASE OutOfRegion(j.keys)
  <2>1. /\ db' = db /\ pc' = pc /\ result' = result /\ undetermined' = undetermined
        /\ Replace(t, j, PrimaryJob(t, j.keys, split))
    BY <1>4 DEF CommitPrimary, RegionRetry
  <2>2. PICK i \in JobSet : /\ PrimaryJob(t, j.keys, split) = {i} /\ i.keys \subseteq j.keys
                            /\ Primary(t) \in i.keys /\ i.locks = {} /\ i.cur = NoCur
    <3>1. PICK S, b : S = j.keys /\ b = split
      OBVIOUS
    <3>2. S \subseteq KeysOf(t) /\ Primary(t) \in S
      BY <1>3, <3>1
    <3>3. \E i \in JobSet : /\ PrimaryJob(t, S, b) = {i} /\ i.keys \subseteq S /\ Primary(t) \in i.keys
                            /\ i.locks = {} /\ i.cur = NoCur
      BY SMTT(60), <3>2, PrimaryJobIs
    <3> QED BY <3>1, <3>3
  <2>3. /\ jobs'[t] = {i} /\ \A u \in Txn : u # t => jobs'[u] = jobs[u]
        /\ jobs' \in [Txn -> SUBSET JobSet]
    <3>1. jobs' = [jobs EXCEPT ![t] = (jobs[t] \ {j}) \cup {i}]
      BY <1>1, <2>1, <2>2 DEF Replace, ClientType
    <3>2. (jobs[t] \ {j}) \cup {i} = {i} /\ {i} \in SUBSET JobSet
      BY <1>3
    <3> QED BY <1>1, <3>1, <3>2 DEF ClientType
  <2>4. ClientType'
    BY <1>1, <1>2, <2>1, <2>3 DEF ClientType
  <2>5. PhaseOK(t)'
    BY <1>1, <1>2, <2>1, <2>3 DEF PhaseOK
  <2>6. \A x \in jobs'[t] : JobOK(t, x)'
    BY <1>2, <1>3, <2>1, <2>2, <2>3 DEF JobOK
  <2>7. ToldOK(t)'
    <3>1. StoreInv' /\ Extends /\ (Done(t)' <=> Done(t))
      BY <1>1, <1>2, <2>1, IdleKept DEF Kept
    <3>2. StrayCommit(t)' <=> StrayCommit(t)
      BY <1>2 DEF StrayCommit
    <3> QED BY <2>1, <3>1, <3>2, ToldStays
  <2> QED BY <1>2, <2>1, <2>3, <2>4, <2>5, <2>6, <2>7, QuietKeeps DEF TxnOK
<1>5. CASE ~OutOfRegion(j.keys)
  <2>1. db' = Execute(RequestOf(t, j)) /\ undetermined' = Set(undetermined, t, FALSE)
    BY <1>5 DEF CommitPrimary
  <2>2. db' = Commit(db, j.keys, start[t], commit[t])
    <3>1. RequestOf(t, j) = Request("commit", j.keys, start[t], commit[t])
      BY <1>2, RequestIs
    <3> QED BY SMTT(60), <1>5, <2>1, <3>1 DEF Execute, Request
  <2>3. /\ StoreStep(t)
        /\ \A k \in j.keys : CommitRefused(db[k], start[t]) => db' = db
        /\ Mutates(t) /\ (\A k \in j.keys : ~CommitRefused(db[k], start[t])) => Done(t)'
    BY <1>1, <1>2, <1>3, <2>2, CommitSteps
  <2>4. StoreInv' /\ Extends /\ LocksStay
    BY <1>1, <1>2, <1>3, <2>3, StoreStepKept DEF Kept
  <2>5. ResolvedOK'
    BY <1>2, <2>4, SharedStay
  <2>6. undetermined' \in [Txn -> BOOLEAN] /\ \A u \in Txn : u # t => undetermined'[u] = undetermined[u]
    BY <1>1, <2>1 DEF Set, ClientType
  <2>7. LocksOnly(t) = {} => Mutates(t) /\ \A k \in KeysOf(t) : OpOf[t][k] # "lock"
    BY <1>3, KeysAreKeys DEF LocksOnly, Mutates
  <2>8. CASE \E k \in j.keys : CommitRefused(db[k], start[t])
    <3>1. Fail(t) /\ db' = db
      BY <1>5, <2>3, <2>8 DEF CommitPrimary
    <3>2. /\ pc'[t] = "cleanPrimary" /\ jobs'[t] = PrimaryJob(t, KeysOf(t), cached) /\ result'[t] = "error"
          /\ \A u \in Txn : u # t => pc'[u] = pc[u] /\ jobs'[u] = jobs[u] /\ result'[u] = result[u]
      BY <1>1, <3>1 DEF Fail, Set, ClientType
    <3>3. ASSUME LocksOnly(t) = {} PROVE ~Done(t)' /\ Dead(t)'
      <4>1. PICK k \in j.keys : CommitRefused(db[k], start[t])
        BY <2>8
      <4>2. k \in KeysOf(t) /\ OpOf[t][k] # "lock" /\ k \in Keys
        BY <1>3, <2>7, <3>3, KeysAreKeys
      <4>3. ~Locked(t, k)
        <5>1. db[k].lock.start # start[t]
          BY <4>1 DEF CommitRefused
        <5>2. Own(t, k).start = start[t]
          BY DEF Own
        <5> QED BY <5>1, <5>2 DEF Locked
      <4>4. Mark(t, k) \notin db[k].values
        <5>1. Mark(t, k).start = start[t] /\ Mark(t, k).type # "rollback"
          BY <4>2, OpsAre DEF Mark, Version
        <5> QED BY <4>1, <5>1 DEF CommitRefused, CommitInfo
      <4>5. Dead(t)
        BY <1>1, <1>3, <2>7, <3>3, <4>2, <4>3, <4>4 DEF StoreInv, Prepared
      <4> QED BY <1>2, <1>3, <2>4, <4>5 DEF Extends, StoreInv, Decided
    <3>4. jobs'[t] \subseteq JobSet /\ TxnOK(t)' /\ ToldOK(t)'
      BY <1>2, <1>3, <3>2, <3>3, FailOK
    <3>5. ClientType'
      BY <1>1, <1>2, <2>6, <3>1, <3>2, <3>4 DEF Fail, Set, ClientType, Phases
    <3> QED BY <1>2, <1>3, <2>3, <2>5, <2>6, <3>2, <3>4, <3>5, StoreActionKeeps
  <2>9. CASE \A k \in j.keys : ~CommitRefused(db[k], start[t])
    <3>1. /\ result' = Set(result, t, "ok") /\ pc' = Set(pc, t, "secondary")
          /\ jobs' = Set(jobs, t, JobsFor(KeysOf(t) \ j.keys, cached))
      BY <1>5, <2>9 DEF CommitPrimary
    <3>2. /\ pc'[t] = "secondary" /\ jobs'[t] = JobsFor(KeysOf(t) \ j.keys, cached) /\ result'[t] = "ok"
          /\ \A u \in Txn : u # t => pc'[u] = pc[u] /\ jobs'[u] = jobs[u] /\ result'[u] = result[u]
      BY <1>1, <3>1 DEF Set, ClientType
    <3>3. KeysOf(t) \ j.keys \subseteq Keys
      BY KeysAreKeys
    <3>4. \A i \in jobs'[t] : i \in JobSet /\ i.keys \subseteq KeysOf(t) /\ i.locks = {} /\ i.cur = NoCur
      <4>1. PICK S : S = KeysOf(t) \ j.keys
        OBVIOUS
      <4>2. \A i \in JobsFor(S, cached) : i \in JobSet /\ i.keys \subseteq S /\ i.locks = {} /\ i.cur = NoCur
        BY SMTT(60), <3>3, <4>1, JobsForAre
      <4>3. S \subseteq KeysOf(t) /\ jobs'[t] = JobsFor(S, cached)
        BY <3>2, <4>1
      <4> QED BY <4>2, <4>3
    <3>5. ClientType'
      BY <1>1, <1>2, <2>6, <3>1, <3>2, <3>4 DEF Set, ClientType, Phases
    <3>6. PhaseOK(t)'
      <4>1. Done(t)' \/ ~Mutates(t)'
        BY <2>3, <2>9 DEF Mutates
      <4>2. start'[t] # 0 /\ commit'[t] > 0
        <5>1. start'[t] > 0 /\ commit'[t] > 0
          BY <1>2, <1>3
        <5> QED BY SMTT(60), <5>1
      <4> QED BY <1>3, <3>2, <4>1, <4>2 DEF PhaseOK
    <3>7. \A i \in jobs'[t] : JobOK(t, i)'
      BY <3>2, <3>4 DEF JobOK
    <3>8. ToldOK(t)'
      BY <2>3, <2>7, <2>9, <3>2 DEF ToldOK, LocksOnly
    <3> QED BY <1>2, <1>3, <2>3, <2>5, <2>6, <3>2, <3>5, <3>6, <3>7, <3>8, StoreActionKeeps DEF TxnOK
  <2> QED BY <2>8, <2>9
<1> QED BY <1>4, <1>5

\* A background goroutine on secondary keys: the batch is formed anew, or done with.
LEMMA BackgroundKeeps ==
    ASSUME IInv, NEW t \in Txn, NEW j \in jobs[t], pc[t] \in {"secondary", "cleanRest"},
           UNCHANGED <<clock, start, commit, pc, result, undetermined, seen, expired, resolved,
                       stray, split, faults>>,
           IF OutOfRegion(j.keys)
           THEN RegionRetry(t, j, JobsFor(j.keys, split)) /\ UNCHANGED db
           ELSE db' = Execute(RequestOf(t, j)) /\ Replace(t, j, {})
    PROVE  IInv'
<1>1. StoreInv /\ ClientType /\ PhaseOK(t) /\ \A i \in jobs[t] : JobOK(t, i)
  BY DEF IInv, TxnOK
<1>2. j \in JobSet /\ j.keys \subseteq KeysOf(t) /\ j.keys \subseteq Keys /\ start[t] > 0
  <2>1. start[t] > 0 /\ j \in JobSet /\ JobOK(t, j)
    BY Busy
  <2>2. j.keys \subseteq KeysOf(t)
    BY <2>1 DEF JobOK
  <2> QED BY <2>1, <2>2, KeysAreKeys
<1>3. \E new \in SUBSET JobSet : /\ Replace(t, j, new)
                                 /\ \A i \in new : i.locks = {} /\ i.cur = NoCur /\ i.keys \subseteq KeysOf(t)
  <2>1. CASE OutOfRegion(j.keys)
    <3>1. \A i \in JobsFor(j.keys, split) : i \in JobSet /\ i.keys \subseteq j.keys /\ i.locks = {} /\ i.cur = NoCur
      BY <1>2, JobsForAre
    <3> QED BY <1>2, <2>1, <3>1 DEF RegionRetry
  <2>2. CASE ~OutOfRegion(j.keys)
    <3>1. Replace(t, j, {}) /\ {} \in SUBSET JobSet
      BY <2>2
    <3> QED BY <3>1
  <2> QED BY <2>1, <2>2
<1>4. PICK new \in SUBSET JobSet : /\ Replace(t, j, new)
                                   /\ \A i \in new : i.locks = {} /\ i.cur = NoCur /\ i.keys \subseteq KeysOf(t)
  BY <1>3
<1>5. /\ jobs'[t] = (jobs[t] \ {j}) \cup new /\ \A u \in Txn : u # t => jobs'[u] = jobs[u]
      /\ jobs' \in [Txn -> SUBSET JobSet]
  BY <1>1, <1>4, ReplaceIs
<1>6. ClientType'
  BY <1>1, <1>5 DEF ClientType
<1>7. StoreStep(t) /\ (pc[t] = "cleanRest" => (Done(t)' <=> Done(t)))
  <2>1. CASE OutOfRegion(j.keys)
    BY <1>1, <2>1, StepIdle, IdleKept
  <2>2. CASE ~OutOfRegion(j.keys) /\ pc[t] = "secondary"
    <3>1. RequestOf(t, j) = Request("commit", j.keys, start[t], commit[t])
      BY <2>2, RequestIs
    <3>2. db' = Commit(db, j.keys, start[t], commit[t])
      BY SMTT(60), <2>2, <3>1 DEF Execute, Request
    <3>3. commit[t] > 0 /\ (Done(t) \/ ~Mutates(t))
      BY <1>1, <2>2 DEF PhaseOK
    <3> QED BY <1>1, <1>2, <2>2, <3>2, <3>3, CommitSteps
  <2>3. CASE ~OutOfRegion(j.keys) /\ pc[t] = "cleanRest"
    <3>1. RequestOf(t, j) = Request("rollback", j.keys, start[t], 0)
      BY <2>3, RequestIs
    <3>2. db' = Rollback(db, j.keys, start[t])
      BY SMTT(60), <2>3, <3>1 DEF Execute, Request
    <3>3. Dead(t)
      BY <1>1, <2>3 DEF PhaseOK
    <3> QED BY <1>1, <1>2, <2>3, <3>2, <3>3, RollbackSteps
  <2> QED BY <2>1, <2>2, <2>3
<1>8. StoreInv' /\ Extends /\ LocksStay
  BY <1>1, <1>2, <1>7, StoreStepKept DEF Kept
<1>9. PhaseOK(t)'
  BY <1>1, <1>2, <1>8 DEF PhaseOK, Extends, Mutates
<1>10. \A i \in jobs'[t] : JobOK(t, i)'
  BY <1>1, <1>4, <1>5, <1>8, FreshJobs
<1>11. ToldOK(t)'
  <2>1. StrayCommit(t)' <=> StrayCommit(t)
    BY DEF StrayCommit
  <2> QED BY <1>7, <1>8, <2>1, ToldStays
<1>12. ResolvedOK'
  BY <1>8, SharedStay
<1> QED BY <1>2, <1>5, <1>6, <1>7, <1>9, <1>10, <1>11, <1>12, StoreActionKeeps DEF TxnOK

LEMMA CleanPrimaryKeeps ==
    ASSUME IInv, NEW t \in Txn, NEW j \in jobs[t], CleanPrimary(t, j)
    PROVE  IInv'
<1>1. StoreInv /\ ClientType /\ PhaseOK(t) /\ ToldOK(t) /\ JobOK(t, j)
  BY DEF IInv, TxnOK
<1>2. /\ pc[t] = "cleanPrimary" /\ start' = start /\ commit' = commit /\ clock' = clock /\ result' = result
      /\ stray' = stray /\ resolved' = resolved /\ seen' = seen /\ undetermined' = undetermined
  BY DEF CleanPrimary
<1>3. /\ j \in JobSet /\ j.keys \subseteq KeysOf(t) /\ Primary(t) \in j.keys /\ KeysOf(t) # {}
      /\ start[t] > 0 /\ jobs[t] = {j}
  BY <1>2, SinglePhase
<1>4. StrayCommit(t)' <=> StrayCommit(t)
  BY <1>2 DEF StrayCommit
<1>5. CASE OutOfRegion(j.keys)
  <2>1. db' = db /\ pc' = pc /\ Replace(t, j, PrimaryJob(t, j.keys, split))
    BY <1>5 DEF CleanPrimary, RegionRetry
  <2>2. PICK i \in JobSet : /\ PrimaryJob(t, j.keys, split) = {i} /\ i.keys \subseteq j.keys
                            /\ Primary(t) \in i.keys /\ i.locks = {} /\ i.cur = NoCur
    <3>1. PICK S, b : S = j.keys /\ b = split
      OBVIOUS
    <3>2. S \subseteq KeysOf(t) /\ Primary(t) \in S
      BY <1>3, <3>1
    <3>3. \E i \in JobSet : /\ PrimaryJob(t, S, b) = {i} /\ i.keys \subseteq S /\ Primary(t) \in i.keys
                            /\ i.locks = {} /\ i.cur = NoCur
      BY SMTT(60), <3>2, PrimaryJobIs
    <3> QED BY <3>1, <3>3
  <2>3. /\ jobs'[t] = {i} /\ \A u \in Txn : u # t => jobs'[u] = jobs[u]
        /\ jobs' \in [Txn -> SUBSET JobSet]
    <3>1. jobs' = [jobs EXCEPT ![t] = (jobs[t] \ {j}) \cup {i}]
      BY <1>1, <2>1, <2>2 DEF Replace, ClientType
    <3>2. (jobs[t] \ {j}) \cup {i} = {i} /\ {i} \in SUBSET JobSet
      BY <1>3
    <3> QED BY <1>1, <3>1, <3>2 DEF ClientType
  <2>4. ClientType'
    BY <1>1, <1>2, <2>1, <2>3 DEF ClientType
  <2>5. PhaseOK(t)'
    BY <1>1, <1>2, <2>1, <2>3 DEF PhaseOK
  <2>6. \A x \in jobs'[t] : JobOK(t, x)'
    BY <1>2, <1>3, <2>1, <2>2, <2>3 DEF JobOK
  <2>7. ToldOK(t)'
    <3>1. StoreInv' /\ Extends /\ (Done(t)' <=> Done(t))
      BY <1>1, <1>2, <2>1, IdleKept DEF Kept
    <3> QED BY <1>2, <1>4, <2>1, <3>1, ToldStays
  <2> QED BY <1>2, <2>1, <2>3, <2>4, <2>5, <2>6, <2>7, QuietKeeps DEF TxnOK
<1>6. CASE ~OutOfRegion(j.keys)
  <2>1. db' = Rollback(db, j.keys, start[t])
    <3>1. RequestOf(t, j) = Request("rollback", j.keys, start[t], 0)
      BY <1>2, RequestIs
    <3> QED BY SMTT(60), <1>6, <3>1 DEF Execute, Request, CleanPrimary
  <2>2. /\ StoreStep(t) /\ (Done(t)' <=> Done(t))
        /\ (\A k \in j.keys : ~AlreadyCommitted(db[k], start[t])) => Dead(t)'
    BY <1>1, <1>2, <1>3, <2>1, RollbackSteps
  <2>3. StoreInv' /\ Extends /\ LocksStay
    BY <1>1, <1>2, <1>3, <2>2, StoreStepKept DEF Kept
  <2>4. ResolvedOK'
    BY <1>2, <2>3, SharedStay
  <2>5. CASE \E k \in j.keys : AlreadyCommitted(db[k], start[t])
    <3>1. pc' = Set(pc, t, "done") /\ Replace(t, j, {})
      BY <1>6, <2>5 DEF CleanPrimary
    <3>2. /\ pc'[t] = "done" /\ jobs'[t] = {} /\ jobs' \in [Txn -> SUBSET JobSet]
          /\ \A u \in Txn : u # t => pc'[u] = pc[u] /\ jobs'[u] = jobs[u]
      <4>1. jobs'[t] = {} /\ jobs' \in [Txn -> SUBSET JobSet] /\ \A u \in Txn : u # t => jobs'[u] = jobs[u]
        <5>1. jobs' = [jobs EXCEPT ![t] = (jobs[t] \ {j}) \cup {}]
          BY <1>1, <3>1 DEF Replace, ClientType
        <5> QED BY <1>1, <1>3, <5>1 DEF ClientType
      <4> QED BY <1>1, <3>1, <4>1 DEF Set, ClientType
    <3>3. ClientType'
      BY <1>1, <1>2, <3>1, <3>2 DEF Set, ClientType, Phases
    <3>4. TxnOK(t)'
      <4>1. start'[t] # 0
        <5>1. start'[t] > 0
          BY <1>2, <1>3
        <5> QED BY SMTT(60), <5>1
      <4> QED BY <3>2, <4>1, EndedOK
    <3>5. ToldOK(t)'
      BY <1>2, <1>4, <2>2, <2>3, <3>2, ToldStays
    <3> QED BY <1>2, <1>3, <2>2, <2>4, <3>2, <3>3, <3>4, <3>5, StoreActionKeeps
  <2>6. CASE \A k \in j.keys : ~AlreadyCommitted(db[k], start[t])
    <3> DEFINE new == JobsFor(KeysOf(t) \ j.keys, cached)
    <3>1. pc' = Set(pc, t, "cleanRest") /\ Replace(t, j, new)
      BY <1>6, <2>6 DEF CleanPrimary
    <3>2. KeysOf(t) \ j.keys \subseteq Keys
      BY KeysAreKeys
    <3>3. \A i \in new : i \in JobSet /\ i.keys \subseteq KeysOf(t) /\ i.locks = {} /\ i.cur = NoCur
      <4>1. PICK S : S = KeysOf(t) \ j.keys
        OBVIOUS
      <4>2. \A i \in JobsFor(S, cached) : i \in JobSet /\ i.keys \subseteq S /\ i.locks = {} /\ i.cur = NoCur
        BY SMTT(60), <3>2, <4>1, JobsForAre
      <4> QED BY <4>1, <4>2
    <3> HIDE DEF new
    <3>4. /\ pc'[t] = "cleanRest" /\ jobs'[t] = new /\ jobs' \in [Txn -> SUBSET JobSet]
          /\ \A u \in Txn : u # t => pc'[u] = pc[u] /\ jobs'[u] = jobs[u]
      <4>1. jobs'[t] = new /\ jobs' \in [Txn -> SUBSET JobSet] /\ \A u \in Txn : u # t => jobs'[u] = jobs[u]
        <5>1. jobs' = [jobs EXCEPT ![t] = (jobs[t] \ {j}) \cup new]
          BY <1>1, <3>1 DEF Replace, ClientType
        <5>2. (jobs[t] \ {j}) \cup new = new /\ new \in SUBSET JobSet
          BY <1>3, <3>3
        <5> QED BY <1>1, <5>1, <5>2 DEF ClientType
      <4> QED BY <1>1, <3>1, <4>1 DEF Set, ClientType
    <3>5. ClientType'
      BY <1>1, <1>2, <3>1, <3>4 DEF Set, ClientType, Phases
    <3>6. PhaseOK(t)'
      <4>1. start'[t] # 0
        BY SMTT(60), <1>1, <1>2, <1>3, Times
      <4> QED BY <1>3, <2>2, <2>6, <3>4, <4>1 DEF PhaseOK
    <3>7. \A i \in jobs'[t] : JobOK(t, i)'
      BY <3>3, <3>4 DEF JobOK
    <3>8. ToldOK(t)'
      BY <1>2, <1>4, <2>2, <2>3, <3>4, ToldStays
    <3> QED BY <1>2, <1>3, <2>2, <2>4, <3>4, <3>5, <3>6, <3>7, <3>8, StoreActionKeeps DEF TxnOK
  <2> QED BY <2>5, <2>6
<1> QED BY <1>5, <1>6

------------------------------------------------------------------------------
(* The lock resolver, the faults and the environment *)

LEMMA SaveResolvedOK ==
    ASSUME IInv, Extends, StoreInv', NEW ts, NEW status, Known(ts, status)', ts \in Nat, status \in Nat,
           SaveResolved(ts, status)
    PROVE  ResolvedOK'
<1>1. resolved' = resolved => ResolvedOK'
  BY SharedStay
<1>2. CASE resolved' # resolved
  <2> DEFINE E == [start : Nat, status : Nat]
  <2>a. PICK e : e = [start |-> ts, status |-> status]
    OBVIOUS
  <2> DEFINE q == Append(resolved, e)
  <2>1. resolved \in Seq(E) /\ \A x \in Elements(resolved) : Known(x.start, x.status)'
    <3>1. StoreInv /\ ResolvedOK
      BY DEF IInv
    <3>2. \A x \in Elements(resolved) : Known(x.start, x.status)'
      BY <3>1, KnownStays DEF ResolvedOK
    <3> QED BY <3>1, <3>2 DEF ResolvedOK
  <2>2. e \in E /\ e.start = ts /\ e.status = status
    BY <2>a
  <2>3. Known(e.start, e.status)'
    BY <2>2
  <2>4. resolved' = q \/ resolved' = Tail(q)
    BY <1>2, <2>a DEF SaveResolved
  <2> HIDE DEF E
  <2>5. /\ q \in Seq(E) /\ Len(q) = Len(resolved) + 1 /\ q # <<>>
        /\ \A i \in 1..Len(q) : q[i] = IF i <= Len(resolved) THEN resolved[i] ELSE e
    BY SMTT(60), <2>1, <2>2
  <2>6. Elements(q) \subseteq Elements(resolved) \cup {e}
    <3>1. Len(resolved) \in Nat
      BY SMTT(60), <2>1
    <3>2. \A i \in 1..Len(q) : q[i] \in Elements(resolved) \cup {e}
      BY SMTT(60), <2>5, <3>1 DEF Elements
    <3> QED BY <3>2 DEF Elements
  <2> HIDE DEF q
  <2>7. Tail(q) \in Seq(E) /\ Elements(Tail(q)) \subseteq Elements(q)
    <3>1. Tail(q) \in Seq(E) /\ Len(Tail(q)) = Len(q) - 1 /\ \A i \in 1..Len(Tail(q)) : Tail(q)[i] = q[i + 1]
      BY SMTT(60), <2>5
    <3>2. Len(q) \in Nat
      BY SMTT(60), <2>5
    <3> QED BY SMTT(60), <3>1, <3>2 DEF Elements
  <2>8. resolved' \in Seq(E) /\ Elements(resolved') \subseteq Elements(resolved) \cup {e}
    BY <2>4, <2>5, <2>6, <2>7
  <2>9. \A x \in Elements(resolved') : Known(x.start, x.status)'
    BY <2>1, <2>3, <2>8
  <2> QED BY <2>8, <2>9 DEF ResolvedOK, E, Elements
<1> QED BY <1>1, <1>2

\* An element of a sequence over S is in S.
LEMMA ElementIs ==
    ASSUME NEW S, NEW q \in Seq(S), NEW n \in 1..Len(q)
    PROVE  q[n] \in S
BY SMTT(60)

LEMMA GetTxnStatusKeeps ==
    ASSUME IInv, NEW t \in Txn, NEW j \in jobs[t], GetTxnStatus(t, j)
    PROVE  IInv'
<1>1. /\ StoreInv /\ ClientType /\ PhaseOK(t) /\ ResolvedOK
      /\ \A i \in jobs[t] : JobOK(t, i)
  BY DEF IInv, TxnOK
<1>a. PICK l : l = NextLock(j)
  OBVIOUS
<1>b. PICK status : status = IF IsResolved(l.start) THEN StatusOf(l.start)
                             ELSE CleanupStatus(db[l.primary], l.start)
  OBVIOUS
<1>c. PICK new : new = [j EXCEPT !.cur = [lock |-> l, status |-> status]]
  OBVIOUS
<1>2. /\ ~Ready(j) /\ j.cur = NoCur /\ SaveResolved(l.start, status) /\ Replace(t, j, {new})
      /\ db' = IF IsResolved(l.start) THEN db ELSE Rollback(db, {l.primary}, l.start)
      /\ start' = start /\ commit' = commit /\ clock' = clock /\ pc' = pc /\ result' = result
      /\ stray' = stray /\ seen' = seen /\ undetermined' = undetermined
  BY <1>a, <1>b, <1>c DEF GetTxnStatus
<1>3. l \in j.locks /\ l \in LockSet /\ TrueLock(l)
  BY <1>a, <1>2, NextLockIs
<1>4. PICK s \in Txn : start[s] > 0 /\ l.start = start[s] /\ l.primary = Primary(s) /\ l.key \in KeysOf(s)
  BY <1>3 DEF TrueLock
<1>5. KeysOf(s) # {} /\ Primary(s) \in KeysOf(s) /\ Primary(s) \in Keys
  BY <1>4, KeysAreKeys
<1>6. /\ StoreStep(s) /\ (Done(s)' <=> Done(s)) /\ status \in Nat
      /\ IF status = 0 THEN Dead(s)' ELSE Done(s)' /\ status = commit[s]
  <2>1. CASE IsResolved(l.start)
    <3>1. StoreStep(s) /\ (Done(s)' <=> Done(s))
      BY <1>1, <1>2, <2>1, StepIdle, IdleKept
    <3>2. PICK e \in Elements(resolved) : e.start = l.start /\ status = e.status
      <4>1. \E e \in Elements(resolved) : e.start = l.start
        BY <2>1 DEF IsResolved, Elements
      <4> QED BY <1>b, <2>1, <4>1 DEF StatusOf
    <3>3. e \in [start : Nat, status : Nat] /\ Known(e.start, e.status)
      <4>1. resolved \in Seq([start : Nat, status : Nat]) /\ \A x \in Elements(resolved) : Known(x.start, x.status)
        BY <1>1 DEF ResolvedOK
      <4>2. PICK i \in 1..Len(resolved) : e = resolved[i]
        BY <3>2 DEF Elements
      <4>3. e \in [start : Nat, status : Nat]
        BY <4>1, <4>2, ElementIs
      <4> QED BY <3>2, <4>1, <4>3
    <3>4. PICK u \in Txn : /\ start[u] > 0 /\ e.start = start[u]
                           /\ IF e.status = 0 THEN Dead(u) ELSE Done(u) /\ e.status = commit[u]
      BY <3>3 DEF Known
    <3>5. u = s
      BY <1>1, <1>4, <3>2, <3>4, Times
    <3>6. (Done(s) => Done(s)') /\ (Dead(s) => Dead(s)')
      BY <1>1, <1>2, <1>4, <3>1, StoreStepKept DEF Kept, Extends
    <3> QED BY <3>1, <3>2, <3>3, <3>4, <3>5, <3>6
  <2>2. CASE ~IsResolved(l.start)
    <3>1. db' = Rollback(db, {Primary(s)}, start[s])
      BY <1>2, <1>4, <2>2
    <3>2. /\ StoreStep(s) /\ (Done(s)' <=> Done(s))
          /\ (\A k \in {Primary(s)} : ~AlreadyCommitted(db[k], start[s])) => Dead(s)'
      <4>1. PICK S : S = {Primary(s)}
        OBVIOUS
      <4>2. S \subseteq KeysOf(s) /\ Primary(s) \in S /\ db' = Rollback(db, S, start[s])
        BY <1>5, <3>1, <4>1
      <4>3. /\ StoreStep(s) /\ (Done(s)' <=> Done(s))
            /\ (\A k \in S : ~AlreadyCommitted(db[k], start[s])) => Dead(s)'
        BY <1>1, <1>2, <1>4, <4>2, RollbackSteps
      <4> QED BY <4>1, <4>3
    <3>3. status = CleanupStatus(db[Primary(s)], start[s])
      BY <1>b, <1>4, <2>2
    <3>4. CASE AlreadyCommitted(db[Primary(s)], start[s])
      <4> DEFINE V == CommitInfo(db[Primary(s)], start[s])
      <4>1. \E v \in V : v.type # "rollback"
        BY <3>4 DEF AlreadyCommitted
      <4>2. PICK v \in V : v.type # "rollback" /\ status = v.commit
        BY <3>3, <3>4, <4>1 DEF CleanupStatus
      <4>3. v = Mark(s, Primary(s)) /\ commit[s] > 0 /\ Done(s)
        BY <1>1, <1>4, <1>5, <4>2, VersionType DEF CommitInfo
      <4>4. status = commit[s] /\ commit[s] \in Nat
        BY <1>1, <4>2, <4>3, Times DEF Mark, Version
      <4> QED BY SMTT(60), <3>2, <4>3, <4>4
    <3>5. CASE ~AlreadyCommitted(db[Primary(s)], start[s])
      BY <3>2, <3>3, <3>5 DEF CleanupStatus
    <3> QED BY <3>4, <3>5
  <2> QED BY <2>1, <2>2
<1>7. StoreInv' /\ Extends /\ LocksStay
  BY <1>1, <1>2, <1>4, <1>6, StoreStepKept DEF Kept
<1>8. Known(l.start, status)'
  BY <1>2, <1>4, <1>5, <1>6 DEF Known
<1>9. ResolvedOK'
  <2>1. l.start \in Nat
    BY <1>3 DEF LockSet
  <2> QED BY <1>2, <1>6, <1>7, <1>8, <2>1, SaveResolvedOK
<1>10. j \in JobSet
  BY <1>1 DEF ClientType
<1>11. /\ new \in JobSet /\ new.keys = j.keys /\ new.locks = j.locks
       /\ new.cur.lock = l /\ new.cur.status = status
  BY SMTT(60), <1>c, <1>3, <1>6, <1>10 DEF JobSet
<1>12. /\ jobs'[t] = (jobs[t] \ {j}) \cup {new} /\ \A u \in Txn : u # t => jobs'[u] = jobs[u]
       /\ jobs' \in [Txn -> SUBSET JobSet]
  <2>1. jobs' = [jobs EXCEPT ![t] = (jobs[t] \ {j}) \cup {new}]
    BY <1>1, <1>2 DEF Replace, ClientType
  <2>2. (jobs[t] \ {j}) \cup {new} \in SUBSET JobSet
    BY <1>1, <1>11 DEF ClientType
  <2> QED BY <1>1, <2>1, <2>2 DEF ClientType
<1>13. ClientType'
  BY <1>1, <1>2, <1>12 DEF ClientType
<1>14. pc[t] \in {"read", "prewrite"} /\ start[t] > 0
  <2>1. pc[t] \in {"read", "prewrite"}
    BY <1>1, <1>2 DEF JobOK, Ready
  <2> QED BY <2>1, Busy
<1>15. PhaseOK(t)'
  <2>1. \A i \in jobs[t] : \A k \in i.keys : \E x \in jobs'[t] : k \in x.keys
    BY <1>11, <1>12
  <2>2. pc[t] = "prewrite" => Prewriting(t)'
    BY <1>1, <1>7, <1>14, <2>1, PrewritingStays DEF PhaseOK
  <2> QED BY <1>1, <1>2, <1>14, <2>2 DEF PhaseOK
<1>16. \A i \in jobs'[t] : JobOK(t, i)'
  <2>1. \A i \in jobs[t] : JobOK(t, i)'
    BY <1>1, <1>2, <1>7, JobStays
  <2>2. JobOK(t, new)'
    BY <1>2, <1>3, <1>8, <1>11, <1>14, <2>1 DEF JobOK
  <2> QED BY <1>12, <2>1, <2>2
<1>17. ToldOK(t)'
  <2>1. Done(t)' <=> Done(t)
    BY <1>1, <1>2, <1>4, <1>6, StoreStepKept DEF Kept
  <2>2. StrayCommit(t)' <=> StrayCommit(t)
    BY <1>2 DEF StrayCommit
  <2> QED BY <1>2, <1>7, <2>1, <2>2, ToldStays
<1> QED BY <1>2, <1>4, <1>6, <1>9, <1>12, <1>13, <1>15, <1>16, <1>17, StoreActionKeeps DEF TxnOK

LEMMA ResolveOneKeeps ==
    ASSUME IInv, NEW t \in Txn, NEW j \in jobs[t], ResolveOne(t, j)
    PROVE  IInv'
<1>1. /\ StoreInv /\ ClientType /\ PhaseOK(t)
      /\ \A i \in jobs[t] : JobOK(t, i)
  BY DEF IInv, TxnOK
<1> DEFINE l == j.cur.lock
           clean == {m \in j.locks : m.start = l.start /\ m.key \in RegionOf(l.key, split)}
<1>a. PICK new : new = [j EXCEPT !.locks = @ \ clean, !.cur = NoCur]
  OBVIOUS
<1>2. /\ j.cur # NoCur /\ Replace(t, j, {new}) /\ db' = Execute(RequestOf(t, j))
      /\ start' = start /\ commit' = commit /\ clock' = clock /\ pc' = pc /\ result' = result
      /\ stray' = stray /\ seen' = seen /\ undetermined' = undetermined /\ resolved' = resolved
  BY <1>a DEF ResolveOne
<1>3. RequestOf(t, j).kind = "resolve"
  <2>1. j.cur # NoCur
    BY <1>2
  <2>2. RequestOf(t, j) = Request("resolve", {j.cur.lock.key}, j.cur.lock.start, j.cur.status)
    BY <2>1, RequestIs
  <2> QED BY SMTT(60), <2>2 DEF Request
<1>4. PICK s \in Txn : /\ start[s] > 0 /\ StoreStep(s) /\ Kept(s) /\ (Done(s)' <=> Done(s))
  BY <1>1, <1>2, <1>3, RequestLegit, ExecuteKept
<1>5. StoreInv' /\ Extends /\ LocksStay /\ \A u \in Txn : Done(u)' <=> Done(u)
  BY <1>4 DEF Kept
<1>6. j \in JobSet
  BY <1>1 DEF ClientType
<1>7. NoCur \in [lock : LockSet, status : Int]
  BY SMTT(60) DEF NoCur, LockSet, None
<1> HIDE DEF clean
<1>8. new \in JobSet /\ new.keys = j.keys /\ new.locks \subseteq j.locks /\ new.cur = NoCur
  BY <1>a, <1>6, <1>7 DEF JobSet
<1>9. /\ jobs'[t] = (jobs[t] \ {j}) \cup {new} /\ \A u \in Txn : u # t => jobs'[u] = jobs[u]
      /\ jobs' \in [Txn -> SUBSET JobSet]
  <2>1. jobs' = [jobs EXCEPT ![t] = (jobs[t] \ {j}) \cup {new}]
    BY <1>1, <1>2 DEF Replace, ClientType
  <2>2. (jobs[t] \ {j}) \cup {new} \in SUBSET JobSet
    BY <1>1, <1>8 DEF ClientType
  <2> QED BY <1>1, <2>1, <2>2 DEF ClientType
<1>10. ClientType'
  BY <1>1, <1>2, <1>9 DEF ClientType
<1>11. pc[t] \in {"read", "prewrite"} /\ start[t] > 0
  <2>1. pc[t] \in {"read", "prewrite"}
    BY <1>1, <1>2 DEF JobOK
  <2> QED BY <2>1, Busy
<1>12. PhaseOK(t)'
  <2>1. \A i \in jobs[t] : \A k \in i.keys : \E x \in jobs'[t] : k \in x.keys
    BY <1>8, <1>9
  <2>2. pc[t] = "prewrite" => Prewriting(t)'
    BY <1>1, <1>5, <1>11, <2>1, PrewritingStays DEF PhaseOK
  <2> QED BY <1>1, <1>2, <1>11, <2>2 DEF PhaseOK
<1>13. \A i \in jobs'[t] : JobOK(t, i)'
  <2>1. \A i \in jobs[t] : JobOK(t, i)'
    BY <1>1, <1>2, <1>5, JobStays
  <2>2. JobOK(t, new)'
    BY <1>2, <1>8, <1>11, <2>1 DEF JobOK
  <2> QED BY <1>9, <2>1, <2>2
<1>14. ToldOK(t)'
  <2>1. StrayCommit(t)' <=> StrayCommit(t)
    BY <1>2 DEF StrayCommit
  <2> QED BY <1>2, <1>5, <2>1, ToldStays
<1>15. ResolvedOK'
  BY <1>2, <1>5, SharedStay
<1> QED BY <1>2, <1>4, <1>9, <1>10, <1>12, <1>13, <1>14, <1>15, StoreActionKeeps DEF TxnOK

LEMMA SendFailsKeeps ==
    ASSUME IInv, NEW t \in Txn, NEW j \in jobs[t], SendFails(t, j)
    PROVE  IInv'
<1>1. StoreInv /\ ClientType /\ TxnOK(t) /\ PhaseOK(t) /\ StrayOK
  BY DEF IInv, TxnOK
<1> DEFINE r == RequestOf(t, j)
<1>2. /\ r.kind # "get" /\ stray' = stray \cup {r}
      /\ undetermined' = IF pc[t] = "commit" THEN Set(undetermined, t, TRUE) ELSE undetermined
      /\ db' = db /\ start' = start /\ commit' = commit /\ clock' = clock /\ pc' = pc
      /\ result' = result /\ seen' = seen /\ resolved' = resolved /\ jobs' = jobs
  BY DEF SendFails
<1>3. Legit(r) /\ (r.kind = "commit" => pc[t] \in {"commit", "secondary"} /\ r.ts = start[t])
  BY <1>2, RequestLegit
<1> HIDE DEF r
<1>4. StoreInv' /\ Extends /\ LocksStay /\ \A u \in Txn : Done(u)' <=> Done(u)
  BY <1>1, <1>2, IdleKept DEF Kept
<1>5. /\ undetermined' \in [Txn -> BOOLEAN] /\ \A u \in Txn : u # t => undetermined'[u] = undetermined[u]
      /\ pc[t] = "commit" => undetermined'[t] = TRUE
      /\ undetermined[t] => undetermined'[t]
  BY <1>1, <1>2 DEF Set, ClientType
<1>6. ClientType'
  BY <1>1, <1>2, <1>5 DEF ClientType
<1>7. StrayOK'
  <2>1. \A x \in stray \cup {r} : Legit(x)
    BY <1>1, <1>3 DEF StrayOK
  <2> QED BY <1>1, <1>2, <1>4, <2>1, LegitStays DEF StrayOK
<1>8. ASSUME NEW u \in Txn, u # t PROVE StrayCommit(u)' => StrayCommit(u)
  <2>1. start[u] = start[t] => start[t] = 0
    BY SMTT(60), <1>1, <1>8, Times
  <2>2. start[t] # 0
    BY SMTT(60), Busy
  <2> QED BY <1>2, <1>3, <2>1, <2>2 DEF StrayCommit
<1>9. \A u \in Txn : u # t => Same(u)
  BY <1>2, <1>4, <1>5, <1>8 DEF Same
<1>10. TxnOK(t)'
  <2>1. \A i \in jobs'[t] : JobOK(t, i)'
    BY <1>1, <1>2, <1>4, JobStays DEF TxnOK
  <2>2. start[t] > 0
    BY Busy
  <2>3. pc[t] = "prewrite" => Prewriting(t)'
    BY <1>1, <1>2, <1>4, <2>2, PrewritingStays DEF PhaseOK
  <2>4. PhaseOK(t)'
    BY <1>1, <1>2, <1>4, <2>2, <2>3 DEF PhaseOK, Extends, Mutates
  <2> QED BY <2>1, <2>4 DEF TxnOK
<1>11. ToldOK(t)'
  <2>1. StrayCommit(t)' => StrayCommit(t) \/ pc[t] \in {"commit", "secondary"}
    BY <1>2, <1>3 DEF StrayCommit
  <2> QED BY <1>2, <1>4, <1>5, <2>1, ToldStays
<1>12. ResolvedOK'
  BY <1>2, <1>4, SharedStay
<1> QED BY <1>4, <1>6, <1>7, <1>9, <1>10, <1>11, <1>12, ActionKeeps

\* Nothing is changed but the store, the requests under way, and what no invariant speaks of.
LEMMA ExecuteStrayKeeps ==
    ASSUME IInv, ExecuteStray
    PROVE  IInv'
<1>1. StoreInv /\ ClientType /\ StrayOK
  BY DEF IInv
<1>2. PICK r \in stray :
        /\ stray' = stray \ {r} /\ db' \in {db, Execute(r)}
        /\ start' = start /\ commit' = commit /\ clock' = clock /\ pc' = pc /\ result' = result
        /\ seen' = seen /\ resolved' = resolved /\ jobs' = jobs /\ undetermined' = undetermined
  BY DEF ExecuteStray
<1>3. /\ StoreInv' /\ Extends /\ LocksStay
      /\ \A u \in Txn : Done(u)' => Done(u) \/ (r.kind = "commit" /\ r.ts = start[u])
  <2>1. CASE db' = db
    BY <1>1, <1>2, <2>1, IdleKept DEF Kept
  <2>2. CASE db' = Execute(r)
    <3>1. Legit(r)
      BY <1>1 DEF StrayOK
    <3>2. PICK s \in Txn : /\ start[s] > 0 /\ r.ts = start[s] /\ Kept(s)
                           /\ r.kind # "commit" => (Done(s)' <=> Done(s))
      BY <1>1, <1>2, <2>2, <3>1, ExecuteKept
    <3> QED BY <3>2 DEF Kept
  <2> QED BY <1>2, <2>1, <2>2
<1>4. \A u \in Txn : Same(u)
  BY <1>2, <1>3 DEF Same, StrayCommit
<1>5. \A u \in Txn : TxnOK(u)' /\ ToldOK(u)'
  BY <1>3, <1>4, SameKeeps
<1>6. ClientType'
  BY <1>1, <1>2 DEF ClientType
<1>7. StrayOK' /\ ResolvedOK'
  BY <1>2, <1>3, SharedStay
<1> QED BY <1>3, <1>5, <1>6, <1>7 DEF IInv

LEMMA GiveUpKeeps ==
    ASSUME IInv, NEW t \in Txn, NEW j \in jobs[t], GiveUp(t, j)
    PROVE  IInv'
<1>1. StoreInv /\ ClientType /\ PhaseOK(t) /\ ToldOK(t) /\ StrayOK /\ \A i \in jobs[t] : JobOK(t, i)
  BY DEF IInv, TxnOK
<1>2. /\ db' = db /\ start' = start /\ commit' = commit /\ clock' = clock
      /\ stray' = stray /\ seen' = seen /\ resolved' = resolved /\ undetermined' = undetermined
  BY DEF GiveUp
<1>3. StoreInv' /\ Extends /\ \A u \in Txn : Done(u)' <=> Done(u)
  BY <1>1, <1>2, IdleKept DEF Kept
<1>4. pc[t] \in Phases /\ pc[t] \notin {"idle", "done"} /\ start[t] > 0
  BY Busy DEF Phases
<1>5. StrayCommit(t)' <=> StrayCommit(t)
  BY <1>2 DEF StrayCommit
<1>6. commit[t] = 0 => ~Done(t) /\ ~StrayCommit(t)
  <2> SUFFICES ASSUME commit[t] = 0 PROVE ~Done(t) /\ ~StrayCommit(t)
    OBVIOUS
  <2>1. ~Done(t)
    <3>1. Done(t) => commit[t] > 0
      BY <1>1, DoneIs
    <3> QED BY SMTT(60), <3>1
  <2>2. ASSUME NEW r \in stray, r.kind = "commit", r.ts = start[t] PROVE FALSE
    <3>1. PICK u \in Txn : start[u] > 0 /\ r.ts = start[u] /\ commit[u] > 0
      BY <1>1, <2>2 DEF StrayOK, Legit
    <3>2. u = t
      BY <1>1, <2>2, <3>1, Times
    <3> QED BY SMTT(60), <3>1, <3>2
  <2> QED BY <2>1, <2>2 DEF StrayCommit
<1>7. CASE pc[t] = "read"
  <2>1. pc' = Set(pc, t, "done") /\ result' = Set(result, t, "error") /\ jobs' = Set(jobs, t, {})
    BY <1>7 DEF GiveUp
  <2>2. /\ pc'[t] = "done" /\ result'[t] = "error" /\ jobs'[t] = {}
        /\ \A u \in Txn : u # t => pc'[u] = pc[u] /\ jobs'[u] = jobs[u] /\ result'[u] = result[u]
    BY <1>1, <2>1 DEF Set, ClientType
  <2>3. ClientType'
    BY <1>1, <1>2, <2>1 DEF Set, ClientType, Phases
  <2>4. TxnOK(t)'
    BY SMTT(60), <1>2, <1>4, <2>2, EndedOK
  <2>5. ToldOK(t)'
    <3>1. commit[t] = 0
      BY <1>1, <1>7 DEF PhaseOK
    <3> QED BY <1>3, <1>5, <1>6, <2>2, <3>1 DEF ToldOK
  <2> QED BY <1>2, <2>2, <2>3, <2>4, <2>5, QuietKeeps
<1>8. CASE pc[t] = "commit" /\ undetermined[t]
  <2>1. pc' = Set(pc, t, "done") /\ result' = Set(result, t, "undetermined") /\ jobs' = Set(jobs, t, {})
    BY <1>8 DEF GiveUp
  <2>2. /\ pc'[t] = "done" /\ result'[t] = "undetermined" /\ jobs'[t] = {}
        /\ \A u \in Txn : u # t => pc'[u] = pc[u] /\ jobs'[u] = jobs[u] /\ result'[u] = result[u]
    BY <1>1, <2>1 DEF Set, ClientType
  <2>3. ClientType'
    BY <1>1, <1>2, <2>1 DEF Set, ClientType, Phases
  <2>4. TxnOK(t)'
    BY SMTT(60), <1>2, <1>4, <2>2, EndedOK
  <2>5. ToldOK(t)'
    BY <2>2 DEF ToldOK
  <2> QED BY <1>2, <2>2, <2>3, <2>4, <2>5, QuietKeeps
<1>9. CASE pc[t] \in {"prewrite", "commit"} /\ ~undetermined[t] /\ Fail(t)
  <2>1. /\ pc'[t] = "cleanPrimary" /\ jobs'[t] = PrimaryJob(t, KeysOf(t), cached) /\ result'[t] = "error"
        /\ \A u \in Txn : u # t => pc'[u] = pc[u] /\ jobs'[u] = jobs[u] /\ result'[u] = result[u]
    BY <1>1, <1>9 DEF Fail, Set, ClientType
  <2>2. KeysOf(t) # {}
    BY <1>1, <1>9 DEF PhaseOK
  <2>3. LocksOnly(t) = {} => ~Done(t)' /\ ~StrayCommit(t)'
    <3>1. CASE pc[t] = "prewrite"
      BY <1>1, <1>3, <1>5, <1>6, <3>1 DEF PhaseOK
    <3>2. CASE pc[t] = "commit"
      BY <1>1, <1>3, <1>5, <1>9, <3>2 DEF ToldOK
    <3> QED BY <1>9, <3>1, <3>2
  <2>4. jobs'[t] \subseteq JobSet /\ TxnOK(t)' /\ ToldOK(t)'
    BY <1>2, <1>4, <2>1, <2>2, <2>3, FailOK
  <2>5. ClientType'
    BY <1>1, <1>2, <1>9, <2>1, <2>4 DEF Fail, Set, ClientType, Phases
  <2> QED BY <1>2, <2>1, <2>4, <2>5, QuietKeeps
<1>10. CASE pc[t] = "prewrite" /\ undetermined[t]
  BY <1>1, <1>10 DEF PhaseOK
<1>11. CASE pc[t] = "cleanPrimary"
  <2>1. pc' = Set(pc, t, "done") /\ Replace(t, j, {}) /\ result' = result
    BY <1>11 DEF GiveUp
  <2>2. /\ pc'[t] = "done" /\ jobs'[t] = {} /\ jobs' \in [Txn -> SUBSET JobSet]
        /\ \A u \in Txn : u # t => pc'[u] = pc[u] /\ jobs'[u] = jobs[u]
    <3>1. jobs[t] = {j}
      BY <1>1, <1>11 DEF PhaseOK
    <3>2. jobs'[t] = {} /\ jobs' \in [Txn -> SUBSET JobSet] /\ \A u \in Txn : u # t => jobs'[u] = jobs[u]
      BY SMTT(60), <1>1, <2>1, <3>1, ReplaceIs
    <3> QED BY <1>1, <2>1, <3>2 DEF Set, ClientType
  <2>3. ClientType'
    BY <1>1, <1>2, <2>1, <2>2 DEF Set, ClientType, Phases
  <2>4. TxnOK(t)'
    BY SMTT(60), <1>2, <1>4, <2>2, EndedOK
  <2>5. ToldOK(t)'
    BY <1>2, <1>3, <1>5, <2>1, <2>2, ToldStays
  <2> QED BY <1>2, <2>1, <2>2, <2>3, <2>4, <2>5, QuietKeeps
<1>12. CASE pc[t] \in {"secondary", "cleanRest"}
  <2>1. pc' = pc /\ Replace(t, j, {}) /\ result' = result
    BY <1>12 DEF GiveUp
  <2>2. /\ jobs'[t] = (jobs[t] \ {j}) \cup {} /\ jobs' \in [Txn -> SUBSET JobSet]
        /\ \A u \in Txn : u # t => jobs'[u] = jobs[u]
    BY SMTT(60), <1>1, <2>1, ReplaceIs
  <2>3. ClientType'
    BY <1>1, <1>2, <2>1, <2>2 DEF ClientType
  <2>4. PhaseOK(t)'
    BY <1>1, <1>2, <1>3, <1>4, <1>12, <2>1 DEF PhaseOK, Extends, Mutates
  <2>5. \A i \in jobs'[t] : JobOK(t, i)'
    BY <1>1, <1>3, <1>12, <2>1, <2>2, FreshJobs
  <2>6. ToldOK(t)'
    BY <1>2, <1>3, <1>5, <2>1, ToldStays
  <2> QED BY <1>2, <2>1, <2>2, <2>3, <2>4, <2>5, <2>6, QuietKeeps DEF TxnOK
<1>13. pc[t] \in {"prewrite", "commit"} /\ ~undetermined[t] => Fail(t)
  BY DEF GiveUp
<1> QED BY <1>4, <1>7, <1>8, <1>9, <1>10, <1>11, <1>12, <1>13 DEF Phases

\* A step that no invariant speaks of: the clock passes, the region splits, or nothing happens.
LEMMA OtherKeeps ==
    ASSUME IInv, UNCHANGED <<db, clock, start, commit, pc, jobs, result, undetermined, seen, resolved, stray>>
    PROVE  IInv'
<1>1. StoreInv /\ ClientType
  BY DEF IInv
<1>2. StoreInv' /\ Extends /\ LocksStay /\ \A u \in Txn : Done(u)' <=> Done(u)
  BY <1>1, IdleKept DEF Kept
<1>3. \A u \in Txn : Same(u)
  BY <1>2 DEF Same, StrayCommit
<1>4. \A u \in Txn : TxnOK(u)' /\ ToldOK(u)'
  BY <1>2, <1>3, SameKeeps
<1>5. ClientType'
  BY <1>1 DEF ClientType
<1>6. StrayOK' /\ ResolvedOK'
  BY <1>2, SharedStay
<1> QED BY <1>2, <1>4, <1>5, <1>6 DEF IInv

LEMMA CrashKeeps ==
    ASSUME IInv, Crash
    PROVE  IInv'
<1>1. StoreInv /\ ClientType /\ \A t \in Txn : PhaseOK(t)
  BY DEF IInv, TxnOK
<1>2. /\ pc' = [t \in Txn |-> IF pc[t] = "idle" THEN "idle" ELSE "done"]
      /\ jobs' = [t \in Txn |-> {}] /\ resolved' = <<>>
      /\ db' = db /\ start' = start /\ commit' = commit /\ clock' = clock /\ result' = result
      /\ stray' = stray /\ seen' = seen /\ undetermined' = undetermined
  BY DEF Crash
<1>3. StoreInv' /\ Extends /\ LocksStay /\ \A u \in Txn : Done(u)' <=> Done(u)
  BY <1>1, <1>2, IdleKept DEF Kept
<1>4. ClientType'
  BY <1>1, <1>2 DEF ClientType, Phases
<1>5. StrayOK'
  BY <1>2, <1>3, SharedStay
<1>6. ResolvedOK'
  <2>1. <<>> \in Seq([start : Nat, status : Nat]) /\ Elements(<<>>) = {}
    BY SMTT(60) DEF Elements
  <2>2. resolved' \in Seq([start : Nat, status : Nat]) /\ Elements(resolved') = {}
    BY <1>2, <2>1
  <2>3. Elements(resolved)' = Elements(resolved')
    BY DEF Elements
  <2> QED BY <2>2, <2>3 DEF ResolvedOK
<1>7. ASSUME NEW u \in Txn PROVE TxnOK(u)' /\ ToldOK(u)'
  <2>1. pc'[u] = (IF pc[u] = "idle" THEN "idle" ELSE "done") /\ jobs'[u] = {}
    BY <1>2
  <2>2. TxnOK(u)'
    BY <1>1, <1>2, <2>1 DEF TxnOK, PhaseOK
  <2>3. StrayCommit(u)' <=> StrayCommit(u)
    BY <1>2 DEF StrayCommit
  <2>4. ToldOK(u)'
    BY <1>2, <1>3, <2>1, <2>3, ToldStays
  <2> QED BY <2>2, <2>4
<1> QED BY <1>3, <1>4, <1>5, <1>6, <1>7 DEF IInv

LEMMA NextKeeps ==
    ASSUME IInv, [Next]_vars
    PROVE  IInv'
<1>1. ASSUME NEW t \in Txn, NEW j \in jobs[t], CommitSecondary(t, j) PROVE IInv'
  BY <1>1, BackgroundKeeps DEF CommitSecondary
<1>2. ASSUME NEW t \in Txn, NEW j \in jobs[t], CleanRest(t, j) PROVE IInv'
  BY <1>2, BackgroundKeeps DEF CleanRest
<1>3. ASSUME NEW t \in Txn, JobStep(t) PROVE IInv'
  BY <1>1, <1>2, <1>3, ReadBatchKeeps, PrewriteBatchKeeps, CommitPrimaryKeeps, CleanPrimaryKeeps,
     GetTxnStatusKeeps, ResolveOneKeeps DEF JobStep
<1>4. ASSUME NEW t \in Txn, TxnStep(t) PROVE IInv'
  BY <1>3, <1>4, BeginKeeps, StartCommitKeeps, GetCommitTSKeeps DEF TxnStep
<1>5. ASSUME NEW t \in Txn, Expire(t) PROVE IInv'
  BY <1>5, OtherKeeps DEF Expire
<1>6. ASSUME NEW t \in Txn, Fault(t) PROVE IInv'
  BY <1>5, <1>6, SendFailsKeeps, GiveUpKeeps DEF Fault
<1>7. CASE Split
  BY <1>7, OtherKeeps DEF Split
<1>8. CASE UNCHANGED vars
  BY <1>8, OtherKeeps DEF vars
<1> QED BY <1>4, <1>6, <1>7, <1>8, ExecuteStrayKeeps, CrashKeeps DEF Next

LOCAL INSTANCE WellFoundedInduction

LEMMA NumbersAreOrdered == WellOrdered
<1> SUFFICES ASSUME NEW S \in SUBSET Nat, S # {} PROVE \E n \in S : \A m \in S : n <= m
  BY DEF WellOrdered
<1>1. PICK n \in S : \A m \in S : ~(<<m, n>> \in OpToRel(<, Nat))
  BY NatLessThanWellFounded, WFMin
<1>2. \A m \in S : ~(m < n)
  BY <1>1 DEF OpToRel
<1> QED BY SMTT(60), <1>2

LEMMA InitHolds ==
    ASSUME Init
    PROVE  IInv
<1>1. /\ \A k \in Keys : db[k] = EmptyEntry /\ db[k].lock = NoLock /\ db[k].values = {}
      /\ \A t \in Txn : /\ start[t] = 0 /\ commit[t] = 0 /\ pc[t] = "idle" /\ jobs[t] = {}
                        /\ result[t] = "none" /\ undetermined[t] = FALSE
  BY DEF Init, EmptyStore, EmptyEntry
<1>2. \A t \in Txn : ~Done(t) /\ ~Dead(t)
  BY <1>1, KeysAreKeys DEF Done, Dead
<1>3. EmptyEntry \in EntrySet
  BY DEF EmptyEntry, EntrySet, NoLock
<1>4. db \in [Keys -> EntrySet]
  BY <1>3 DEF Init, EmptyStore
<1>5. TimesOK
  BY SMTT(60) DEF Init, TimesOK
<1>6. LocksTrue /\ VersionsTrue /\ Exclusive /\ LockNewest
  BY SMTT(60), <1>1 DEF LocksTrue, VersionsTrue, Exclusive, LockNewest
<1>7. Decided /\ Prepared
  BY SMTT(60), <1>1, <1>2 DEF Decided, Prepared
<1>8. ClientType
  BY DEF Init, ClientType, Phases
<1>9. ResolvedOK /\ StrayOK
  <2>1. <<>> \in Seq([start : Nat, status : Nat]) /\ Elements(<<>>) = {}
    BY SMTT(60) DEF Elements
  <2>2. resolved = <<>> /\ stray = {}
    BY DEF Init
  <2>3. Elements(resolved) = {}
    BY <2>1, <2>2
  <2> QED BY <2>1, <2>2, <2>3 DEF ResolvedOK, StrayOK
<1>10. \A t \in Txn : TxnOK(t) /\ ToldOK(t)
  BY <1>1 DEF TxnOK, PhaseOK, ToldOK
<1> QED BY <1>4, <1>5, <1>6, <1>7, <1>8, <1>9, <1>10, NumbersAreOrdered DEF IInv, StoreInv

LEMMA Invariance == Spec => []IInv
<1>1. Init => IInv
  BY InitHolds
<1>2. IInv /\ [Next]_vars => IInv'
  BY NextKeeps
<1> QED BY <1>1, <1>2, PTL DEF Spec

------------------------------------------------------------------------------
(* What the invariant says *)

\* Commit is atomic: for every set of transactions, keys, faults and every order of the requests,
\* a transaction is committed on all its keys or visible on none (commitLock, rollbackLock,
\* ResolveLock).
THEOREM CommitIsAtomic == Spec => []AllOrNothing
<1>1. ASSUME IInv PROVE AllOrNothing
  <2> SUFFICES ASSUME NEW t \in Txn, start[t] > 0, NEW k \in KeysOf(t)
               PROVE  IF CommittedAt(t) > 0
                      THEN \/ OpOf[t][k] = "lock"
                           \/ db[k].lock.start = start[t]
                           \/ Version(OpOf[t][k], start[t], CommittedAt(t)) \in db[k].values
                      ELSE \A v \in CommitInfo(db[k], start[t]) : v.type = "rollback"
    BY DEF AllOrNothing
  <2>1. StoreInv /\ k \in Keys
    BY <1>1, KeysAreKeys DEF IInv
  <2>2. CASE Done(t)
    <3>1. CommittedAt(t) = commit[t] /\ commit[t] > 0 /\ Mutates(t)
      BY <2>1, <2>2, DoneIs
    <3>2. ~Dead(t)
      BY <2>1, <2>2 DEF StoreInv, Decided
    <3>3. Locked(t, k) \/ OpOf[t][k] = "lock" \/ Mark(t, k) \in db[k].values
      BY <2>1, <3>1, <3>2 DEF StoreInv, Prepared
    <3>4. Locked(t, k) => db[k].lock.start = start[t]
      BY SMTT(60) DEF Locked, Own
    <3> QED BY <3>1, <3>3, <3>4 DEF Mark
  <2>3. CASE ~Done(t)
    <3>1. CommittedAt(t) = 0
      BY <2>1, <2>3, DoneIs
    <3>2. \A v \in CommitInfo(db[k], start[t]) : v.type = "rollback"
      BY <2>1, <2>3, VersionType DEF CommitInfo
    <3> QED BY SMTT(60), <3>1, <3>2
  <2> QED BY <2>2, <2>3
<1> QED BY <1>1, Invariance, PTL

\* The caller of txn.Commit and the lock resolver are told the truth, whatever is lost, repeated
\* or executed late: success means committed, an error other than ErrResultUndetermined means
\* never committed, and a status found for a lock is final (2pc.go execute, getTxnStatus).
THEOREM ToldTheTruth == Spec => []ResultTrue
<1>1. ASSUME IInv PROVE ResultTrue
  <2>1. StoreInv
    BY <1>1 DEF IInv
  <2>2. ASSUME NEW t \in Txn, LocksOnly(t) = {} PROVE Told(t)
    <3>1. ToldOK(t)
      BY <1>1 DEF IInv
    <3> QED BY <2>1, <2>2, <3>1, DoneIs DEF ToldOK, Told
  <2>3. ASSUME NEW ts, NEW st, Known(ts, st)
        PROVE  db[Primary(TxnAt(ts))].lock.start # ts /\ CommittedAt(TxnAt(ts)) = st
    <3>1. PICK u \in Txn : /\ start[u] > 0 /\ ts = start[u] /\ KeysOf(u) # {}
                           /\ IF st = 0 THEN Dead(u) ELSE Done(u) /\ st = commit[u]
      BY <2>3 DEF Known
    <3>2. TxnAt(ts) = u
      BY <2>1, <3>1, Times DEF TxnAt
    <3>3. Primary(u) \in Keys
      BY <3>1, KeysAreKeys
    <3>4. \E v \in db[Primary(u)].values : v.start = start[u]
      <4>1. Mark(u, Primary(u)).start = start[u] /\ Tomb(u).start = start[u]
        BY DEF Mark, Tomb, Version
      <4> QED BY <3>1, <4>1 DEF Dead, Done
    <3>5. db[Primary(u)].lock.start # start[u]
      BY <2>1, <3>1, <3>3, <3>4 DEF StoreInv, Exclusive, CommitInfo
    <3>6. CommittedAt(u) = st
      <4>1. CASE st = 0
        <5>1. ~Done(u)
          BY <2>1, <3>1, <4>1 DEF StoreInv, Decided
        <5> QED BY <2>1, <4>1, <5>1, DoneIs
      <4>2. CASE st # 0
        BY <2>1, <3>1, <4>2, DoneIs
      <4> QED BY <4>1, <4>2
    <3> QED BY <3>1, <3>2, <3>5, <3>6
  <2>4. \A e \in Elements(resolved) : Known(e.start, e.status)
    BY <1>1 DEF IInv, ResolvedOK, Elements
  <2>5. \A t \in Txn : \A j \in jobs[t] : j.cur # NoCur => Known(j.cur.lock.start, j.cur.status)
    BY <1>1 DEF IInv, TxnOK, JobOK
  <2>6. StatusFinal
    BY SMTT(60), <2>3, <2>4, <2>5 DEF StatusFinal
  <2> QED BY <2>2, <2>6 DEF ResultTrue
<1> QED BY <1>1, Invariance, PTL
=============================================================================
