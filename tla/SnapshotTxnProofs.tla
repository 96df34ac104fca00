-------------------------- MODULE SnapshotTxnProofs --------------------------
(***************************************************************************)
(* Snapshot isolation keeps its promises: in every behaviour of            *)
(* SnapshotTxn, for any transactions and keys, reads are stable and no     *)
(* update is lost.                                                         *)
(***************************************************************************)
EXTENDS SnapshotTxn, TLAPS

\* Leaves that name no prover are for Zenon; those the SMT solver proves say so.
USE ZenonT(20)

\* A transaction that has not begun has neither read nor committed.
NotBegun ==
    \A t \in Txn : start[t] = 0 => commit[t] = 0 /\ \A k \in Keys : seen[t][k] = Unread

\* The inductive invariant.
IInv == TypeOK /\ NotBegun /\ ReadsStable /\ NoLostUpdate

\* The commit of t at ts changes no snapshot below ts and none of a key that t does not write.
LEMMA CommitKeepsValue ==
    ASSUME TypeOK, NEW t \in Txn, NEW ts \in Nat, ~Committed(t), ts > 0,
           commit' = [commit EXCEPT ![t] = ts], start' = start,
           NEW k, NEW at \in Nat, k \in Writes(t) => at < ts, NEW x, IsValue(k, at, x)
    PROVE  IsValue(k, at, x)'
<1>1. Covered(k, at)' = Covered(k, at)
  <2>1. ASSUME NEW u \in Txn PROVE u \in Covered(k, at)' <=> u \in Covered(k, at)
    <3>1. CASE u = t
      BY SMTT(60), <3>1 DEF Covered, Committed, TypeOK, Writes
    <3>2. CASE u # t
      BY <3>2 DEF Covered, Committed, TypeOK, Writes
    <3> QED BY <3>1, <3>2
  <2> QED BY <2>1 DEF Covered
<1>2. \A u \in Covered(k, at) : commit'[u] = commit[u]
  BY DEF Covered, Committed, TypeOK
<1> QED BY <1>1, <1>2 DEF IsValue

\* Beginning a transaction changes no value: a writer that is covered has begun before.
LEMMA BeginKeepsValue ==
    ASSUME TypeOK, NotBegun, NEW t \in Txn, start[t] = 0,
           NEW ts, start' = [start EXCEPT ![t] = ts], commit' = commit,
           NEW k, NEW at, NEW x, IsValue(k, at, x)
    PROVE  IsValue(k, at, x)'
<1>1. Covered(k, at)' = Covered(k, at)
  BY DEF Covered, Committed, Writes
<1>2. \A u \in Covered(k, at) : start'[u] = start[u]
  BY SMTT(60) DEF Covered, Committed, NotBegun, TypeOK
<1> QED BY <1>1, <1>2 DEF IsValue

LEMMA BeginStep == ASSUME IInv, NEW t \in Txn, Begin(t) PROVE IInv'
<1>1. PICK ts \in Nat :
         /\ \A u \in Txn : start[u] < ts /\ commit[u] < ts
         /\ start' = [start EXCEPT ![t] = ts]
  BY DEF Begin
<1>2. ts > 0 /\ start[t] = 0 /\ commit' = commit /\ seen' = seen
  BY <1>1 DEF Begin, IInv, TypeOK
<1>3. TypeOK'
  BY <1>1, <1>2 DEF IInv, TypeOK
<1>4. NotBegun'
  BY <1>1, <1>2 DEF IInv, NotBegun, TypeOK
<1>5. ReadsStable'
  <2> SUFFICES ASSUME NEW u \in Txn, NEW k \in Keys, seen[u][k] # Unread
               PROVE  IsValue(k, start[u], seen[u][k])'
    BY <1>2 DEF ReadsStable
  <2>1. u # t
    BY <1>2 DEF IInv, NotBegun
  <2>2. start'[u] = start[u]
    BY <1>1, <2>1 DEF IInv, TypeOK
  <2>3. IsValue(k, start[u], seen[u][k])
    BY DEF IInv, ReadsStable
  <2>4. PICK at, x : at = start[u] /\ x = seen[u][k]
    OBVIOUS
  <2>5. IsValue(k, at, x)'
    BY <1>1, <1>2, <2>3, <2>4, BeginKeepsValue DEF IInv
  <2> QED BY <1>2, <2>2, <2>4, <2>5 DEF IsValue, Covered, Committed, Writes
<1>6. NoLostUpdate'
  <2>1. \A u \in Txn : Committed(u)' => start'[u] = start[u] /\ Committed(u)
    BY SMTT(60), <1>1, <1>2 DEF IInv, NotBegun, TypeOK, Committed
  <2> QED BY <1>2, <2>1 DEF IInv, NoLostUpdate, Writes, Committed
<1> QED BY <1>3, <1>4, <1>5, <1>6 DEF IInv

LEMMA ReadStep == ASSUME IInv, NEW t \in Txn, Read(t) PROVE IInv'
<1>1. start' = start /\ commit' = commit
  BY DEF Read
<1>2. TypeOK'
  BY <1>1 DEF IInv, TypeOK, Read
<1>3. NotBegun'
  BY SMTT(60), <1>1 DEF IInv, NotBegun, Read, TypeOK
<1>4. ReadsStable'
  <2> SUFFICES ASSUME NEW u \in Txn, NEW k \in Keys, seen'[u][k] # Unread
               PROVE  IsValue(k, start[u], seen'[u][k])
    BY SMTT(60), <1>1 DEF ReadsStable, IsValue, Covered, Committed, Writes
  <2> QED BY DEF Read, IInv, ReadsStable
<1>5. NoLostUpdate'
  BY <1>1 DEF IInv, NoLostUpdate, Committed, Writes
<1> QED BY <1>2, <1>3, <1>4, <1>5 DEF IInv

LEMMA CommitStep == ASSUME IInv, NEW t \in Txn, Commit(t) PROVE IInv'
<1>1. PICK ts \in Nat :
         /\ ts > start[t]
         /\ \A u \in Txn, k \in Writes(t) : seen[u][k] # Unread => start[u] < ts
         /\ commit' = [commit EXCEPT ![t] = ts]
  BY DEF Commit
<1>2. ts > 0 /\ start[t] > 0 /\ ~Committed(t) /\ start' = start /\ seen' = seen
  BY SMTT(60), <1>1 DEF Commit, IInv, TypeOK
<1>3. TypeOK'
  BY <1>1, <1>2 DEF IInv, TypeOK
<1>4. NotBegun'
  BY SMTT(60), <1>1, <1>2 DEF IInv, NotBegun, TypeOK
<1>5. ReadsStable'
  <2> SUFFICES ASSUME NEW u \in Txn, NEW k \in Keys, seen[u][k] # Unread
               PROVE  IsValue(k, start[u], seen[u][k])'
    BY <1>2 DEF ReadsStable
  <2>1. IsValue(k, start[u], seen[u][k]) /\ start[u] \in Nat
    BY DEF IInv, ReadsStable, TypeOK
  <2>2. k \in Writes(t) => start[u] < ts
    BY <1>1
  <2>3. PICK at \in Nat, x \in {seen[u][k]} : at = start[u]
    BY <2>1
  <2>4. IsValue(k, at, x)'
    BY <1>1, <1>2, <2>1, <2>2, <2>3, CommitKeepsValue DEF IInv
  <2> QED BY <1>2, <2>3, <2>4 DEF IsValue, Covered, Committed, Writes
<1>6. NoLostUpdate'
  <2> SUFFICES ASSUME NEW u \in Txn, NEW w \in Txn, u # w, Committed(u)', Committed(w)',
                      Writes(u) \cap Writes(w) # {}
               PROVE  commit'[u] < start[w] \/ commit'[w] < start[u]
    BY <1>2 DEF NoLostUpdate, Writes
  <2>1. \A v \in Txn : Committed(v) /\ Writes(v) \cap Writes(t) # {} => commit[v] < start[t]
    BY DEF Commit
  <2>2. \A v \in Txn : v # t => commit'[v] = commit[v]
    BY <1>1 DEF IInv, TypeOK
  <2>3. CASE u = t
    BY <2>1, <2>2, <2>3 DEF Committed
  <2>4. CASE w = t
    BY <2>1, <2>2, <2>4 DEF Committed
  <2>5. CASE u # t /\ w # t
    BY <2>2, <2>5 DEF IInv, NoLostUpdate, Committed
  <2> QED BY <2>3, <2>4, <2>5
<1> QED BY <1>3, <1>4, <1>5, <1>6 DEF IInv

\* The invariant is inductive.
LEMMA IInvInductive ==
    /\ Init => IInv
    /\ IInv /\ [Next]_vars => IInv'
<1>1. Init => IInv
  BY SMTT(60) DEF Init, IInv, TypeOK, NotBegun, ReadsStable, NoLostUpdate, Committed, Unread
<1>2. ASSUME IInv, UNCHANGED vars PROVE IInv'
  <2>1. TypeOK' /\ NotBegun'
    BY <1>2 DEF IInv, TypeOK, NotBegun, vars
  <2>2. ReadsStable' /\ NoLostUpdate'
    BY SMTT(60), <1>2 DEF IInv, ReadsStable, NoLostUpdate, IsValue, Covered, Committed, Writes, vars
  <2> QED BY <2>1, <2>2 DEF IInv
<1> QED BY <1>1, <1>2, BeginStep, ReadStep, CommitStep DEF Next

\* A transaction keeps seeing the same snapshot: whatever commits later, each value that it has
\* read is the newest one committed at or below its start timestamp.
THEOREM ReadsAreStable == Spec => []ReadsStable
<1>1. IInv => ReadsStable
  BY DEF IInv
<1> QED BY <1>1, IInvInductive, PTL DEF Spec

\* First committer wins: two committed writers of a key did not overlap in time.
THEOREM NoUpdateIsLost == Spec => []NoLostUpdate
<1>1. IInv => NoLostUpdate
  BY DEF IInv
<1> QED BY <1>1, IInvInductive, PTL DEF Spec
==============================================================================
