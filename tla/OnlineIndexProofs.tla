------------------------- MODULE OnlineIndexProofs -------------------------
(***************************************************************************)
(* Proofs about OnlineIndex, for any servers, rows, regions, jobs and      *)
(* bounds: the servers are never further apart than VersionLag says, and   *)
(* an index that is not unique is exact whenever somebody reads it, as far *)
(* as no owner was shut down with work that its successor did not wait for.*)
(*                                                                         *)
(* VersionLag is not inductive: a step of the worker is harmless only      *)
(* because everybody follows by then.  LagInv says when: while the worker  *)
(* of the owner may take a step, every server under a lease, or about to   *)
(* get one, has loaded the stored version; while it waits, it waits for    *)
(* that version.  The registered versions enter because the wait ends on   *)
(* them, and the lag of the validator because it admits the commits.  A    *)
(* crashed owner leaves its key, so every old lease is over before the     *)
(* next one; after a shutdown LagInv lasts until a worker does not wait.   *)
(*                                                                         *)
(* IndexExact rests on LagInv and on what each state of the chain makes    *)
(* of the open transactions.  ChainInv: which states two servers can be in *)
(* at once.  LiveInv: what a transaction that will be let through deletes  *)
(* and adds.  SoundInv: no entry is wrong.  FillInv: a row without an      *)
(* entry is still ahead of the backfill, and everybody maintains the index *)
(* meanwhile.  PublicInv: so it is complete when it becomes public, and    *)
(* stays so until the last reader is gone.  RangeInv: what is deleted is   *)
(* out of use.                                                             *)
(***************************************************************************)
EXTENDS OnlineIndex, TLAPS

\* Leaves that name no prover are for Zenon; those the SMT solver proves say so.
USE ZenonT(20)

Schemas == [ver : Nat, st : States, id : Nat]

\* The types of the variables the versions depend on.
VerType ==
    /\ meta \in Schemas
    /\ schema \in [Server -> Schemas]
    /\ valid \in [Server -> Nat]
    /\ reg \in [Server -> Nat \cup {NoVersion}]
    /\ worker \in [Server -> [pc : {"idle", "run", "publish", "wait"}, ver : Nat]]
    /\ global \in Nat
    /\ fresh \subseteq Server
    /\ granted \subseteq Server
    /\ closed \subseteq Server
    /\ owner \in Server \cup {NoServer, DeadOwner}
    /\ DOMAIN txn = Server
    /\ \A s \in Server : txn[s].ver \in Nat

\* Where the worker of the owner is, and what that says of the others.  A new owner has nothing
\* to wait for unless the one before it was shut down.
WorkerInv ==
    /\ owner \notin closed
    /\ \A s \in Server :
        /\ worker[s].pc # "idle" => owner = s \/ s \in closed
        /\ owner = s /\ worker[s].pc = "run" => Synced
        /\ owner = s /\ worker[s].pc = "publish" => worker[s].ver = meta.ver
        /\ owner = s /\ worker[s].pc = "wait" => worker[s].ver = meta.ver \/ Synced
        /\ owner = s /\ worker[s].pc = "idle" /\ closed = {} => Synced
    /\ owner = NoServer /\ closed = {} => Synced

\* What each server has loaded, registered and may commit with.
LoadInv ==
    \A s \in Server :
        /\ valid[s] <= schema[s].ver
        /\ schema[s].ver <= meta.ver
        /\ schema[s].ver > 0 => reg[s] = schema[s].ver
        /\ schema[s].ver = 0 => s \notin fresh \cup granted
        /\ IF s \in closed THEN schema[s].ver = 0 ELSE reg[s] # NoVersion
        /\ s \in fresh => valid[s] + 1 >= schema[s].ver
        /\ s \in fresh \cup granted => schema[s].ver + 1 >= meta.ver

LagInv == VerType /\ meta.ver > 0 /\ WorkerInv /\ LoadInv

verVars == <<schema, valid, reg, worker, global, fresh, granted, owner, closed>>

\* The inductive invariant implies the property.
LEMMA LagInvImplies == LagInv => InStep
BY SMTT(60) DEF LagInv, VerType, LoadInv, InStep, SchemaValid, Schemas

\* Init establishes the inductive invariant.
LEMMA LagInvInit == Init => LagInv
BY SMTT(60), ServerAssumption
DEF Init, LagInv, VerType, WorkerInv, LoadInv, Synced, Schemas, States, NoTxn, NoVersion

\* A step that leaves the versions alone keeps the invariant, whatever it does to the
\* transactions and to the state of the index.
LEMMA QuietStep ==
    ASSUME LagInv, UNCHANGED verVars, meta' \in Schemas, meta'.ver = meta.ver,
           DOMAIN txn' = Server, \A s \in Server : txn'[s].ver \in Nat
    PROVE  LagInv'
BY DEF LagInv, VerType, WorkerInv, LoadInv, Synced, verVars

\* The steps of the clients, of the backfill and of the delete-range worker.
LEMMA DataSteps ==
    ASSUME LagInv,
           \/ Cancel
           \/ \E i \in ranges : DeleteRange(i)
           \/ \E s \in Server : \/ \E h \in Handle, v \in Value \cup {NoRow} : Begin(s, h, v)
                               \/ Commit(s) \/ FillStep(s)
    PROVE  LagInv'
<1>0. meta \in Schemas /\ DOMAIN txn = Server /\ \A s \in Server : txn[s].ver \in Nat
  BY DEF LagInv, VerType
<1>00. NoTxn.ver \in Nat
  BY DEF NoTxn
<1>1. CASE Cancel
  BY <1>1, <1>0, QuietStep DEF Cancel, dataVars, hand, verVars
<1>2. CASE \E i \in ranges : DeleteRange(i)
  BY <1>2, <1>0, QuietStep DEF DeleteRange, hand, verVars
<1>3. ASSUME NEW s \in Server, NEW h \in Handle, NEW v \in Value \cup {NoRow}, Begin(s, h, v)
      PROVE  LagInv'
  <2>1. UNCHANGED verVars /\ meta' = meta
    BY <1>3 DEF Begin, ddlVars, hand, verVars
  <2>2. schema[s].ver \in Nat
    BY DEF LagInv, VerType, Schemas
  <2>3. DOMAIN txn' = Server /\ \A x \in Server : txn'[x].ver \in Nat
    BY <1>3, <1>0, <2>2 DEF Begin
  <2> QED
    BY <2>1, <2>3, <1>0, QuietStep
<1>4. ASSUME NEW s \in Server, Commit(s)
      PROVE  LagInv'
  <2>1. UNCHANGED verVars /\ meta' = meta
    BY <1>4 DEF Commit, ddlVars, hand, verVars
  <2>2. DOMAIN txn' = Server /\ \A x \in Server : txn'[x].ver \in Nat
    BY <1>4, <1>0, <1>00 DEF Commit, Overtake
  <2> QED
    BY <2>1, <2>2, <1>0, QuietStep
<1>5. ASSUME NEW s \in Server, FillRead(s)
      PROVE  LagInv'
  BY <1>5, <1>0, QuietStep DEF FillRead, dataVars, hand, verVars
<1>6. ASSUME NEW s \in Server, FillCommit(s)
      PROVE  LagInv'
  <2>1. UNCHANGED verVars /\ meta' = meta
    BY <1>6 DEF FillCommit, verVars
  <2>2. DOMAIN txn' = Server /\ \A x \in Server : txn'[x].ver \in Nat
    BY <1>6, <1>0, <1>00 DEF FillCommit
  <2> QED
    BY <2>1, <2>2, <1>0, QuietStep
<1> QED
  BY <1>1, <1>2, <1>3, <1>4, <1>5, <1>6 DEF FillStep

\* The steps of the worker that leave the versions and its place alone, or return to idle.
LEMMA QuietWorkerSteps ==
    ASSUME LagInv, NEW s \in Server,
           Finish(s) \/ EndCancelled(s) \/ FirstReorg(s) \/ StartReorg(s) \/ ReorgTimeout(s)
    PROVE  LagInv'
<1>0. meta \in Schemas /\ DOMAIN txn = Server /\ \A x \in Server : txn[x].ver \in Nat
  BY DEF LagInv, VerType
<1>1. UNCHANGED verVars /\ meta' = meta /\ txn' = txn
  <2>1. CASE Finish(s)
    BY <2>1 DEF Finish, dataVars, hand, verVars
  <2>2. CASE EndCancelled(s)
    BY <2>2 DEF EndCancelled, dataVars, hand, verVars
  <2>3. CASE FirstReorg(s)
    BY <2>3 DEF FirstReorg, dataVars, hand, verVars
  <2>4. CASE StartReorg(s)
    BY <2>4 DEF StartReorg, dataVars, hand, verVars
  <2>5. CASE ReorgTimeout(s)
    BY <2>5 DEF ReorgTimeout, dataVars, hand, verVars
  <2> QED
    BY <2>1, <2>2, <2>3, <2>4, <2>5
<1> QED
  BY <1>0, <1>1, QuietStep

\* A new version is stored by a worker whose servers all follow, so none is more than one
\* behind, and the worker waits for it.
LEMMA NewVersion ==
    ASSUME LagInv, NEW s \in Server, owner = s, worker[s].pc = "run",
           meta' \in Schemas, meta'.ver = meta.ver + 1,
           worker' = [worker EXCEPT ![s] = [pc |-> "publish", ver |-> meta.ver + 1]],
           UNCHANGED <<schema, valid, reg, global, fresh, granted, owner, closed, txn>>
    PROVE  LagInv'
<1>1. meta.ver \in Nat /\ meta.ver + 1 \in Nat
  BY DEF LagInv, VerType, Schemas
<1>2. VerType'
  BY <1>1 DEF LagInv, VerType
<1>3. Synced
  BY ServerAssumption DEF LagInv, WorkerInv
<1>4. WorkerInv'
  BY <1>1, ServerAssumption DEF LagInv, VerType, WorkerInv
<1>5. LoadInv'
  BY SMTT(60), <1>1, <1>3 DEF LagInv, VerType, LoadInv, Synced, Schemas
<1> QED
  BY SMTT(60), <1>1, <1>2, <1>4, <1>5 DEF LagInv

\* The steps of the worker that store a schema.
LEMMA SchemaSteps ==
    ASSUME LagInv, NEW s \in Server, AddStep(s) \/ DropStep(s) \/ ReorgDone(s)
    PROVE  LagInv'
<1>0. meta \in Schemas /\ meta.ver \in Nat /\ meta.id \in Nat
  BY DEF LagInv, VerType, Schemas
<1>1. CASE AddStep(s)
  <2>1. owner = s /\ worker[s].pc = "run"
    BY <1>1 DEF AddStep, Runs
  <2>2. meta.st \in {"none", "deleteOnly", "writeOnly"}
    BY <1>1 DEF AddStep
  <2>3. meta' \in Schemas /\ meta'.ver = meta.ver + 1
    BY SMTT(60), <1>0, <1>1, <2>2 DEF AddStep, Schemas, States
  <2>4. /\ worker' = [worker EXCEPT ![s] = [pc |-> "publish", ver |-> meta.ver + 1]]
        /\ UNCHANGED <<schema, valid, reg, global, fresh, granted, owner, closed, txn>>
    BY <1>1 DEF AddStep, dataVars, hand
  <2> QED
    BY <2>1, <2>3, <2>4, NewVersion
<1>2. CASE DropStep(s)
  <2>1. owner = s /\ worker[s].pc = "run"
    BY <1>2 DEF DropStep, Runs
  <2>2. meta.st \in {"public", "writeOnly", "deleteOnly", "deleteReorg"}
    BY <1>2 DEF DropStep
  <2>3. meta' \in Schemas /\ meta'.ver = meta.ver + 1
    BY SMTT(60), <1>0, <1>2, <2>2 DEF DropStep, NewState, Schemas, States
  <2>4. /\ worker' = [worker EXCEPT ![s] = [pc |-> "publish", ver |-> meta.ver + 1]]
        /\ UNCHANGED <<schema, valid, reg, global, fresh, granted, owner, closed, txn>>
    BY <1>2 DEF DropStep, NewState, dataVars, hand
  <2> QED
    BY <2>1, <2>3, <2>4, NewVersion
<1>3. CASE ReorgDone(s)
  <2>1. owner = s /\ worker[s].pc = "run"
    BY <1>3 DEF ReorgDone, Reorganizes, Runs
  <2>2. UNCHANGED <<schema, valid, reg, global, fresh, granted, owner, closed, txn>>
    BY <1>3 DEF ReorgDone, dataVars, hand
  <2>3. CASE NewState(s, "public")
    <3>1. meta' \in Schemas /\ meta'.ver = meta.ver + 1
      BY SMTT(60), <1>0, <2>3 DEF NewState, Schemas, States
    <3> QED
      BY <2>1, <2>2, <2>3, <3>1, NewVersion DEF NewState
  <2>4. CASE meta' = [meta EXCEPT !.st = "deleteOnly"] /\ UNCHANGED worker
    <3>1. meta' \in Schemas /\ meta'.ver = meta.ver
      BY <1>0, <2>4 DEF Schemas, States
    <3>2. DOMAIN txn = Server /\ \A x \in Server : txn[x].ver \in Nat
      BY DEF LagInv, VerType
    <3> QED
      BY <2>2, <2>4, <3>1, <3>2, QuietStep DEF verVars
  <2> QED
    BY <1>3, <2>3, <2>4 DEF ReorgDone
<1> QED
  BY <1>1, <1>2, <1>3

\* The worker of s moves; if s is the owner, everybody follows or it waits for the version.
LEMMA WorkerFrame ==
    ASSUME WorkerInv, NEW s \in Server, UNCHANGED <<owner, closed, meta>>, Synced => Synced',
           \A x \in Server \ {s} : worker'[x] = worker[x],
           worker[s].pc = "idle" => owner = s,
           owner = s => \/ Synced' /\ worker'[s].pc # "publish"
                        \/ worker'[s].pc \in {"publish", "wait"} /\ worker'[s].ver = meta.ver
    PROVE  WorkerInv'
<1>1. worker'[s].pc # "idle" => owner = s \/ s \in closed
  BY DEF WorkerInv
<1>2. ASSUME owner = s
      PROVE  /\ worker'[s].pc = "run" => Synced'
             /\ worker'[s].pc = "publish" => worker'[s].ver = meta.ver
             /\ worker'[s].pc = "wait" => worker'[s].ver = meta.ver \/ Synced'
             /\ worker'[s].pc = "idle" => Synced'
  BY <1>2
<1>3. ASSUME NEW x \in Server \ {s}
      PROVE  /\ worker'[x].pc # "idle" => owner = x \/ x \in closed
             /\ owner = x /\ worker'[x].pc = "run" => Synced'
             /\ owner = x /\ worker'[x].pc = "publish" => worker'[x].ver = meta.ver
             /\ owner = x /\ worker'[x].pc = "wait" => worker'[x].ver = meta.ver \/ Synced'
             /\ owner = x /\ worker'[x].pc = "idle" /\ closed = {} => Synced'
  BY <1>3 DEF WorkerInv
<1>4. owner \notin closed /\ (owner = NoServer /\ closed = {} => Synced')
  BY DEF WorkerInv
<1>5. ASSUME NEW x \in Server
      PROVE  /\ worker'[x].pc # "idle" => owner = x \/ x \in closed
             /\ owner = x /\ worker'[x].pc = "run" => Synced'
             /\ owner = x /\ worker'[x].pc = "publish" => worker'[x].ver = meta.ver
             /\ owner = x /\ worker'[x].pc = "wait" => worker'[x].ver = meta.ver \/ Synced'
             /\ owner = x /\ worker'[x].pc = "idle" /\ closed = {} => Synced'
  <2>1. CASE x = s
    BY <1>1, <1>2, <2>1
  <2>2. CASE x # s
    BY <1>3, <2>2
  <2> QED BY <2>1, <2>2
<1> QED BY <1>4, <1>5 DEF WorkerInv

\* The steps in which the worker of the owner wakes, rests, publishes and waits.
LEMMA WaitSteps ==
    ASSUME LagInv, NEW s \in Server, (Wake(s) /\ "wait" \notin handed') \/ Rest(s) \/ Publish(s)
    PROVE  LagInv'
<1>0. UNCHANGED <<schema, valid, reg, fresh, granted, owner, closed, txn, meta>>
  BY DEF Wake, Rest, Publish, dataVars, hand
<1>1. worker' \in [Server -> [pc : {"idle", "run", "publish", "wait"}, ver : Nat]] /\ global' \in Nat
  BY SMTT(60) DEF LagInv, VerType, Wake, Rest, Publish
<1>2. VerType'
  BY <1>0, <1>1 DEF LagInv, VerType
<1>3. Synced' <=> Synced
  BY <1>0 DEF Synced
<1>4. CASE Wake(s) /\ "wait" \notin handed'
  <2>1. owner = s /\ (Synced \/ worker'[s] = [pc |-> "wait", ver |-> meta.ver])
    BY <1>4 DEF Wake
  <2>2. worker'[s].pc \in {"wait", "run"} /\ \A x \in Server \ {s} : worker'[x] = worker[x]
    BY <1>4 DEF Wake, LagInv, VerType
  <2>3. owner = s => \/ Synced' /\ worker'[s].pc # "publish"
                     \/ worker'[s].pc \in {"publish", "wait"} /\ worker'[s].ver = meta.ver
    <3>1. CASE Synced
      BY <1>3, <2>2, <3>1
    <3>2. CASE worker'[s] = [pc |-> "wait", ver |-> meta.ver]
      <4>1. worker'[s].pc = "wait" /\ worker'[s].ver = meta.ver
        BY SMTT(60), <3>2
      <4> QED BY <4>1
    <3> QED BY <2>1, <3>1, <3>2
  <2>4. WorkerInv'
    BY <1>0, <1>3, <2>1, <2>2, <2>3, WorkerFrame DEF LagInv
  <2> QED
    BY <1>0, <1>2, <2>4 DEF LagInv, LoadInv
<1>5. CASE Rest(s)
  <2>1. owner = s => Synced
    BY <1>5 DEF Rest, LagInv, WorkerInv
  <2>2. worker'[s].pc = "idle" /\ \A x \in Server \ {s} : worker'[x] = worker[x]
    BY <1>5 DEF Rest, LagInv, VerType
  <2>3. WorkerInv'
    BY <1>0, <1>3, <2>1, <2>2 DEF LagInv, WorkerInv
  <2> QED
    BY <1>0, <1>2, <2>3 DEF LagInv, LoadInv
<1>6. CASE Publish(s)
  <2>1. owner = s => worker[s].ver = meta.ver
    BY <1>6 DEF Publish, LagInv, WorkerInv
  <2>2. /\ worker'[s].pc = "wait" /\ worker'[s].ver = worker[s].ver
        /\ \A x \in Server \ {s} : worker'[x] = worker[x]
    BY <1>6 DEF Publish, LagInv, VerType
  <2>3. WorkerInv'
    <3>1. worker[s].pc # "idle"
      BY <1>6 DEF Publish
    <3> QED BY <1>0, <1>3, <2>1, <2>2, <3>1, WorkerFrame DEF LagInv
  <2> QED
    BY <1>0, <1>2, <2>3 DEF LagInv, LoadInv
<1> QED
  BY <1>4, <1>5, <1>6

\* When leases run out, those that are left follow the version.
LEMMA ExpiredSynced ==
    ASSUME LagInv, LeasesExpire(meta.ver), UNCHANGED <<schema, meta>>
    PROVE  Synced'
<1> SUFFICES ASSUME NEW x \in fresh' \cup granted'
             PROVE  schema[x].ver = meta.ver
  BY DEF Synced
<1>1. x \in Server /\ schema[x].ver \in Nat /\ valid[x] \in Nat /\ meta.ver \in Nat
  BY DEF LagInv, VerType, Schemas, LeasesExpire
<1>2. valid[x] <= schema[x].ver /\ schema[x].ver <= meta.ver
  BY <1>1 DEF LagInv, LoadInv
<1>3. valid[x] >= meta.ver \/ schema[x].ver >= meta.ver
  BY DEF LeasesExpire
<1> QED
  BY SMTT(60), <1>1, <1>2, <1>3

\* When leases run out, what the invariant says of the servers still holds.
LEMMA ExpiredLoad ==
    ASSUME LagInv, NEW v, LeasesExpire(v), UNCHANGED <<schema, valid, reg, closed, meta>>
    PROVE  /\ fresh' \subseteq fresh /\ granted' \subseteq granted
           /\ LoadInv'
           /\ DOMAIN txn' = Server /\ \A x \in Server : txn'[x].ver \in Nat
<1>1. fresh' \subseteq fresh /\ granted' \subseteq granted
  BY DEF LeasesExpire
<1>2. LoadInv'
  BY <1>1 DEF LagInv, LoadInv
<1>3. DOMAIN txn' = Server /\ \A x \in Server : txn'[x].ver \in Nat
  BY DEF LagInv, VerType, LeasesExpire, NoTxn
<1> QED
  BY <1>1, <1>2, <1>3

\* The wait ends: everybody follows, because they announced the version or lost their lease.
LEMMA WaitedStep ==
    ASSUME LagInv, NEW s \in Server, Waited(s)
    PROVE  LagInv'
<1>0. UNCHANGED <<schema, valid, reg, owner, closed, meta, global>>
  BY DEF Waited, hand
<1>2. owner = s => worker[s].ver = meta.ver \/ Synced
  BY DEF LagInv, WorkerInv, Waited
<1>3. /\ fresh' \subseteq fresh /\ granted' \subseteq granted
      /\ LoadInv'
      /\ DOMAIN txn' = Server /\ \A x \in Server : txn'[x].ver \in Nat
  <2>1. CASE AllSynced(worker[s].ver)
    <3>1. UNCHANGED <<fresh, granted, txn>>
      BY <2>1 DEF Waited
    <3> QED
      BY <1>0, <3>1 DEF LagInv, VerType, LoadInv
  <2>2. CASE ~AllSynced(worker[s].ver)
    <3>1. LeasesExpire(worker[s].ver)
      BY <2>2 DEF Waited
    <3> QED
      BY <1>0, <3>1, ExpiredLoad
  <2> QED
    BY <2>1, <2>2
<1>4. (owner = s \/ Synced) => Synced'
  <2>1. CASE Synced
    BY <1>0, <1>3, <2>1 DEF Synced
  <2>2. CASE worker[s].ver = meta.ver /\ AllSynced(meta.ver)
    <3>1. UNCHANGED <<fresh, granted>>
      BY <2>2 DEF Waited
    <3>2. ASSUME NEW x \in fresh \cup granted
          PROVE  schema[x].ver = meta.ver
      <4>1. x \in Server /\ schema[x].ver \in Nat /\ meta.ver \in Nat
        BY <3>2 DEF LagInv, VerType, Schemas
      <4>3. schema[x].ver > 0 /\ reg[x] = schema[x].ver /\ schema[x].ver <= meta.ver
        BY SMTT(60), <3>2, <4>1 DEF LagInv, LoadInv
      <4>2. reg[x] >= meta.ver
        BY SMTT(60), <2>2, <4>1, <4>3 DEF AllSynced, NoVersion
      <4> QED
        BY SMTT(60), <4>1, <4>2, <4>3
    <3> QED
      BY <1>0, <3>1, <3>2 DEF Synced
  <2>3. CASE worker[s].ver = meta.ver /\ ~AllSynced(meta.ver)
    BY <1>0, <2>3, ExpiredSynced DEF Waited
  <2> QED
    BY <1>2, <2>1, <2>2, <2>3
<1>5. /\ worker' \in [Server -> [pc : {"idle", "run", "publish", "wait"}, ver : Nat]]
      /\ worker'[s].pc = "run"
      /\ \A x \in Server \ {s} : worker'[x] = worker[x]
  BY DEF LagInv, VerType, Waited
<1>6. VerType'
  BY <1>0, <1>3, <1>5 DEF LagInv, VerType
<1>7. WorkerInv'
  <2>1. worker[s].pc # "idle"
    BY DEF Waited
  <2> QED BY <1>0, <1>4, <1>5, <2>1, WorkerFrame DEF LagInv
<1> QED
  BY <1>0, <1>3, <1>6, <1>7 DEF LagInv

\* A new owner starts when the leases from before have run out, or after a shutdown.
LEMMA CampaignStep ==
    ASSUME LagInv, NEW s \in Server, Campaign(s)
    PROVE  LagInv'
<1>0. /\ UNCHANGED <<schema, valid, reg, worker, closed, meta, global>>
      /\ owner \in {NoServer, DeadOwner} /\ owner' = s
      /\ schema[s].ver > 0
  BY DEF Campaign, hand
<1>1. CASE owner = DeadOwner
  <2>0. LeasesExpire(meta.ver)
    BY <1>1 DEF Campaign
  <2>1. Synced'
    BY <1>0, <2>0, ExpiredSynced
  <2>2. /\ LoadInv' /\ fresh' \subseteq fresh /\ granted' \subseteq granted
        /\ DOMAIN txn' = Server /\ \A x \in Server : txn'[x].ver \in Nat
    BY <1>0, <2>0, ExpiredLoad
  <2>3. VerType'
    BY <1>0, <2>2 DEF LagInv, VerType
  <2>4. s \notin closed /\ \A x \in Server : worker[x].pc # "idle" => x \in closed
    BY SMTT(60), <1>0, ServerAssumption DEF LagInv, WorkerInv, LoadInv
  <2>5. WorkerInv'
    BY <1>0, <2>1, <2>4, ServerAssumption DEF WorkerInv
  <2> QED
    BY <1>0, <2>2, <2>3, <2>5 DEF LagInv
<1>2. CASE owner = NoServer
  <2>0. UNCHANGED <<fresh, granted, txn>>
    BY <1>2, ServerAssumption DEF Campaign
  <2>1. Synced' <=> Synced
    BY <1>0, <2>0 DEF Synced
  <2>2. LoadInv' /\ VerType'
    BY <1>0, <2>0 DEF LagInv, LoadInv, VerType
  <2>4. s \notin closed /\ \A x \in Server : worker[x].pc # "idle" => x \in closed
    BY SMTT(60), <1>0, ServerAssumption DEF LagInv, WorkerInv, LoadInv
  <2>5. closed = {} => Synced
    BY <1>2 DEF LagInv, WorkerInv
  <2>6. WorkerInv'
    BY <1>0, <2>1, <2>4, <2>5, ServerAssumption DEF WorkerInv
  <2> QED
    BY <1>0, <2>2, <2>6 DEF LagInv
<1> QED
  BY <1>0, <1>1, <1>2

\* A crash or a shutdown takes the server out of the lease.
LEMMA DownStep ==
    ASSUME LagInv, NEW s \in Server, Crash(s) \/ Close(s)
    PROVE  /\ LoadInv' /\ VerType' /\ meta' = meta
           /\ Synced => Synced'
<1>0. UNCHANGED <<meta, global>> /\ fresh' = fresh \ {s} /\ granted' = granted \ {s}
  BY DEF Crash, Close
<1>00. /\ schema' = [schema EXCEPT ![s] = [ver |-> 0, st |-> "none", id |-> 0]]
       /\ valid' = [valid EXCEPT ![s] = 0]
       /\ txn' = [txn EXCEPT ![s] = NoTxn]
  BY DEF Crash, Close
<1>1. /\ schema' \in [Server -> Schemas]
      /\ valid' \in [Server -> Nat]
      /\ DOMAIN txn' = Server /\ \A x \in Server : txn'[x].ver \in Nat
  BY <1>00 DEF LagInv, VerType, Schemas, States, NoTxn
<1>2. /\ worker' \in [Server -> [pc : {"idle", "run", "publish", "wait"}, ver : Nat]]
      /\ reg' \in [Server -> Nat \cup {NoVersion}]
      /\ owner' \in Server \cup {NoServer, DeadOwner}
      /\ closed' \subseteq Server
  <2>1. CASE Crash(s)
    BY <2>1 DEF LagInv, VerType, Crash, hand
  <2>2. CASE Close(s)
    BY <2>2 DEF LagInv, VerType, Close
  <2> QED BY <2>1, <2>2
<1>3. VerType'
  BY <1>0, <1>1, <1>2 DEF LagInv, VerType
<1>4. /\ schema'[s].ver = 0 /\ valid'[s] = 0
      /\ \A x \in Server \ {s} : schema'[x] = schema[x] /\ valid'[x] = valid[x]
  BY <1>00 DEF LagInv, VerType
<1>5. /\ s \notin closed /\ reg[s] # NoVersion
      /\ \A x \in Server \ {s} : reg'[x] = reg[x] /\ (x \in closed' <=> x \in closed)
      /\ (s \notin closed' /\ reg'[s] = reg[s]) \/ s \in closed'
  <2>1. schema[s].ver > 0
    BY DEF Crash, Close
  <2>2. s \notin closed /\ reg[s] # NoVersion
    BY SMTT(60), <2>1 DEF LagInv, LoadInv
  <2>3. CASE Crash(s)
    BY <2>2, <2>3 DEF Crash, hand
  <2>4. CASE Close(s)
    BY <2>2, <2>4 DEF Close, LagInv, VerType
  <2> QED BY <2>3, <2>4
<1>6. LoadInv'
  BY SMTT(60), <1>0, <1>4, <1>5 DEF LagInv, VerType, LoadInv, Schemas
<1>7. Synced => Synced'
  BY <1>0, <1>4 DEF Synced, LagInv, VerType
<1> QED
  BY <1>0, <1>3, <1>6, <1>7

\* A crash ends the worker, and the key of the owner stays.
LEMMA CrashStep ==
    ASSUME LagInv, NEW s \in Server, Crash(s)
    PROVE  LagInv'
<1>0. LoadInv' /\ VerType' /\ meta' = meta /\ (Synced => Synced')
  BY DownStep
<1>1. closed' = closed /\ owner' = (IF owner = s THEN DeadOwner ELSE owner)
  BY DEF Crash, hand
<1>2. worker'[s].pc = "idle" /\ \A x \in Server \ {s} : worker'[x] = worker[x]
  BY DEF LagInv, VerType, Crash
<1>3. s \notin closed /\ DeadOwner \notin closed'
  <2>1. s \notin closed
    BY SMTT(60) DEF Crash, LagInv, LoadInv
  <2>2. closed \subseteq Server
    BY DEF LagInv, VerType
  <2> QED BY <1>1, <2>1, <2>2, ServerAssumption
<1>4. WorkerInv'
  <2>1. CASE owner = s
    BY <1>1, <1>2, <1>3, <2>1, ServerAssumption DEF LagInv, WorkerInv
  <2>2. CASE owner # s
    BY <1>0, <1>1, <1>2, <1>3, <2>2, ServerAssumption DEF LagInv, WorkerInv
  <2> QED BY <2>1, <2>2
<1> QED
  BY <1>0, <1>4 DEF LagInv

\* A shutdown gives up the key at once; the worker finishes its round.
LEMMA CloseStep ==
    ASSUME LagInv, NEW s \in Server, Close(s)
    PROVE  LagInv'
<1>0. LoadInv' /\ VerType' /\ meta' = meta /\ (Synced => Synced')
  BY DownStep
<1>1. /\ closed' = closed \cup {s} /\ worker' = worker
      /\ owner' = (IF owner = s THEN NoServer ELSE owner)
  BY DEF Close
<1>2. closed' # {} /\ NoServer \notin closed'
  <2>1. closed \subseteq Server
    BY DEF LagInv, VerType
  <2> QED BY <1>1, <2>1, ServerAssumption
<1>3. WorkerInv'
  <2>1. CASE owner = s
    BY <1>1, <1>2, <2>1, ServerAssumption DEF LagInv, WorkerInv
  <2>2. CASE owner # s
    BY <1>0, <1>1, <1>2, <2>2, ServerAssumption DEF LagInv, WorkerInv
  <2> QED BY <2>1, <2>2
<1> QED
  BY <1>0, <1>3 DEF LagInv

\* A server loads the stored schema, or its validator takes it over.
LEMMA LoadSteps ==
    ASSUME LagInv, NEW s \in Server, Reload(s) \/ Load(s) \/ Validate(s)
    PROVE  LagInv'
<1>0. UNCHANGED <<worker, owner, closed, txn, meta, global>>
  BY DEF Reload, Load, Validate, hand
<1>1. /\ meta \in Schemas /\ meta.ver \in Nat
      /\ schema \in [Server -> Schemas] /\ schema[s].ver \in Nat
      /\ valid \in [Server -> Nat] /\ reg \in [Server -> Nat \cup {NoVersion}]
      /\ fresh \subseteq Server /\ granted \subseteq Server
  <2>1. /\ meta \in Schemas /\ schema \in [Server -> Schemas]
        /\ valid \in [Server -> Nat] /\ reg \in [Server -> Nat \cup {NoVersion}]
        /\ fresh \subseteq Server /\ granted \subseteq Server
    BY DEF LagInv, VerType
  <2>2. meta.ver \in Nat /\ schema[s].ver \in Nat
    BY <2>1 DEF Schemas
  <2> QED
    BY <2>1, <2>2
<1>2. ASSUME schema' \in [Server -> Schemas], valid' \in [Server -> Nat],
             reg' \in [Server -> Nat \cup {NoVersion}],
             fresh' \subseteq Server, granted' \subseteq Server,
             \A x \in Server \ {s} : /\ schema'[x] = schema[x] /\ valid'[x] = valid[x] /\ reg'[x] = reg[x]
                                   /\ (x \in fresh') = (x \in fresh)
                                   /\ (x \in granted') = (x \in granted),
             valid'[s] <= schema'[s].ver, schema'[s].ver <= meta.ver,
             schema'[s].ver > 0 => reg'[s] = schema'[s].ver,
             schema'[s].ver = 0 => s \notin fresh' \cup granted',
             IF s \in closed THEN schema'[s].ver = 0 ELSE reg'[s] # NoVersion,
             s \in fresh' => valid'[s] + 1 >= schema'[s].ver,
             s \in fresh' \cup granted' => schema'[s].ver + 1 >= meta.ver,
             Synced => (s \in fresh' \cup granted' => schema'[s].ver = meta.ver)
      PROVE  LagInv'
  <2>1. VerType'
    BY <1>0, <1>2 DEF LagInv, VerType
  <2>2. LoadInv'
    BY <1>0, <1>2 DEF LagInv, LoadInv
  <2>3. Synced => Synced'
    BY <1>0, <1>2 DEF Synced
  <2>4. WorkerInv'
    BY <1>0, <2>3 DEF LagInv, WorkerInv
  <2> QED
    BY <1>0, <2>1, <2>2, <2>4 DEF LagInv
<1>3. CASE Reload(s)
  <2>1. /\ schema' = [schema EXCEPT ![s] = meta]
        /\ valid' = [valid EXCEPT ![s] = meta.ver]
        /\ reg' = [reg EXCEPT ![s] = meta.ver]
        /\ fresh' = fresh \cup {s} /\ granted' = granted
    BY <1>1, <1>3 DEF Reload, LagInv, LoadInv
  <2>2. /\ schema'[s] = meta /\ valid'[s] = meta.ver /\ reg'[s] = meta.ver
        /\ meta.ver > 0 /\ s \notin closed
    BY <1>1, <1>3, <2>1 DEF LagInv, Reload
  <2>3. meta.ver # NoVersion /\ schema' \in [Server -> Schemas] /\ valid' \in [Server -> Nat]
    BY SMTT(60), <1>1, <2>1 DEF NoVersion
  <2> QED
    BY SMTT(60), <1>1, <1>2, <2>1, <2>2, <2>3
<1>4. CASE Load(s)
  <2>1. /\ schema' = [schema EXCEPT ![s] = meta]
        /\ valid' = valid
        /\ reg' = [reg EXCEPT ![s] = meta.ver]
        /\ fresh' = fresh /\ granted' = granted \cup {s}
        /\ valid[s] = schema[s].ver
    BY <1>1, <1>4 DEF Load, LagInv, LoadInv
  <2>2. /\ schema'[s] = meta /\ reg'[s] = meta.ver
        /\ meta.ver > 0 /\ s \notin closed
        /\ valid[s] <= meta.ver
        /\ s \in fresh => valid[s] + 1 >= meta.ver
    BY <1>1, <1>4, <2>1 DEF LagInv, LoadInv, Load
  <2>3. meta.ver # NoVersion /\ schema' \in [Server -> Schemas]
    BY SMTT(60), <1>1, <2>1 DEF NoVersion
  <2> QED
    BY SMTT(60), <1>1, <1>2, <2>1, <2>2, <2>3
<1>5. CASE Validate(s)
  <2>1. /\ schema' = schema
        /\ valid' = [valid EXCEPT ![s] = schema[s].ver]
        /\ reg' = reg
        /\ fresh' = IF s \in granted THEN fresh \cup {s} ELSE fresh \ {s}
        /\ granted' = granted \ {s}
    BY <1>5 DEF Validate
  <2>2. /\ valid'[s] = schema[s].ver
        /\ s \in fresh' => s \in granted
        /\ s \notin granted'
    BY <1>1, <2>1
  <2>3. /\ schema[s].ver <= meta.ver
        /\ schema[s].ver > 0 => reg[s] = schema[s].ver
        /\ schema[s].ver = 0 => s \notin granted
        /\ IF s \in closed THEN schema[s].ver = 0 ELSE reg[s] # NoVersion
        /\ s \in granted => schema[s].ver + 1 >= meta.ver
        /\ Synced => (s \in granted => schema[s].ver = meta.ver)
    BY DEF LagInv, LoadInv, Synced
  <2>4. \A x \in Server \ {s} : /\ valid'[x] = valid[x]
                              /\ (x \in fresh') = (x \in fresh)
                              /\ (x \in granted') = (x \in granted)
    BY SMTT(60), <1>1, <2>1
  <2>5. valid' \in [Server -> Nat] /\ fresh' \subseteq Server /\ granted' \subseteq Server
    BY <1>1, <2>1
  <2> QED
    BY SMTT(60), <1>1, <1>2, <2>1, <2>2, <2>3, <2>4, <2>5
<1> QED
  BY <1>3, <1>4, <1>5

\* Every step keeps the inductive invariant, as long as nobody goes on too early.
LEMMA LagInvStep ==
    ASSUME LagInv, [Next]_vars, "wait" \notin handed'
    PROVE  LagInv'
<1>1. CASE UNCHANGED vars
  BY <1>1, QuietStep DEF LagInv, VerType, vars, verVars
<1>2. CASE Cancel \/ \E i \in ranges : DeleteRange(i)
  BY <1>2, DataSteps
<1>3. ASSUME NEW s \in Server,
             \/ \E h \in Handle, v \in Value \cup {NoRow} : Begin(s, h, v)
             \/ Commit(s) \/ FillStep(s)
      PROVE  LagInv'
  BY <1>3, DataSteps
<1>4. ASSUME NEW s \in Server, Reload(s) \/ Load(s) \/ Validate(s)
      PROVE  LagInv'
  BY <1>4, LoadSteps
<1>5. ASSUME NEW s \in Server, WorkerStep(s)
      PROVE  LagInv'
  BY <1>5, QuietWorkerSteps, SchemaSteps, WaitSteps, WaitedStep DEF WorkerStep
<1>6. ASSUME NEW s \in Server, Crash(s) \/ Close(s) \/ Campaign(s)
      PROVE  LagInv'
  BY <1>6, CrashStep, CloseStep, CampaignStep
<1> QED
  BY <1>1, <1>2, <1>3, <1>4, <1>5, <1>6 DEF Next

\* Only the first round of a worker and the last transaction of a backfill may be too early or
\* too late; that is never forgotten, and a server that was shut down stays so.
LEMMA HandSteps ==
    ASSUME [Next]_vars
    PROVE  /\ handed \subseteq handed' /\ closed \subseteq closed'
           /\ \/ handed' = handed
              \/ \E s \in Server : Wake(s)
              \/ \E s \in Server : FillCommit(s) /\ s \in closed
<1>1. CASE UNCHANGED vars
  BY <1>1 DEF vars
<1>2. CASE Cancel
  BY <1>2 DEF Cancel, hand
<1>3. ASSUME NEW i \in ranges, DeleteRange(i) PROVE UNCHANGED hand
  BY <1>3 DEF DeleteRange
<1>4. ASSUME NEW s \in Server, NEW h \in Handle, NEW v \in Value \cup {NoRow}, Begin(s, h, v)
      PROVE  UNCHANGED hand
  BY <1>4 DEF Begin, ddlVars
<1>5. ASSUME NEW s \in Server, Commit(s) \/ Reload(s) \/ Load(s) \/ Validate(s) \/ FillRead(s)
                                \/ Crash(s) \/ Campaign(s)
      PROVE  UNCHANGED hand
  BY <1>5 DEF Commit, ddlVars, Reload, Load, Validate, FillRead, Crash, Campaign
<1>6. ASSUME NEW s \in Server, WorkerStep(s), ~Wake(s)
      PROVE  UNCHANGED hand
  <2>1. CASE Rest(s) \/ Publish(s) \/ Waited(s) \/ Finish(s) \/ EndCancelled(s) \/ AddStep(s)
    BY <2>1 DEF Rest, Publish, Waited, Finish, EndCancelled, AddStep
  <2>2. CASE DropStep(s) \/ FirstReorg(s) \/ StartReorg(s) \/ ReorgTimeout(s) \/ ReorgDone(s)
    BY <2>2 DEF DropStep, FirstReorg, StartReorg, ReorgTimeout, ReorgDone
  <2> QED BY <1>6, <2>1, <2>2 DEF WorkerStep
<1>7. ASSUME NEW s \in Server, Wake(s)
      PROVE  handed \subseteq handed' /\ closed' = closed
  BY <1>7 DEF Wake
<1>8. ASSUME NEW s \in Server, FillCommit(s)
      PROVE  handed \subseteq handed' /\ closed' = closed /\ (handed' = handed \/ s \in closed)
  BY <1>8 DEF FillCommit
<1>9. ASSUME NEW s \in Server, Close(s)
      PROVE  handed' = handed /\ closed \subseteq closed'
  BY <1>9 DEF Close
<1> QED
  BY <1>1, <1>2, <1>3, <1>4, <1>5, <1>6, <1>7, <1>8, <1>9 DEF Next, FillStep, hand

\* The versions in step as far as nobody went on too early, which takes a shutdown.
HandInv ==
    /\ "wait" \notin handed => LagInv
    /\ closed = {} => handed = {}

\* Every step keeps it.
LEMMA HandInvStep == HandInv /\ [Next]_vars => HandInv'
<1> SUFFICES ASSUME HandInv, [Next]_vars
             PROVE  HandInv'
  OBVIOUS
<1>1. "wait" \notin handed' => LagInv'
  BY HandSteps, LagInvStep DEF HandInv
<1>2. ASSUME closed' = {} PROVE handed' = {}
  <2>1. closed = {} /\ handed = {} /\ LagInv
    BY <1>2, HandSteps DEF HandInv
  <2>2. ASSUME NEW s \in Server, Wake(s) PROVE handed' = handed
    <3>1. owner = s /\ worker[s].pc = "idle"
      BY <2>2 DEF Wake
    <3>2. Synced
      BY <2>1, <3>1 DEF LagInv, WorkerInv
    <3> QED BY <2>2, <3>2 DEF Wake
  <2> QED BY <2>1, <2>2, HandSteps
<1> QED BY <1>1, <1>2 DEF HandInv

\* Whatever the servers, rows, jobs and bounds, and whoever crashes or is shut down: a server
\* under a lease is at most one schema version behind, and a transaction that the validator lets
\* through at most two, unless a worker went on too early after a shutdown.
THEOREM ServersFollow == Spec => []VersionLag
<1>1. Init => HandInv
  BY LagInvInit DEF HandInv, Init
<1>2. HandInv /\ [Next]_vars => HandInv'
  BY HandInvStep
<1>3. HandInv => VersionLag
  BY LagInvImplies DEF HandInv, VersionLag
<1> QED
  BY <1>1, <1>2, <1>3, PTL DEF Spec

------------------------------------------------------------------------------
(* The index *)

Entries == Nat \X Value \X Handle

\* The servers that work under a lease, or will.
Leased == fresh \cup granted

\* The transaction of s will be let through.
Live(s) == txn[s] # NoTxn /\ SchemaValid(s)

\* Row h has its entry.
Has(h) == <<meta.id, row[h], h>> \in entry

\* A transaction that maintains the index in full.
Writes(t) ==
    /\ t.new # NoRow => <<meta.id, t.new, t.h>> \in t.add
    /\ row[t.h] # NoRow => IndexKey(<<meta.id, row[t.h], t.h>>) \in t.del

AllWrite == \A s \in Server : Live(s) => Writes(txn[s])

JobRecs == [type : {"none", "add", "drop"},
            state : {"none", "running", "cancelling", "rollingback", "done", "rollbackDone"},
            schema : States, snap : BOOLEAN, start : Nat, end : Nat]

ReorgRecs == [on : BOOLEAN, id : Nat, pos : Nat, end : Nat, next : Nat, cancel : BOOLEAN,
              result : {"none", "ok", "duplicate", "cancelled", "stopped"}]

\* A server may still read through the index.
PublicSeen == meta.st = "public" \/ \E x \in Leased : schema[x].st = "public"

\* A server does not know of the index yet.
Unknown == meta.st # "none" /\ \E x \in Leased : schema[x].st = "none"

\* The types of the other variables.
DataType ==
    /\ row \in [Handle -> Value \cup {NoRow}]
    /\ entry \subseteq Entries
    /\ job \in JobRecs
    /\ reorg \in [Server -> ReorgRecs]
    /\ ended \in Nat
    /\ DOMAIN fill = Server
    /\ \A s \in Server : fill[s].next \in Nat /\ fill[s].add \subseteq Entries

\* A transaction touches its own row and the entries of its own row.
TxnInv ==
    \A s \in Server : txn[s] # NoTxn =>
        /\ txn[s].h \in Handle /\ txn[s].new \in Value \cup {NoRow}
        /\ txn[s].ver <= schema[s].ver
        /\ s \notin fresh => txn[s].ver <= valid[s]
        /\ RowKey(txn[s].h) \in txn[s].keys
        /\ \A e \in Entries : IndexKey(e) \in txn[s].del => e[3] = txn[s].h
        /\ \A e \in txn[s].add : /\ e \in Entries /\ e[3] = txn[s].h /\ e[2] = txn[s].new
                                 /\ e[1] <= meta.id

\* The states before each state of the chain.
Before(old, new) ==
    /\ new = "none" => old = "deleteReorg"
    /\ new = "deleteOnly" => old \in {"none", "writeOnly"}
    /\ new = "writeOnly" => old \in {"deleteOnly", "public"}
    /\ new = "writeReorg" => old = "writeOnly"
    /\ new = "public" => old = "writeReorg"
    /\ new = "deleteReorg" => old \in {"deleteOnly", "writeReorg"}

\* What a server under a lease has loaded.  convert2RollbackJob changes the state without a new
\* version, so a server may have the version and not the state; then all have the version.
ChainInv ==
    /\ \A s \in Leased :
        /\ schema[s].ver = meta.ver =>
             /\ schema[s].id = meta.id
             /\ \/ schema[s].st = meta.st
                \/ schema[s].st = "writeReorg" /\ meta.st = "deleteOnly" /\ Synced
        /\ schema[s].ver + 1 = meta.ver =>
             /\ Before(schema[s].st, meta.st)
             /\ schema[s].st # "none" => schema[s].id = meta.id
    /\ meta.st \in {"deleteOnly", "writeOnly"} =>
        \A s, x \in Leased : schema[s].ver + 1 = meta.ver /\ schema[x].ver + 1 = meta.ver =>
            schema[s].st = schema[x].st

\* What the transactions that will be let through do to the index.
LiveInv ==
    \A s \in Server : Live(s) =>
        /\ meta.st # "none" =>
             \A e \in entry : e[1] = meta.id /\ e[3] = txn[s].h => IndexKey(e) \in txn[s].del
        /\ txn[s].ver = meta.ver /\ Writable(meta.st) => Writes(txn[s])
        /\ txn[s].ver = meta.ver /\ meta.st \in {"none", "deleteReorg"} => txn[s].add = {}
        /\ txn[s].ver + 1 = meta.ver /\ meta.st = "writeReorg" => Writes(txn[s])
        /\ txn[s].ver + 1 = meta.ver /\ meta.st = "none" => txn[s].add = {}

\* No entry is wrong while the index exists; a new index is empty as long as a server does not
\* know it.
SoundInv ==
    /\ \A e \in entry : e[1] <= meta.id
    /\ meta.st # "none" => \A e \in entry : e[1] = meta.id => e[2] = row[e[3]]
    /\ Unknown =>
         /\ \A e \in entry : e[1] # meta.id
         /\ \A s \in Server : Live(s) => \A e \in txn[s].add : e[1] # meta.id

\* What is left to the delete-range worker is out of use.
RangeInv ==
    /\ ranges \cup gone \subseteq Nat
    /\ \A i \in ranges \cup gone : i <= meta.id /\ (i = meta.id => meta.st = "none")
    /\ \A s \in Server : Live(s) => \A e \in txn[s].add : e[1] \notin ranges \cup gone
    /\ \A e \in entry : e[1] \notin gone
    /\ job.state = "rollbackDone" \/ (job.state = "done" /\ job.type = "drop") => meta.st = "none"

\* A public index is complete and stays so.
PublicInv == PublicSeen => AllWrite /\ \A h \in Rows : Has(h)

\* The backfill: a row without an entry is still ahead of it.  That of a server that was shut
\* down does not count.
FillInv ==
    /\ meta.st = "writeReorg" /\ job.snap =>
        /\ Synced /\ AllWrite
        /\ \A h \in Rows : Has(h) \/ (job.start <= h /\ h <= job.end)
    /\ \A s \in Server \ closed : reorg[s].on =>
        /\ owner = s /\ meta.st = "writeReorg" /\ reorg[s].id = meta.id /\ Synced /\ AllWrite
        /\ \A h \in Rows : Has(h) \/ (/\ reorg[s].pos <= h /\ reorg[s].next <= h /\ h <= reorg[s].end
                                     /\ reorg[s].result # "ok")
    /\ \A s \in Server \ closed : fill[s].on =>
        /\ reorg[s].on /\ reorg[s].result = "none"
        /\ \A e \in fill[s].add : e[1] = meta.id /\ e[2] = row[e[3]] /\ RowKey(e[3]) \in fill[s].keys
        /\ \A h \in Rows : reorg[s].pos <= h /\ h < fill[s].next =>
                Has(h) \/ <<meta.id, row[h], h>> \in fill[s].add

\* After convert2RollbackJob the job is being rolled back as long as a server has the old state.
ConvertInv ==
    \A x \in Leased : schema[x].st = "writeReorg" /\ meta.st = "deleteOnly" => job.state = "rollingback"

\* The inductive invariant, with the one of the versions.
IndexInv ==
    DataType /\ TxnInv /\ ChainInv /\ LiveInv /\ SoundInv /\ RangeInv /\ PublicInv /\ FillInv

IInv == LagInv /\ IndexInv

------------------------------------------------------------------------------
(* Entries, keys and live transactions *)

\* Building an entry, and taking it apart.
LEMMA EntryMade ==
    ASSUME NEW i \in Nat, NEW v \in Value, NEW h \in Handle
    PROVE  /\ <<i, v, h>> \in Entries
           /\ <<i, v, h>>[1] = i /\ <<i, v, h>>[2] = v /\ <<i, v, h>>[3] = h
BY SMTT(60) DEF Entries

\* An entry is its index, value and handle.
LEMMA EntryIs ==
    ASSUME NEW e \in Entries
    PROVE  /\ e[1] \in Nat /\ e[2] \in Value /\ e[3] \in Handle
           /\ e = <<e[1], e[2], e[3]>>
BY SMTT(60) DEF Entries

\* The keys of a plain index tell its entries apart.
LEMMA KeyIs ==
    ASSUME ~Unique, NEW e \in Entries, NEW f \in Entries, IndexKey(e) = IndexKey(f)
    PROVE  e[3] = f[3]
<1>1. <<"index", e[1], e[2], e[3]>> = <<"index", f[1], f[2], f[3]>>
  BY DEF IndexKey
<1> QED BY SMTT(60), <1>1

\* The versions of a transaction that will be let through.
LEMMA LiveLag ==
    ASSUME LagInv, TxnInv, NEW s \in Server, Live(s)
    PROVE  /\ s \in fresh /\ txn[s] # NoTxn
           /\ txn[s].ver \in Nat /\ meta.ver \in Nat /\ txn[s].ver <= meta.ver
           /\ Synced => txn[s].ver = meta.ver \/ txn[s].ver + 1 = meta.ver
<1>1. s \in fresh /\ txn[s] # NoTxn /\ txn[s].ver >= valid[s]
  BY DEF Live, SchemaValid
<1>2. txn[s].ver \in Nat /\ meta.ver \in Nat /\ valid[s] \in Nat /\ schema[s].ver \in Nat
  BY DEF LagInv, VerType, Schemas
<1>3. schema[s].ver <= meta.ver /\ valid[s] + 1 >= schema[s].ver
  BY <1>1 DEF LagInv, LoadInv
<1>4. txn[s].ver <= schema[s].ver
  BY <1>1 DEF TxnInv
<1>5. Synced => schema[s].ver = meta.ver
  BY <1>1 DEF Synced
<1> QED BY SMTT(60), <1>1, <1>2, <1>3, <1>4, <1>5

------------------------------------------------------------------------------
(* Steps that leave the rows, the entries and the stored schema alone *)

\* Servers may load the stored schema, lose their lease or their transaction.
LEMMA FrameStep ==
    ASSUME IInv, UNCHANGED <<row, entry, meta>>,
           \A x \in Leased' : schema'[x] = meta \/ (x \in Leased /\ schema'[x] = schema[x]),
           \A x \in Server : Live(x)' => Live(x) /\ txn'[x] = txn[x]
    PROVE  /\ ChainInv' /\ LiveInv' /\ SoundInv' /\ PublicInv'
           /\ AllWrite => AllWrite'
           /\ Synced => Synced'
<1>1. Synced => Synced'
  BY DEF Synced, Leased
<1>2. \A t : Writes(t)' <=> Writes(t)
  BY DEF Writes
<1>3. AllWrite => AllWrite'
  BY <1>2 DEF AllWrite
<1>4. ASSUME NEW x \in Leased', schema'[x] # meta
      PROVE  x \in Leased /\ schema'[x] = schema[x]
  BY <1>4
<1>5. meta.ver \in Nat /\ meta.ver + 1 # meta.ver
  BY SMTT(60) DEF IInv, LagInv, VerType, Schemas
<1>6. ChainInv'
  <2>1. ASSUME NEW s \in Leased', schema'[s].ver = meta.ver
        PROVE  /\ schema'[s].id = meta.id
               /\ \/ schema'[s].st = meta.st
                  \/ schema'[s].st = "writeReorg" /\ meta.st = "deleteOnly" /\ Synced'
    BY <1>1, <1>4, <2>1 DEF IInv, IndexInv, ChainInv
  <2>2. ASSUME NEW s \in Leased', schema'[s].ver + 1 = meta.ver
        PROVE  /\ s \in Leased /\ schema'[s] = schema[s]
               /\ Before(schema'[s].st, meta.st)
               /\ schema'[s].st # "none" => schema'[s].id = meta.id
    BY SMTT(60), <1>4, <1>5, <2>2 DEF IInv, IndexInv, ChainInv
  <2>3. ASSUME meta.st \in {"deleteOnly", "writeOnly"}, NEW s \in Leased', NEW x \in Leased',
               schema'[s].ver + 1 = meta.ver, schema'[x].ver + 1 = meta.ver
        PROVE  schema'[s].st = schema'[x].st
    BY SMTT(60), <2>2, <2>3 DEF IInv, IndexInv, ChainInv
  <2> QED BY <2>1, <2>2, <2>3 DEF ChainInv
<1>7. LiveInv'
  BY <1>2 DEF IInv, IndexInv, LiveInv
<1>8. SoundInv'
  <2>1. Unknown' => Unknown
    BY <1>4 DEF Unknown
  <2> QED BY <2>1 DEF IInv, IndexInv, SoundInv
<1>9. PublicInv'
  <2>1. PublicSeen' => PublicSeen
    BY <1>4 DEF PublicSeen
  <2>2. Rows' = Rows /\ \A h : Has(h)' <=> Has(h)
    BY DEF Rows, Has
  <2> QED BY <1>3, <2>1, <2>2 DEF IInv, IndexInv, PublicInv
<1> QED BY <1>1, <1>3, <1>6, <1>7, <1>8, <1>9

\* A transaction that stays keeps to its row.
LEMMA TxnFrame ==
    ASSUME TxnInv, meta.id \in Nat, meta'.id \in Nat, meta.id <= meta'.id,
           \A x \in Server : txn'[x] # NoTxn =>
                /\ txn'[x] = txn[x]
                /\ txn[x].ver <= schema'[x].ver
                /\ x \notin fresh' => txn[x].ver <= valid'[x]
    PROVE  TxnInv'
<1>1. ASSUME NEW x \in Server, txn'[x] # NoTxn, NEW e \in txn[x].add
      PROVE  e \in Entries /\ e[3] = txn[x].h /\ e[2] = txn[x].new /\ e[1] <= meta'.id
  <2>1. e \in Entries /\ e[3] = txn[x].h /\ e[2] = txn[x].new /\ e[1] <= meta.id
    BY <1>1 DEF TxnInv
  <2>2. e[1] \in Nat
    BY <2>1, EntryIs
  <2>3. e[1] <= meta'.id
    BY SMTT(60), <2>1, <2>2
  <2> QED BY <2>1, <2>3
<1> QED BY SMTT(60), <1>1 DEF TxnInv

\* The backfill when rows, entries and its own state stay.
LEMMA FillFrame ==
    ASSUME FillInv, UNCHANGED <<row, entry, meta>>, AllWrite => AllWrite', Synced => Synced',
           meta.st = "writeReorg" /\ job'.snap => job.snap /\ job'.start = job.start /\ job'.end = job.end,
           closed \subseteq closed',
           \A x \in Server \ closed' : reorg'[x].on => reorg'[x] = reorg[x] /\ owner' = owner,
           \A x \in Server \ closed' : fill'[x].on => fill'[x] = fill[x] /\ reorg'[x] = reorg[x]
    PROVE  FillInv'
<1>1. Rows' = Rows /\ \A h : Has(h)' <=> Has(h)
  BY DEF Rows, Has
<1>2. ASSUME meta.st = "writeReorg", job'.snap
      PROVE  /\ Synced' /\ AllWrite'
             /\ \A h \in Rows : Has(h) \/ (job'.start <= h /\ h <= job'.end)
  BY <1>2 DEF FillInv
<1>3. ASSUME NEW s \in Server \ closed', reorg'[s].on
      PROVE  /\ owner' = s /\ meta.st = "writeReorg" /\ reorg'[s].id = meta.id /\ Synced' /\ AllWrite'
             /\ \A h \in Rows : Has(h) \/ (/\ reorg'[s].pos <= h /\ reorg'[s].next <= h /\ h <= reorg'[s].end
                                          /\ reorg'[s].result # "ok")
  BY SMTT(60), <1>3 DEF FillInv
<1>4. ASSUME NEW s \in Server \ closed', fill'[s].on
      PROVE  /\ reorg'[s].on /\ reorg'[s].result = "none"
             /\ \A e \in fill'[s].add : e[1] = meta.id /\ e[2] = row[e[3]] /\ RowKey(e[3]) \in fill'[s].keys
             /\ \A h \in Rows : reorg'[s].pos <= h /\ h < fill'[s].next =>
                     Has(h) \/ <<meta.id, row[h], h>> \in fill'[s].add
  BY SMTT(60), <1>4 DEF FillInv
<1> QED BY <1>1, <1>2, <1>3, <1>4 DEF FillInv

\* Together: the versions may move, transactions may be dropped, and the worker may do anything
\* but touch the backfill.
LEMMA QuietIndex ==
    ASSUME IInv, DataType', UNCHANGED <<row, entry, meta, ranges, gone>>,
           \A x \in Leased' : schema'[x] = meta \/ (x \in Leased /\ schema'[x] = schema[x]),
           \A x \in Server : Live(x)' => Live(x),
           \A x \in Server : txn'[x] # NoTxn =>
                /\ txn'[x] = txn[x]
                /\ txn[x].ver <= schema'[x].ver
                /\ x \notin fresh' => txn[x].ver <= valid'[x],
           job'.state \in {"done", "rollbackDone"} => job'.state = job.state /\ job'.type = job.type,
           meta.st = "writeReorg" /\ job'.snap => job.snap /\ job'.start = job.start /\ job'.end = job.end,
           closed \subseteq closed',
           \A x \in Server \ closed' : reorg'[x].on => reorg'[x] = reorg[x] /\ owner' = owner,
           \A x \in Server \ closed' : fill'[x].on => fill'[x] = fill[x] /\ reorg'[x] = reorg[x]
    PROVE  IndexInv'
<1>1. \A x \in Server : Live(x)' => Live(x) /\ txn'[x] = txn[x]
  BY DEF Live
<1>2. /\ ChainInv' /\ LiveInv' /\ SoundInv' /\ PublicInv'
      /\ AllWrite => AllWrite'
      /\ Synced => Synced'
  BY <1>1, FrameStep
<1>3. TxnInv'
  <2>1. meta.id \in Nat /\ meta'.id \in Nat
    BY DEF IInv, LagInv, VerType, Schemas
  <2>2. meta.id <= meta'.id
    BY SMTT(60), <2>1
  <2> QED BY <2>1, <2>2, TxnFrame DEF IInv, IndexInv
<1>4. RangeInv'
  BY <1>1 DEF IInv, IndexInv, RangeInv
<1>5. FillInv'
  BY <1>2, FillFrame DEF IInv, IndexInv
<1> QED BY <1>2, <1>3, <1>4, <1>5 DEF IndexInv

\* What the invariant says of an open transaction, for a server that stays as it is.
LEMMA TxnStays ==
    ASSUME IInv
    PROVE  \A x \in Server : txn[x] # NoTxn =>
                /\ txn[x].ver <= schema[x].ver
                /\ x \notin fresh => txn[x].ver <= valid[x]
BY DEF IInv, IndexInv, TxnInv

\* A job from the queue has not started.
LEMMA NewJobIs ==
    ASSUME NEW n \in Nat \ {0}
    PROVE  NewJob(n) \in JobRecs /\ NewJob(n).snap = FALSE /\ NewJob(n).state = "none"
<1>1. NoJob \in JobRecs /\ NoJob.snap = FALSE /\ NoJob.state = "none"
  BY SMTT(60) DEF NoJob, JobRecs, States
<1>2. ASSUME n <= Len(Jobs) PROVE Jobs[n] \in {"none", "add", "drop"}
  BY SMTT(60), <1>2, JobAssumption
<1>3. ASSUME NEW y \in {"none", "add", "drop"}
      PROVE  LET j == [NoJob EXCEPT !.type = y] IN j \in JobRecs /\ j.snap = FALSE /\ j.state = "none"
  BY <1>1 DEF JobRecs
<1> QED BY <1>1, <1>2, <1>3 DEF NewJob

\* ADMIN CANCEL, and the steps in which the worker only moves.
LEMMA MoveSteps ==
    ASSUME IInv, NEW s, Cancel \/ Wake(s) \/ Rest(s) \/ Publish(s)
    PROVE  IndexInv'
<1>1. UNCHANGED <<row, entry, schema, valid, fresh, granted, txn, meta, owner, ended, ranges, gone, reorg, fill, closed>>
  BY DEF Cancel, Wake, Rest, Publish, dataVars, hand
<1>2. /\ job' \in JobRecs /\ job'.snap = job.snap /\ job'.start = job.start /\ job'.end = job.end
      /\ job'.state \in {"done", "rollbackDone"} => job'.state = job.state /\ job'.type = job.type
  <2>1. job \in JobRecs
    BY DEF IInv, IndexInv, DataType
  <2>2. CASE job' = job
    BY <2>1, <2>2
  <2>3. CASE job' = [job EXCEPT !.state = "cancelling"]
    BY <2>1, <2>3 DEF JobRecs
  <2> QED BY <2>2, <2>3 DEF Cancel, Wake, Rest, Publish
<1>3. DataType'
  BY <1>1, <1>2 DEF IInv, IndexInv, DataType
<1>4. Leased' = Leased /\ \A x \in Server : Live(x)' <=> Live(x)
  BY <1>1 DEF Leased, Live, SchemaValid
<1> QED BY <1>1, <1>2, <1>3, <1>4, TxnStays, QuietIndex

\* A cancelled job ends.
LEMMA EndStep == ASSUME IInv, NEW s \in Server, EndCancelled(s) PROVE IndexInv'
<1>1. UNCHANGED <<row, entry, schema, valid, fresh, granted, txn, meta, owner, ranges, gone, reorg, fill, closed>>
  BY DEF EndCancelled, dataVars, hand
<1>2. ended \in Nat /\ ended + 2 \in Nat \ {0} /\ ended + 1 \in Nat
  <2>1. ended \in Nat
    BY DEF IInv, IndexInv, DataType
  <2> QED BY SMTT(60), <2>1
<1>3. job' \in JobRecs /\ job'.snap = FALSE /\ job'.state = "none" /\ ended' \in Nat
  BY <1>2, NewJobIs DEF EndCancelled, MoveToHistory
<1>4. DataType'
  BY <1>1, <1>3 DEF IInv, IndexInv, DataType
<1>5. Leased' = Leased /\ \A x \in Server : Live(x)' <=> Live(x)
  BY <1>1 DEF Leased, Live, SchemaValid
<1> QED BY <1>1, <1>3, <1>4, <1>5, TxnStays, QuietIndex

\* A job that is done ends, and its index goes to the delete-range worker.  By then everybody
\* works without the index.
LEMMA FinishStep == ASSUME IInv, NEW s \in Server, Finish(s) PROVE IndexInv'
<1>1. UNCHANGED <<row, entry, schema, valid, fresh, granted, txn, meta, owner, gone, reorg, fill, closed>>
  BY DEF Finish, dataVars, hand
<1>2. ended \in Nat /\ ended + 2 \in Nat \ {0} /\ ended + 1 \in Nat
  <2>1. ended \in Nat
    BY DEF IInv, IndexInv, DataType
  <2> QED BY SMTT(60), <2>1
<1>3. job' \in JobRecs /\ job'.snap = FALSE /\ job'.state = "none" /\ ended' \in Nat
  BY <1>2, NewJobIs DEF Finish, MoveToHistory
<1>4. DataType'
  BY <1>1, <1>3 DEF IInv, IndexInv, DataType
<1>5. Leased' = Leased /\ \A x \in Server : Live(x)' <=> Live(x)
  BY <1>1 DEF Leased, Live, SchemaValid
<1>6. /\ ChainInv' /\ LiveInv' /\ SoundInv' /\ PublicInv'
      /\ AllWrite => AllWrite'
      /\ Synced => Synced'
  BY <1>1, <1>5, FrameStep
<1>7. FillInv'
  BY <1>1, <1>3, <1>6, FillFrame DEF IInv, IndexInv
<1>8. TxnInv'
  BY <1>1 DEF IInv, IndexInv, TxnInv
<1>9. CASE ranges' = ranges
  BY <1>1, <1>3, <1>5, <1>9, <1>6, <1>4, <1>7, <1>8 DEF IInv, IndexInv, RangeInv
<1>10. CASE ranges' # ranges
  <2>1. ranges' = ranges \cup {meta.id} /\ meta.st = "none"
    BY <1>10 DEF Finish, IInv, IndexInv, RangeInv
  <2>2. Synced
    BY ServerAssumption DEF IInv, LagInv, WorkerInv, Finish, Runs
  <2>3. ASSUME NEW x \in Server, Live(x) PROVE txn[x].add = {}
    BY <2>1, <2>2, <2>3, LiveLag DEF IInv, IndexInv, LiveInv
  <2>4. meta.id \in Nat
    BY DEF IInv, LagInv, VerType, Schemas
  <2>5. meta.id <= meta.id
    BY SMTT(60), <2>4
  <2>6. RangeInv'
    BY <1>1, <1>3, <1>5, <2>1, <2>3, <2>4, <2>5 DEF IInv, IndexInv, RangeInv
  <2> QED BY <1>4, <1>6, <1>7, <1>8, <2>6 DEF IndexInv
<1> QED BY <1>9, <1>10

\* Leases run out, and the transactions under them are dropped.
LEMMA ExpireQuiet ==
    ASSUME IInv, NEW v, LeasesExpire(v),
           UNCHANGED <<row, entry, schema, valid, meta, ranges, gone, job, ended, reorg, fill, closed>>,
           \A x \in Server \ closed : reorg[x].on => owner' = owner
    PROVE  IndexInv'
<1>1. DataType'
  BY DEF IInv, IndexInv, DataType
<1>2. fresh' \subseteq fresh /\ Leased' \subseteq Leased
  BY DEF LeasesExpire, Leased
<1>3. \A x \in Server : txn'[x] # NoTxn => txn'[x] = txn[x] /\ x \in fresh'
  BY DEF LeasesExpire
<1>4. \A x \in Server : Live(x)' => Live(x)
  BY <1>2, <1>3 DEF Live, SchemaValid
<1> QED BY <1>1, <1>2, <1>3, <1>4, TxnStays, QuietIndex

\* The wait of the worker ends.
LEMMA WaitedIndex == ASSUME IInv, NEW s \in Server, Waited(s) PROVE IndexInv'
<1>1. UNCHANGED <<row, entry, schema, valid, meta, owner, ranges, gone, job, ended, reorg, fill, closed>>
  BY DEF Waited, hand
<1>2. CASE LeasesExpire(worker[s].ver)
  BY <1>1, <1>2, ExpireQuiet
<1>3. CASE UNCHANGED <<fresh, granted, txn>>
  <2>1. DataType'
    BY <1>1 DEF IInv, IndexInv, DataType
  <2>2. Leased' = Leased /\ \A x \in Server : Live(x)' <=> Live(x)
    BY <1>1, <1>3 DEF Leased, Live, SchemaValid
  <2> QED BY <1>1, <1>3, <2>1, <2>2, TxnStays, QuietIndex
<1> QED BY <1>2, <1>3 DEF Waited

\* A new owner: no backfill is left of the old one but that of a server that was shut down.
LEMMA CampaignIndex == ASSUME IInv, NEW s \in Server, Campaign(s) PROVE IndexInv'
<1>1. UNCHANGED <<row, entry, schema, valid, meta, ranges, gone, job, ended, reorg, fill, closed>>
  BY DEF Campaign, hand
<1>2. \A x \in Server \ closed : ~reorg[x].on
  BY ServerAssumption DEF Campaign, IInv, IndexInv, FillInv
<1>3. CASE LeasesExpire(meta.ver)
  BY <1>1, <1>2, <1>3, ExpireQuiet
<1>4. CASE UNCHANGED <<fresh, granted, txn>>
  <2>1. DataType'
    BY <1>1 DEF IInv, IndexInv, DataType
  <2>2. Leased' = Leased /\ \A x \in Server : Live(x)' <=> Live(x)
    BY <1>1, <1>4 DEF Leased, Live, SchemaValid
  <2> QED BY <1>1, <1>2, <1>4, <2>1, <2>2, TxnStays, QuietIndex
<1> QED BY <1>3, <1>4 DEF Campaign

\* A server that stops takes its transaction with it, and its backfill does not count any more.
LEMMA DownIndex ==
    ASSUME IInv, NEW s \in Server,
           UNCHANGED <<row, entry, meta, ranges, gone, job, ended>>,
           schema' = [schema EXCEPT ![s] = [ver |-> 0, st |-> "none", id |-> 0]],
           valid' = [valid EXCEPT ![s] = 0],
           fresh' = fresh \ {s}, granted' = granted \ {s}, txn' = [txn EXCEPT ![s] = NoTxn],
           owner # s => owner' = owner,
           closed \subseteq closed',
           \/ closed' = closed \cup {s} /\ UNCHANGED <<reorg, fill>>
           \/ reorg' = [reorg EXCEPT ![s] = NoReorg] /\ fill' = [fill EXCEPT ![s] = NoFill]
    PROVE  IndexInv'
<1>1. /\ DOMAIN schema = Server /\ DOMAIN valid = Server /\ DOMAIN txn = Server /\ DOMAIN fill = Server
      /\ reorg \in [Server -> ReorgRecs]
      /\ fresh \subseteq Server /\ granted \subseteq Server
  BY DEF IInv, LagInv, VerType, IndexInv, DataType
<1>2. /\ txn'[s] = NoTxn
      /\ \A x \in Server \ {s} : /\ schema'[x] = schema[x] /\ valid'[x] = valid[x] /\ txn'[x] = txn[x]
                                 /\ (x \in fresh' <=> x \in fresh)
  BY <1>1
<1>3. NoReorg \in ReorgRecs /\ ~NoReorg.on /\ ~NoFill.on /\ NoFill.next \in Nat /\ NoFill.add \subseteq Entries
  BY SMTT(60) DEF NoReorg, NoFill, ReorgRecs
<1>4. /\ DataType'
      /\ \A x \in Server \ closed' : /\ reorg'[x].on => x # s /\ reorg'[x] = reorg[x]
                                     /\ fill'[x].on => fill'[x] = fill[x] /\ reorg'[x] = reorg[x]
  <2>1. CASE closed' = closed \cup {s} /\ UNCHANGED <<reorg, fill>>
    BY <2>1 DEF IInv, IndexInv, DataType
  <2>2. CASE reorg' = [reorg EXCEPT ![s] = NoReorg] /\ fill' = [fill EXCEPT ![s] = NoFill]
    <3>1. reorg' \in [Server -> ReorgRecs]
      BY <1>1, <1>3, <2>2
    <3>2. /\ reorg'[s] = NoReorg /\ fill'[s] = NoFill
          /\ \A x \in Server \ {s} : reorg'[x] = reorg[x] /\ fill'[x] = fill[x]
      BY <1>1, <2>2
    <3>3. DOMAIN fill' = Server /\ \A x \in Server : fill'[x].next \in Nat /\ fill'[x].add \subseteq Entries
      BY <1>1, <1>3, <2>2, <3>2 DEF IInv, IndexInv, DataType
    <3>4. DataType'
      BY <3>1, <3>3 DEF IInv, IndexInv, DataType
    <3> QED BY <1>3, <3>2, <3>4
  <2> QED BY <2>1, <2>2
<1>5. \A x \in Leased' : x \in Leased /\ schema'[x] = schema[x]
  BY <1>1, <1>2 DEF Leased
<1>6. \A x \in Server : Live(x)' => Live(x)
  BY <1>2 DEF Live, SchemaValid
<1>7. \A x \in Server \ closed' : reorg'[x].on => reorg'[x] = reorg[x] /\ owner' = owner
  <2> SUFFICES ASSUME NEW x \in Server \ closed', reorg'[x].on
               PROVE  reorg'[x] = reorg[x] /\ owner' = owner
    OBVIOUS
  <2>1. x # s /\ reorg'[x] = reorg[x]
    BY <1>4
  <2>2. reorg[x].on /\ x \in Server \ closed
    BY <2>1
  <2>3. owner = x
    BY <2>2 DEF IInv, IndexInv, FillInv
  <2> QED BY <2>1, <2>3
<1>8. \A x \in Server : txn'[x] # NoTxn =>
                /\ txn'[x] = txn[x]
                /\ txn[x].ver <= schema'[x].ver
                /\ x \notin fresh' => txn[x].ver <= valid'[x]
  BY <1>2, TxnStays
<1> QED BY <1>4, <1>5, <1>6, <1>7, <1>8, QuietIndex

LEMMA CrashIndex == ASSUME IInv, NEW s \in Server, Crash(s) PROVE IndexInv'
<1>1. /\ UNCHANGED <<row, entry, meta, ranges, gone, job, ended, closed>>
      /\ schema' = [schema EXCEPT ![s] = [ver |-> 0, st |-> "none", id |-> 0]]
      /\ valid' = [valid EXCEPT ![s] = 0]
      /\ fresh' = fresh \ {s} /\ granted' = granted \ {s} /\ txn' = [txn EXCEPT ![s] = NoTxn]
      /\ owner # s => owner' = owner
      /\ reorg' = [reorg EXCEPT ![s] = NoReorg] /\ fill' = [fill EXCEPT ![s] = NoFill]
  BY DEF Crash, hand
<1>2. closed \subseteq closed'
  BY <1>1
<1> QED BY <1>1, <1>2, DownIndex

LEMMA CloseIndex == ASSUME IInv, NEW s \in Server, Close(s) PROVE IndexInv'
<1>1. /\ UNCHANGED <<row, entry, meta, ranges, gone, job, ended, reorg, fill>>
      /\ schema' = [schema EXCEPT ![s] = [ver |-> 0, st |-> "none", id |-> 0]]
      /\ valid' = [valid EXCEPT ![s] = 0]
      /\ fresh' = fresh \ {s} /\ granted' = granted \ {s} /\ txn' = [txn EXCEPT ![s] = NoTxn]
      /\ owner # s => owner' = owner
      /\ closed' = closed \cup {s}
  BY DEF Close
<1>2. closed \subseteq closed'
  BY <1>1
<1> QED BY <1>1, <1>2, DownIndex

\* A server loads the stored schema; a transaction from before that its validator would now let
\* through, it would have let through before.
LEMMA LoadIndex == ASSUME IInv, NEW s \in Server, Reload(s) \/ Load(s) \/ Validate(s) PROVE IndexInv'
<1>1. UNCHANGED <<row, entry, meta, owner, ranges, gone, job, ended, reorg, fill, txn, closed>>
  BY DEF Reload, Load, Validate, hand
<1>2. DataType'
  BY <1>1 DEF IInv, IndexInv, DataType
<1>3. /\ schema \in [Server -> Schemas] /\ valid \in [Server -> Nat]
      /\ fresh \subseteq Server /\ granted \subseteq Server
      /\ meta.ver \in Nat /\ schema[s].ver \in Nat /\ valid[s] \in Nat /\ txn[s].ver \in Nat
      /\ valid[s] <= schema[s].ver /\ schema[s].ver <= meta.ver
  BY DEF IInv, LagInv, VerType, LoadInv, Schemas
<1>4. ASSUME \A x \in Server \ {s} : /\ schema'[x] = schema[x] /\ valid'[x] = valid[x]
                                     /\ (x \in fresh' <=> x \in fresh)
                                     /\ (x \in granted' <=> x \in granted),
             fresh' \subseteq Server, granted' \subseteq Server,
             s \in Leased' => schema'[s] = meta \/ (s \in Leased /\ schema'[s] = schema[s]),
             Live(s)' => Live(s),
             txn[s] # NoTxn => txn[s].ver <= schema'[s].ver /\ (s \notin fresh' => txn[s].ver <= valid'[s])
      PROVE  IndexInv'
  <2>1. \A x \in Leased' : schema'[x] = meta \/ (x \in Leased /\ schema'[x] = schema[x])
    BY <1>4 DEF Leased
  <2>2. \A x \in Server : Live(x)' => Live(x)
    BY <1>1, <1>4 DEF Live, SchemaValid
  <2>3. \A x \in Server : txn'[x] # NoTxn =>
                /\ txn'[x] = txn[x]
                /\ txn[x].ver <= schema'[x].ver
                /\ x \notin fresh' => txn[x].ver <= valid'[x]
    BY <1>1, <1>4, TxnStays
  <2> QED BY <1>1, <1>2, <2>1, <2>2, <2>3, QuietIndex
<1>5. CASE Reload(s)
  <2>1. txn[s] = NoTxn /\ schema' = [schema EXCEPT ![s] = meta] /\ valid' = [valid EXCEPT ![s] = meta.ver]
        /\ fresh' = fresh \cup {s} /\ granted' = granted
    BY <1>5 DEF Reload
  <2>2. schema'[s] = meta /\ ~Live(s)'
    BY <1>1, <1>3, <2>1 DEF Live
  <2> QED BY <1>3, <1>4, <2>1, <2>2
<1>6. CASE Load(s)
  <2>1. schema' = [schema EXCEPT ![s] = meta] /\ valid' = valid /\ fresh' = fresh /\ granted' = granted \cup {s}
    BY <1>6 DEF Load
  <2>2. schema'[s] = meta /\ (Live(s)' => Live(s))
    BY <1>1, <1>3, <2>1 DEF Live, SchemaValid
  <2>3. txn[s] # NoTxn => txn[s].ver <= schema[s].ver /\ (s \notin fresh => txn[s].ver <= valid[s])
    BY TxnStays
  <2>4. txn[s] # NoTxn => txn[s].ver <= meta.ver
    BY SMTT(60), <1>3, <2>3
  <2> QED BY <1>3, <1>4, <2>1, <2>2, <2>3, <2>4
<1>7. CASE Validate(s)
  <2>1. /\ schema' = schema /\ valid' = [valid EXCEPT ![s] = schema[s].ver]
        /\ fresh' = IF s \in granted THEN fresh \cup {s} ELSE fresh \ {s}
        /\ granted' = granted \ {s} /\ valid[s] # schema[s].ver
    BY <1>7 DEF Validate
  <2>2. valid'[s] = schema[s].ver /\ (s \in fresh' => s \in granted) /\ s \notin granted'
    BY <1>3, <2>1
  <2>3. txn[s] # NoTxn => txn[s].ver <= schema[s].ver /\ (s \notin fresh => txn[s].ver <= valid[s])
    BY TxnStays
  <2>4. Live(s)' => Live(s)
    <3>1. Live(s)' => txn[s] # NoTxn /\ txn[s].ver >= schema[s].ver
      BY <1>1, <2>2 DEF Live, SchemaValid
    <3>2. Live(s)' => txn[s] # NoTxn /\ txn[s].ver >= valid[s] /\ s \in fresh
      BY SMTT(60), <1>3, <2>1, <2>3, <3>1
    <3> QED BY <3>2 DEF Live, SchemaValid
  <2>5. \A x \in Server \ {s} : /\ valid'[x] = valid[x]
                              /\ (x \in fresh' <=> x \in fresh)
                              /\ (x \in granted' <=> x \in granted)
    BY SMTT(60), <1>3, <2>1
  <2>6. fresh' \subseteq Server /\ granted' \subseteq Server
    BY <1>3, <2>1
  <2> QED BY <1>4, <2>1, <2>2, <2>3, <2>4, <2>5, <2>6 DEF Leased
<1> QED BY <1>5, <1>6, <1>7

------------------------------------------------------------------------------
(* Transactions of the clients *)

\* What the schema of a server under a lease lets it do, whatever state the index is in.
LEMMA LoadedSchema ==
    ASSUME IInv, NEW s \in fresh
    PROVE  /\ s \in Server /\ schema[s] \in Schemas
           /\ Deletable(schema[s].st) => schema[s].id = meta.id
           /\ Writable(schema[s].st) => meta.st # "none" /\ ~Unknown
           /\ meta.st # "none" /\ ~Deletable(schema[s].st) => Unknown
           /\ schema[s].ver = meta.ver /\ Writable(meta.st) => Writable(schema[s].st)
           /\ schema[s].ver = meta.ver /\ meta.st \in {"none", "deleteReorg"} => ~Writable(schema[s].st)
           /\ schema[s].ver + 1 = meta.ver /\ meta.st = "writeReorg" => Writable(schema[s].st)
           /\ schema[s].ver + 1 = meta.ver /\ meta.st = "none" => ~Writable(schema[s].st)
           /\ PublicSeen => Writable(schema[s].st)
           /\ Synced /\ meta.st = "writeReorg" => Writable(schema[s].st)
<1>1. /\ s \in Server /\ s \in Leased /\ schema[s] \in Schemas /\ schema[s].st \in States /\ meta.st \in States
      /\ schema[s].ver \in Nat /\ meta.ver \in Nat
  BY DEF IInv, LagInv, VerType, Schemas, Leased
<1>2. \A x \in Leased : /\ schema[x].ver \in Nat
                        /\ schema[x].ver <= meta.ver /\ schema[x].ver + 1 >= meta.ver
  BY DEF IInv, LagInv, VerType, LoadInv, Schemas, Leased
<1>3. \A x \in Leased : schema[x].ver = meta.ver \/ schema[x].ver + 1 = meta.ver
  BY SMTT(60), <1>1, <1>2
<1>4. ~(schema[s].ver = meta.ver /\ schema[s].ver + 1 = meta.ver)
  BY SMTT(60), <1>1
<1>5. \A x \in Leased :
        /\ schema[x].ver = meta.ver =>
             /\ schema[x].id = meta.id
             /\ \/ schema[x].st = meta.st
                \/ schema[x].st = "writeReorg" /\ meta.st = "deleteOnly" /\ Synced
        /\ schema[x].ver + 1 = meta.ver =>
             /\ Before(schema[x].st, meta.st)
             /\ schema[x].st # "none" => schema[x].id = meta.id
  BY DEF IInv, IndexInv, ChainInv
<1>6. Unknown => meta.st = "deleteOnly" /\ ~Synced /\ (schema[s].ver + 1 = meta.ver => schema[s].st = "none")
  <2>1. SUFFICES ASSUME NEW x \in Leased, schema[x].st = "none", meta.st # "none"
                 PROVE  meta.st = "deleteOnly" /\ ~Synced /\ (schema[s].ver + 1 = meta.ver => schema[s].st = "none")
    BY DEF Unknown
  <2>2. schema[x].ver # meta.ver
    BY <1>5, <2>1
  <2>3. schema[x].ver + 1 = meta.ver
    BY <1>3, <2>2
  <2>4. meta.st = "deleteOnly"
    BY <1>1, <1>5, <2>1, <2>3 DEF Before, States
  <2>5. ~Synced
    BY <2>2 DEF Synced, Leased
  <2>6. schema[s].ver + 1 = meta.ver => schema[s].st = "none"
    BY <1>1, <2>1, <2>3, <2>4 DEF IInv, IndexInv, ChainInv
  <2> QED BY <2>4, <2>5, <2>6
<1>7. PublicSeen => \/ meta.st = "public"
                    \/ meta.st = "writeOnly" /\ (schema[s].ver + 1 = meta.ver => schema[s].st = "public")
  <2>1. SUFFICES ASSUME NEW x \in Leased, schema[x].st = "public", meta.st # "public"
                 PROVE  meta.st = "writeOnly" /\ (schema[s].ver + 1 = meta.ver => schema[s].st = "public")
    BY DEF PublicSeen
  <2>2. schema[x].ver # meta.ver
    BY <1>5, <2>1
  <2>3. schema[x].ver + 1 = meta.ver
    BY <1>3, <2>2
  <2>4. meta.st = "writeOnly"
    BY <1>1, <1>5, <2>1, <2>3 DEF Before, States
  <2>5. schema[s].ver + 1 = meta.ver => schema[s].st = "public"
    BY <1>1, <2>1, <2>3, <2>4 DEF IInv, IndexInv, ChainInv
  <2> QED BY <2>4, <2>5
<1>8. schema[s].st = "none" /\ meta.st # "none" => Unknown
  BY <1>1 DEF Unknown
<1>9. Synced => schema[s].ver = meta.ver
  BY DEF Synced
<1>10. CASE schema[s].ver = meta.ver
  BY <1>1, <1>4, <1>5, <1>6, <1>7, <1>8, <1>10 DEF Deletable, Writable
<1>11. CASE schema[s].ver + 1 = meta.ver
  <2>1. Before(schema[s].st, meta.st) /\ schema[s].ver # meta.ver
    BY <1>1, <1>4, <1>5, <1>11
  <2>2. Writable(schema[s].st) => meta.st # "none"
    BY <2>1 DEF Before, Writable
  <2>3. PublicSeen => Writable(schema[s].st)
    BY <1>7, <1>11, <2>1 DEF Before, Writable
  <2>4. /\ meta.st = "writeReorg" => Writable(schema[s].st)
        /\ meta.st = "none" => ~Writable(schema[s].st)
    BY <2>1 DEF Before, Writable
  <2>5. Writable(schema[s].st) => ~Unknown
    BY <1>6, <1>11 DEF Writable
  <2> QED BY <1>1, <1>5, <1>8, <1>9, <1>11, <2>1, <2>2, <2>3, <2>4, <2>5 DEF Deletable
<1> QED BY <1>1, <1>3, <1>10, <1>11

\* A transaction prepared under a schema that writes the index maintains it in full.
LEMMA BeginShape ==
    ASSUME IInv, ~Unique, NEW s \in Server, NEW h \in Handle, NEW v \in Value \cup {NoRow}, Begin(s, h, v)
    PROVE  LET t == txn'[s] IN
           /\ t.h = h /\ t.new = v /\ t.ver = schema[s].ver /\ RowKey(h) \in t.keys
           /\ t.del = RemovedKeys(schema[s], h)
           /\ t.add = AddedEntries(schema[s], h, v)
           /\ \A e \in Entries : IndexKey(e) \in t.del => e[3] = h
           /\ \A e \in t.add : /\ e \in Entries /\ e[3] = h /\ e[2] = v /\ e[1] = meta.id
                               /\ Writable(schema[s].st)
           /\ Writable(schema[s].st) => Writes(t)
           /\ meta.st # "none" =>
                \A e \in entry : e[1] = meta.id /\ e[3] = h => IndexKey(e) \in t.del
<1> DEFINE t == txn'[s]
           sc == schema[s]
<1>1. s \in fresh /\ UNCHANGED <<row, entry, meta, closed>>
  BY DEF Begin, ddlVars, hand
<1>2. /\ t.h = h /\ t.new = v /\ t.ver = sc.ver /\ RowKey(h) \in t.keys
      /\ t.del = RemovedKeys(sc, h)
      /\ t.add = AddedEntries(sc, h, v)
  <2>1. DOMAIN txn = Server
    BY DEF IInv, LagInv, VerType
  <2> QED BY <2>1 DEF Begin
<1>3. /\ meta.id \in Nat /\ row[h] \in Value \cup {NoRow}
      /\ Deletable(sc.st) => sc.id = meta.id
  BY <1>1, LoadedSchema DEF IInv, LagInv, VerType, Schemas, IndexInv, DataType
<1>4. ASSUME NEW e \in Entries, IndexKey(e) \in t.del PROVE e[3] = h
  <2>1. Deletable(sc.st) /\ row[h] # NoRow /\ IndexKey(e) = IndexKey(<<sc.id, row[h], h>>)
    BY <1>2, <1>4 DEF RemovedKeys
  <2>2. <<meta.id, row[h], h>> \in Entries /\ <<meta.id, row[h], h>>[3] = h
    BY <1>3, <2>1, EntryMade
  <2> QED BY <1>3, <2>1, <2>2, KeyIs
<1>5. ASSUME NEW e \in t.add
      PROVE  e \in Entries /\ e[3] = h /\ e[2] = v /\ e[1] = meta.id /\ Writable(sc.st)
  <2>1. Writable(sc.st) /\ v # NoRow /\ e = <<sc.id, v, h>>
    BY <1>2, <1>5 DEF AddedEntries
  <2>2. sc.id = meta.id
    BY <1>3, <2>1 DEF Writable, Deletable
  <2>3. v \in Value
    BY <2>1
  <2> QED BY <1>3, <2>1, <2>2, <2>3, EntryMade
<1>6. ASSUME Writable(sc.st) PROVE Writes(t)
  <2>1. Deletable(sc.st) /\ sc.id = meta.id
    BY <1>3, <1>6 DEF Writable, Deletable
  <2>2. v # NoRow => <<meta.id, v, h>> \in t.add
    BY <1>2, <1>6, <2>1 DEF AddedEntries
  <2>3. row[h] # NoRow => IndexKey(<<meta.id, row[h], h>>) \in t.del
    BY <1>2, <2>1 DEF RemovedKeys
  <2> QED BY <1>1, <1>2, <2>2, <2>3 DEF Writes
<1>7. ASSUME meta.st # "none", NEW e \in entry, e[1] = meta.id, e[3] = h
      PROVE  IndexKey(e) \in t.del
  <2>1. CASE ~Deletable(sc.st)
    <3>1. Unknown
      BY <1>1, <1>7, <2>1, LoadedSchema
    <3> QED BY <1>7, <3>1 DEF IInv, IndexInv, SoundInv
  <2>2. CASE Deletable(sc.st)
    <3>1. e \in Entries /\ e[2] = row[h]
      BY <1>7 DEF IInv, IndexInv, DataType, SoundInv
    <3>2. e = <<meta.id, row[h], h>> /\ row[h] \in Value
      BY <1>7, <3>1, EntryIs
    <3>3. row[h] # NoRow
      BY <3>2, TableAssumption
    <3> QED BY <1>2, <1>3, <2>2, <3>2, <3>3 DEF RemovedKeys
  <2> QED BY <2>1, <2>2
<1> QED BY <1>2, <1>4, <1>5, <1>6, <1>7

\* A transaction begins.
LEMMA BeginStep ==
    ASSUME IInv, ~Unique, NEW s \in Server, NEW h \in Handle, NEW v \in Value \cup {NoRow}, Begin(s, h, v)
    PROVE  IndexInv'
<1> DEFINE t == txn'[s]
           sc == schema[s]
<1>1. /\ UNCHANGED <<row, entry, schema, valid, fresh, granted, fill, meta, owner, job, ended, ranges, gone, reorg, closed>>
      /\ s \in fresh /\ \A x \in Server \ {s} : txn'[x] = txn[x]
  BY DEF Begin, ddlVars, hand, IInv, LagInv, VerType
<1>2. /\ t.h = h /\ t.new = v /\ t.ver = sc.ver /\ RowKey(h) \in t.keys
      /\ \A e \in Entries : IndexKey(e) \in t.del => e[3] = h
      /\ \A e \in t.add : /\ e \in Entries /\ e[3] = h /\ e[2] = v /\ e[1] = meta.id
                          /\ Writable(sc.st)
      /\ Writable(sc.st) => Writes(t)
      /\ meta.st # "none" =>
           \A e \in entry : e[1] = meta.id /\ e[3] = h => IndexKey(e) \in t.del
  BY SMTT(60), BeginShape
<1> HIDE DEF t
<1>3. /\ Writable(sc.st) => meta.st # "none" /\ ~Unknown
      /\ sc.ver = meta.ver /\ Writable(meta.st) => Writable(sc.st)
      /\ sc.ver = meta.ver /\ meta.st \in {"none", "deleteReorg"} => ~Writable(sc.st)
      /\ sc.ver + 1 = meta.ver /\ meta.st = "writeReorg" => Writable(sc.st)
      /\ sc.ver + 1 = meta.ver /\ meta.st = "none" => ~Writable(sc.st)
      /\ PublicSeen => Writable(sc.st)
      /\ Synced /\ meta.st = "writeReorg" => Writable(sc.st)
  BY <1>1, LoadedSchema
<1>4. sc.ver \in Nat /\ meta.id \in Nat /\ sc.ver <= sc.ver /\ meta.id <= meta.id
  <2>1. sc.ver \in Nat /\ meta.id \in Nat
    BY DEF IInv, LagInv, VerType, Schemas
  <2> QED BY SMTT(60), <2>1
<1>5. /\ Leased' = Leased /\ (Synced' <=> Synced) /\ (Unknown' <=> Unknown) /\ (PublicSeen' <=> PublicSeen)
      /\ Rows' = Rows /\ \A k : Has(k)' <=> Has(k)
  BY <1>1 DEF Leased, Synced, Unknown, PublicSeen, Rows, Has
<1>6. \A x \in Server \ {s} : Live(x)' <=> Live(x)
  BY <1>1 DEF Live, SchemaValid
<1>7. \A u : Writes(u)' <=> (/\ u.new # NoRow => <<meta.id, u.new, u.h>> \in u.add
                             /\ row[u.h] # NoRow => IndexKey(<<meta.id, row[u.h], u.h>>) \in u.del)
  BY <1>1 DEF Writes
<1>8. AllWrite /\ Writable(sc.st) => AllWrite'
  <2>1. SUFFICES ASSUME AllWrite, Writable(sc.st), NEW x \in Server, Live(x)'
                 PROVE  Writes(txn[x])'
    BY DEF AllWrite
  <2>2. CASE x = s
    BY <1>1, <1>2, <2>1, <2>2 DEF t, Writes
  <2>3. CASE x # s
    BY <1>1, <1>6, <2>1, <2>3 DEF AllWrite, Writes
  <2> QED BY <2>2, <2>3
<1>9. DataType' /\ ChainInv'
  BY <1>1, <1>5 DEF IInv, IndexInv, DataType, ChainInv
<1>10. TxnInv'
  <2>1. SUFFICES ASSUME NEW x \in Server, txn'[x] # NoTxn
                 PROVE  /\ txn'[x].h \in Handle /\ txn'[x].new \in Value \cup {NoRow}
                        /\ txn'[x].ver <= schema[x].ver
                        /\ x \notin fresh => txn'[x].ver <= valid[x]
                        /\ RowKey(txn'[x].h) \in txn'[x].keys
                        /\ \A e \in Entries : IndexKey(e) \in txn'[x].del => e[3] = txn'[x].h
                        /\ \A e \in txn'[x].add : /\ e \in Entries /\ e[3] = txn'[x].h /\ e[2] = txn'[x].new
                                                  /\ e[1] <= meta.id
    BY <1>1 DEF TxnInv
  <2>2. CASE x = s
    BY <1>1, <1>2, <1>4, <2>2 DEF t
  <2>3. CASE x # s
    BY SMTT(60), <1>1, <2>1, <2>3 DEF IInv, IndexInv, TxnInv
  <2> QED BY <2>2, <2>3
<1>11. LiveInv'
  <2>1. SUFFICES ASSUME NEW x \in Server, Live(x)'
                 PROVE  /\ meta.st # "none" =>
                             \A e \in entry : e[1] = meta.id /\ e[3] = txn'[x].h => IndexKey(e) \in txn'[x].del
                        /\ txn'[x].ver = meta.ver /\ Writable(meta.st) => Writes(txn[x])'
                        /\ txn'[x].ver = meta.ver /\ meta.st \in {"none", "deleteReorg"} => txn'[x].add = {}
                        /\ txn'[x].ver + 1 = meta.ver /\ meta.st = "writeReorg" => Writes(txn[x])'
                        /\ txn'[x].ver + 1 = meta.ver /\ meta.st = "none" => txn'[x].add = {}
    BY <1>1 DEF LiveInv
  <2>2. CASE x = s
    <3>1. Writable(sc.st) => Writes(txn[x])'
      BY <1>1, <1>2, <2>2 DEF t, Writes
    <3>2. ~Writable(sc.st) => t.add = {}
      BY <1>2
    <3> QED BY <1>2, <1>3, <2>2, <3>1, <3>2 DEF t
  <2>3. CASE x # s
    <3>1. Live(x) /\ txn'[x] = txn[x] /\ (Writes(txn[x])' <=> Writes(txn[x]))
      BY <1>1, <1>6, <2>1, <2>3 DEF Writes
    <3> QED BY <3>1 DEF IInv, IndexInv, LiveInv
  <2> QED BY <2>2, <2>3
<1>12. SoundInv'
  <2>1. ASSUME Unknown, NEW x \in Server, Live(x)', NEW e \in txn'[x].add PROVE e[1] # meta.id
    <3>1. CASE x = s
      BY <1>2, <1>3, <2>1, <3>1 DEF t
    <3>2. CASE x # s
      BY <1>1, <1>6, <2>1, <3>2 DEF IInv, IndexInv, SoundInv
    <3> QED BY <3>1, <3>2
  <2> QED BY <1>1, <1>5, <2>1 DEF IInv, IndexInv, SoundInv
<1>13. RangeInv'
  <2>1. ASSUME NEW x \in Server, Live(x)', NEW e \in txn'[x].add PROVE e[1] \notin ranges \cup gone
    <3>1. CASE x = s
      BY <1>2, <1>3, <2>1, <3>1 DEF t, IInv, IndexInv, RangeInv
    <3>2. CASE x # s
      BY <1>1, <1>6, <2>1, <3>2 DEF IInv, IndexInv, RangeInv
    <3> QED BY <3>1, <3>2
  <2> QED BY <1>1, <2>1 DEF IInv, IndexInv, RangeInv
<1>14. PublicInv'
  BY <1>3, <1>5, <1>8 DEF IInv, IndexInv, PublicInv
<1>15. FillInv'
  <2>1. ASSUME meta.st = "writeReorg", AllWrite, Synced PROVE AllWrite'
    BY <1>3, <1>8, <2>1
  <2>2. ASSUME meta.st = "writeReorg", job.snap PROVE AllWrite'
    BY <2>1, <2>2 DEF IInv, IndexInv, FillInv
  <2>3. ASSUME NEW x \in Server \ closed, reorg[x].on PROVE AllWrite'
    BY <2>1, <2>3 DEF IInv, IndexInv, FillInv
  <2>4. FillInv
    BY DEF IInv, IndexInv
  <2>5. ASSUME meta.st = "writeReorg", job.snap
        PROVE  /\ Synced' /\ AllWrite'
               /\ \A k \in Rows : Has(k) \/ (job.start <= k /\ k <= job.end)
    BY <1>5, <2>2, <2>4, <2>5 DEF FillInv
  <2>6. ASSUME NEW x \in Server \ closed, reorg[x].on
        PROVE  /\ owner = x /\ reorg[x].id = meta.id /\ meta.st = "writeReorg" /\ Synced' /\ AllWrite'
               /\ \A k \in Rows : Has(k) \/ (/\ reorg[x].pos <= k /\ reorg[x].next <= k /\ k <= reorg[x].end
                                            /\ reorg[x].result # "ok")
    BY <1>5, <2>3, <2>4, <2>6 DEF FillInv
  <2>7. ASSUME NEW x \in Server \ closed, fill[x].on
        PROVE  /\ reorg[x].on /\ reorg[x].result = "none"
               /\ \A e \in fill[x].add : e[1] = meta.id /\ e[2] = row[e[3]] /\ RowKey(e[3]) \in fill[x].keys
               /\ \A k \in Rows : reorg[x].pos <= k /\ k < fill[x].next =>
                        Has(k) \/ <<meta.id, row[k], k>> \in fill[x].add
    BY <2>4, <2>7 DEF FillInv
  <2>8. UNCHANGED <<row, meta, owner, job, reorg, fill, closed>>
    BY <1>1
  <2> QED BY <1>5, <2>5, <2>6, <2>7, <2>8 DEF FillInv
<1> QED BY <1>9, <1>10, <1>11, <1>12, <1>13, <1>14, <1>15 DEF IndexInv

\* A commit that is let through: what it does to the rows, the entries and the others.
LEMMA CommitShape ==
    ASSUME IInv, NEW s \in Server, Commit(s), Live(s)
    PROVE  /\ txn[s].h \in Handle /\ txn[s].new \in Value \cup {NoRow}
           /\ row' = [row EXCEPT ![txn[s].h] = txn[s].new]
           /\ \A e \in Entries : e[3] # txn[s].h => (e \in entry' <=> e \in entry)
           /\ \A e \in entry' : e \in entry \/ e \in txn[s].add
           /\ meta.st # "none" =>
                \A e \in entry' : e[1] = meta.id /\ e[3] = txn[s].h => e[2] = txn[s].new
           /\ txn[s].add \subseteq entry' /\ entry' \subseteq Entries
           /\ DOMAIN txn' = Server /\ DOMAIN fill' = Server
           /\ \A x \in Server : txn'[x] # NoTxn => txn'[x] = txn[x] /\ txn[x].h # txn[s].h
           /\ \A x \in Server : fill'[x] = NoFill \/ (fill'[x] = fill[x] /\ RowKey(txn[s].h) \notin fill[x].keys)
<1>1. /\ row' = [row EXCEPT ![txn[s].h] = txn[s].new]
      /\ entry' = {e \in entry : IndexKey(e) \notin txn[s].del} \cup txn[s].add
      /\ Overtake(txn[s].keys)
  BY DEF Commit, Live
<1>2. /\ txn[s].h \in Handle /\ txn[s].new \in Value \cup {NoRow}
      /\ RowKey(txn[s].h) \in txn[s].keys
      /\ \A e \in Entries : IndexKey(e) \in txn[s].del => e[3] = txn[s].h
      /\ \A e \in txn[s].add : e \in Entries /\ e[3] = txn[s].h /\ e[2] = txn[s].new
  BY DEF IInv, IndexInv, TxnInv, Live
<1>3. entry \subseteq Entries
  BY DEF IInv, IndexInv, DataType
<1>4. \A e \in Entries : e[3] # txn[s].h => (e \in entry' <=> e \in entry)
  BY <1>1, <1>2
<1>5. ASSUME meta.st # "none", NEW e \in entry', e[1] = meta.id, e[3] = txn[s].h
      PROVE  e[2] = txn[s].new
  <2>1. e \in entry => IndexKey(e) \in txn[s].del
    BY <1>5 DEF IInv, IndexInv, LiveInv
  <2> QED BY <1>1, <1>2, <2>1
<1>6. ASSUME NEW x \in Server, txn'[x] # NoTxn PROVE txn'[x] = txn[x] /\ txn[x].h # txn[s].h
  <2>1. txn'[x] = txn[x] /\ txn[x].keys \cap txn[s].keys = {}
    BY <1>1, <1>6 DEF Overtake
  <2>2. RowKey(txn[x].h) \in txn[x].keys
    BY <1>6, <2>1 DEF IInv, IndexInv, TxnInv
  <2> QED BY <1>2, <2>1, <2>2
<1>7. DOMAIN txn' = Server /\ DOMAIN fill' = Server
  BY <1>1 DEF Overtake
<1>8. \A x \in Server : fill'[x] = NoFill \/ (fill'[x] = fill[x] /\ RowKey(txn[s].h) \notin fill[x].keys)
  BY <1>1, <1>2 DEF Overtake
<1> QED BY <1>1, <1>2, <1>3, <1>4, <1>5, <1>6, <1>7, <1>8

\* A transaction commits its row and its entries.
LEMMA CommitStep == ASSUME IInv, NEW s \in Server, Commit(s), Live(s) PROVE IndexInv'
<1> DEFINE t == txn[s]
<1>1. UNCHANGED <<schema, valid, fresh, granted, meta, owner, job, ended, ranges, gone, reorg, closed>>
  BY DEF Commit, ddlVars, hand
<1>2. /\ t.h \in Handle /\ t.new \in Value \cup {NoRow}
      /\ row' = [row EXCEPT ![t.h] = t.new]
      /\ \A e \in Entries : e[3] # t.h => (e \in entry' <=> e \in entry)
      /\ \A e \in entry' : e \in entry \/ e \in t.add
      /\ meta.st # "none" => \A e \in entry' : e[1] = meta.id /\ e[3] = t.h => e[2] = t.new
      /\ t.add \subseteq entry' /\ entry' \subseteq Entries
      /\ DOMAIN txn' = Server /\ DOMAIN fill' = Server
      /\ \A x \in Server : txn'[x] # NoTxn => txn'[x] = txn[x] /\ txn[x].h # t.h
      /\ \A x \in Server : fill'[x] = NoFill \/ (fill'[x] = fill[x] /\ RowKey(t.h) \notin fill[x].keys)
  BY CommitShape
<1>3. row \in [Handle -> Value \cup {NoRow}] /\ meta.id \in Nat
  BY DEF IInv, LagInv, VerType, Schemas, IndexInv, DataType
<1>4. row'[t.h] = t.new /\ \A h \in Handle : h # t.h => row'[h] = row[h]
  BY <1>2, <1>3
<1>5. \A e \in t.add : e[1] <= meta.id
  BY DEF IInv, IndexInv, TxnInv, Live
<1> HIDE DEF t
<1>6. \A x \in Server : Live(x)' => Live(x) /\ txn'[x] = txn[x] /\ txn[x].h # t.h
  BY <1>1, <1>2 DEF Live, SchemaValid
<1>7. /\ Leased' = Leased /\ (Synced' <=> Synced) /\ (Unknown' <=> Unknown) /\ (PublicSeen' <=> PublicSeen)
  BY <1>1 DEF Leased, Synced, Unknown, PublicSeen
<1>8. ASSUME NEW x \in Server, Live(x)'
      PROVE  Live(x) /\ (Writes(txn[x])' <=> Writes(txn[x]))
  <2>1. Live(x) /\ txn'[x] = txn[x] /\ txn[x].h # t.h
    BY <1>6, <1>8
  <2>2. txn[x].h \in Handle
    BY <2>1 DEF IInv, IndexInv, TxnInv, Live
  <2>3. row'[txn[x].h] = row[txn[x].h]
    BY <1>4, <2>1, <2>2
  <2> QED BY <1>1, <2>1, <2>3 DEF Writes
<1>9. AllWrite => AllWrite'
  BY <1>8 DEF AllWrite
<1>10. ASSUME NEW h \in Rows', h # t.h PROVE h \in Rows /\ row'[h] = row[h] /\ (Has(h)' <=> Has(h))
  <2>1. h \in Handle /\ row'[h] = row[h] /\ row[h] \in Value
    BY <1>3, <1>4, <1>10 DEF Rows
  <2>2. <<meta.id, row[h], h>> \in Entries /\ <<meta.id, row[h], h>>[3] = h
    BY <1>3, <2>1, EntryMade
  <2>3. <<meta.id, row[h], h>> \in entry' <=> <<meta.id, row[h], h>> \in entry
    BY <1>2, <1>10, <2>2
  <2> QED BY <1>1, <1>10, <2>1, <2>3 DEF Rows, Has
<1>11. ASSUME AllWrite, NEW h \in Rows', h = t.h PROVE Has(h)'
  <2>1. t.new # NoRow
    BY <1>4, <1>11 DEF Rows
  <2>2. <<meta.id, t.new, t.h>> \in t.add
    BY <1>11, <2>1 DEF AllWrite, Writes, t
  <2> QED BY <1>1, <1>2, <1>4, <1>11, <2>2 DEF Has
<1>12. DataType'
  <2>1. row' \in [Handle -> Value \cup {NoRow}]
    BY <1>2, <1>3
  <2>2. NoFill.next \in Nat /\ NoFill.add \subseteq Entries
    BY SMTT(60) DEF NoFill
  <2>3. \A x \in Server : fill'[x].next \in Nat /\ fill'[x].add \subseteq Entries
    BY <1>2, <2>2 DEF IInv, IndexInv, DataType
  <2> QED BY <1>1, <1>2, <2>1, <2>3 DEF IInv, IndexInv, DataType
<1>13. ChainInv'
  BY <1>1, <1>7 DEF IInv, IndexInv, ChainInv
<1>14. TxnInv'
  <2>1. meta.id <= meta.id
    BY SMTT(60), <1>3
  <2> QED BY <1>1, <1>2, <1>3, <2>1, TxnStays, TxnFrame DEF IInv, IndexInv
<1>15. LiveInv'
  <2>1. ASSUME NEW x \in Server, Live(x)', meta.st # "none", NEW e \in entry', e[1] = meta.id, e[3] = txn[x].h
        PROVE  IndexKey(e) \in txn[x].del
    <3>1. e \in entry
      BY <1>2, <1>6, <2>1
    <3> QED BY <1>6, <2>1, <3>1 DEF IInv, IndexInv, LiveInv
  <2> QED BY <1>1, <1>6, <1>8, <2>1 DEF IInv, IndexInv, LiveInv
<1>16. SoundInv'
  <2>1. \A e \in entry' : e[1] <= meta.id
    BY <1>2, <1>5 DEF IInv, IndexInv, SoundInv
  <2>2. ASSUME meta.st # "none", NEW e \in entry', e[1] = meta.id PROVE e[2] = row'[e[3]]
    <3>1. e \in Entries /\ e[3] \in Handle
      BY <1>2, <2>2, EntryIs
    <3>2. CASE e[3] = t.h
      BY <1>2, <1>4, <2>2, <3>2
    <3>3. CASE e[3] # t.h
      <4>1. e \in entry
        BY <1>2, <2>2, <3>1, <3>3
      <4> QED BY <1>4, <2>2, <3>1, <3>3, <4>1 DEF IInv, IndexInv, SoundInv
    <3> QED BY <3>2, <3>3
  <2>3. ASSUME Unknown
        PROVE  /\ \A e \in entry' : e[1] # meta.id
               /\ \A x \in Server : Live(x)' => \A e \in txn'[x].add : e[1] # meta.id
    BY <1>2, <1>6, <2>3 DEF IInv, IndexInv, SoundInv, t
  <2> QED BY <1>1, <1>7, <2>1, <2>2, <2>3 DEF SoundInv
<1>17. RangeInv'
  <2>1. \A e \in entry' : e[1] \notin gone
    BY <1>2 DEF IInv, IndexInv, RangeInv, t
  <2> QED BY <1>1, <1>6, <2>1 DEF IInv, IndexInv, RangeInv
<1>18. PublicInv'
  <2>1. ASSUME PublicSeen, NEW h \in Rows' PROVE Has(h)'
    BY <1>10, <1>11, <2>1 DEF IInv, IndexInv, PublicInv
  <2> QED BY <1>7, <1>9, <2>1 DEF IInv, IndexInv, PublicInv
<1>19. FillInv'
  <2>1. FillInv
    BY DEF IInv, IndexInv
  <2>2. ASSUME meta.st = "writeReorg", job.snap
        PROVE  /\ Synced' /\ AllWrite'
               /\ \A h \in Rows' : Has(h)' \/ (job.start <= h /\ h <= job.end)
    BY <1>7, <1>9, <1>10, <1>11, <2>1, <2>2 DEF FillInv
  <2>3. ASSUME NEW x \in Server \ closed, reorg[x].on
        PROVE  /\ owner = x /\ reorg[x].id = meta.id /\ meta.st = "writeReorg" /\ Synced' /\ AllWrite' /\ AllWrite
               /\ \A h \in Rows' : Has(h)' \/ (/\ reorg[x].pos <= h /\ reorg[x].next <= h /\ h <= reorg[x].end
                                              /\ reorg[x].result # "ok")
    <3>1. /\ owner = x /\ reorg[x].id = meta.id /\ meta.st = "writeReorg" /\ Synced' /\ AllWrite' /\ AllWrite
          /\ \A h \in Rows : Has(h) \/ (/\ reorg[x].pos <= h /\ reorg[x].next <= h /\ h <= reorg[x].end
                                       /\ reorg[x].result # "ok")
      BY <1>7, <1>9, <2>1, <2>3 DEF FillInv
    <3> QED BY <1>10, <1>11, <3>1
  <2>4. ASSUME NEW x \in Server \ closed, fill'[x].on
        PROVE  /\ reorg[x].on /\ reorg[x].result = "none"
               /\ \A e \in fill'[x].add : e[1] = meta.id /\ e[2] = row'[e[3]] /\ RowKey(e[3]) \in fill'[x].keys
               /\ \A h \in Rows' : reorg[x].pos <= h /\ h < fill'[x].next =>
                        Has(h)' \/ <<meta.id, row'[h], h>> \in fill'[x].add
    <3>1. fill'[x] = fill[x] /\ RowKey(t.h) \notin fill[x].keys
      <4>1. ~NoFill.on
        BY DEF NoFill
      <4> QED BY <1>2, <2>4, <4>1
    <3>2. /\ reorg[x].on /\ reorg[x].result = "none"
          /\ \A e \in fill[x].add : e[1] = meta.id /\ e[2] = row[e[3]] /\ RowKey(e[3]) \in fill[x].keys
          /\ \A h \in Rows : reorg[x].pos <= h /\ h < fill[x].next =>
                   Has(h) \/ <<meta.id, row[h], h>> \in fill[x].add
      BY <2>1, <2>4, <3>1 DEF FillInv
    <3>3. ASSUME NEW e \in fill[x].add PROVE e[2] = row'[e[3]]
      <4>1. e \in Entries /\ e[3] # t.h
        BY <3>1, <3>2, <3>3 DEF IInv, IndexInv, DataType
      <4>2. e[3] \in Handle
        BY <4>1, EntryIs
      <4> QED BY <1>4, <3>2, <3>3, <4>1, <4>2
    <3>4. AllWrite
      BY <2>3, <3>2
    <3>5. ASSUME NEW h \in Rows', reorg[x].pos <= h, h < fill[x].next
          PROVE  Has(h)' \/ <<meta.id, row'[h], h>> \in fill[x].add
      BY <1>10, <1>11, <3>2, <3>4, <3>5
    <3> QED BY <3>1, <3>2, <3>3, <3>5
  <2>5. UNCHANGED <<meta, owner, job, reorg, closed>>
    BY <1>1
  <2> QED BY <2>2, <2>3, <2>4, <2>5 DEF FillInv
<1> QED BY <1>12, <1>13, <1>14, <1>15, <1>16, <1>17, <1>18, <1>19 DEF IndexInv

\* A commit that is refused.
LEMMA RefusedStep == ASSUME IInv, NEW s \in Server, Commit(s), ~Live(s) PROVE IndexInv'
<1>1. /\ UNCHANGED <<row, entry, schema, valid, fresh, granted, fill, meta, owner, job, ended, ranges, gone, reorg, closed>>
      /\ txn' = [txn EXCEPT ![s] = NoTxn]
  BY DEF Commit, Live, ddlVars, hand
<1>2. DataType'
  BY <1>1 DEF IInv, IndexInv, DataType
<1>3. \A x \in Server : txn'[x] # NoTxn => txn'[x] = txn[x]
  BY <1>1 DEF IInv, LagInv, VerType
<1>4. Leased' = Leased /\ \A x \in Server : Live(x)' => Live(x)
  BY <1>1, <1>3 DEF Leased, Live, SchemaValid
<1> QED BY <1>1, <1>2, <1>3, <1>4, TxnStays, QuietIndex

------------------------------------------------------------------------------
(* The backfill *)

\* A step of the backfill that leaves everything else alone.
LEMMA ReorgQuiet ==
    ASSUME IInv, DataType', FillInv',
           UNCHANGED <<row, entry, schema, valid, fresh, granted, txn, meta, ranges, gone, closed>>,
           job'.state \in {"done", "rollbackDone"} => job'.state = job.state /\ job'.type = job.type
    PROVE  IndexInv'
<1>1. Leased' = Leased /\ \A x \in Server : Live(x)' <=> Live(x)
  BY DEF Leased, Live, SchemaValid
<1>2. ChainInv' /\ LiveInv' /\ SoundInv' /\ PublicInv'
  BY <1>1, FrameStep
<1>3. TxnInv'
  BY DEF IInv, IndexInv, TxnInv
<1>4. RangeInv'
  BY <1>1 DEF IInv, IndexInv, RangeInv
<1> QED BY <1>2, <1>3, <1>4 DEF IndexInv

\* What the backfill relies on, in a step of the job alone.
LEMMA SameIndex ==
    ASSUME UNCHANGED <<row, entry, schema, valid, fresh, granted, txn, meta, closed>>
    PROVE  /\ (Synced' <=> Synced) /\ (AllWrite' <=> AllWrite)
           /\ Rows' = Rows /\ \A h : Has(h)' <=> Has(h)
<1>1. (Synced' <=> Synced) /\ Rows' = Rows /\ \A h : Has(h)' <=> Has(h)
  BY DEF Synced, Rows, Has
<1>2. AllWrite' <=> AllWrite
  BY DEF AllWrite, Live, SchemaValid, Writes
<1> QED BY <1>1, <1>2

\* The goroutine starts where the progress was stored.
LEMMA StartReorgStep == ASSUME IInv, NEW s \in Server, StartReorg(s) PROVE IndexInv'
<1> DEFINE c == reorg[s].cancel \/ job.state = "cancelling"
<1>1. /\ UNCHANGED <<row, entry, schema, valid, fresh, granted, txn, meta, owner, job, ended, ranges, gone, fill, closed>>
      /\ reorg' = [reorg EXCEPT ![s] = [on |-> TRUE, id |-> meta.id, pos |-> job.start, end |-> job.end,
                                        next |-> job.start, cancel |-> c, result |-> "none"]]
      /\ meta.st = "writeReorg" /\ job.snap /\ owner = s /\ ~reorg[s].on
  BY DEF StartReorg, Reorganizes, Runs, dataVars, hand
<1>2. /\ reorg \in [Server -> ReorgRecs] /\ job.start \in Nat /\ job.end \in Nat /\ c \in BOOLEAN
      /\ meta.id \in Nat
  BY DEF IInv, LagInv, VerType, Schemas, IndexInv, DataType, JobRecs
<1> HIDE DEF c
<1>3. reorg' \in [Server -> ReorgRecs]
  BY <1>1, <1>2 DEF ReorgRecs
<1>4. /\ reorg'[s].id = meta.id /\ reorg'[s].pos = job.start /\ reorg'[s].next = job.start /\ reorg'[s].end = job.end
      /\ reorg'[s].result = "none" /\ \A x \in Server \ {s} : reorg'[x] = reorg[x]
  BY <1>1, <1>2
<1>5. DataType'
  BY <1>1, <1>3 DEF IInv, IndexInv, DataType
<1>6. FillInv'
  <2>1. /\ (Synced' <=> Synced) /\ (AllWrite' <=> AllWrite)
        /\ Rows' = Rows /\ \A h : Has(h)' <=> Has(h)
    BY <1>1, SameIndex
  <2>2. FillInv
    BY DEF IInv, IndexInv
  <2>3. /\ Synced /\ AllWrite
        /\ \A h \in Rows : Has(h) \/ (job.start <= h /\ h <= job.end)
    BY <1>1, <2>2 DEF FillInv
  <2>4. ASSUME NEW x \in Server \ closed, reorg'[x].on
        PROVE  /\ owner = x /\ reorg'[x].id = meta.id /\ meta.st = "writeReorg"
               /\ \A h \in Rows : Has(h) \/ (/\ reorg'[x].pos <= h /\ reorg'[x].next <= h /\ h <= reorg'[x].end
                                            /\ reorg'[x].result # "ok")
    <3>1. CASE x = s
      BY <1>1, <1>4, <2>3, <3>1
    <3>2. CASE x # s
      BY <1>4, <2>2, <2>4, <3>2 DEF FillInv
    <3> QED BY <3>1, <3>2
  <2>5. \A x \in Server \ closed : fill[x].on => reorg'[x] = reorg[x]
    BY <1>1, <1>4, <2>2 DEF FillInv
  <2>6. ASSUME NEW x \in Server \ closed, fill[x].on
        PROVE  /\ reorg'[x].on /\ reorg'[x].result = "none"
               /\ \A e \in fill[x].add : e[1] = meta.id /\ e[2] = row[e[3]] /\ RowKey(e[3]) \in fill[x].keys
               /\ \A h \in Rows : reorg'[x].pos <= h /\ h < fill[x].next =>
                        Has(h) \/ <<meta.id, row[h], h>> \in fill[x].add
    BY <2>2, <2>5, <2>6 DEF FillInv
  <2> QED BY <1>1, <2>1, <2>3, <2>4, <2>6 DEF FillInv
<1> QED BY <1>1, <1>5, <1>6, ReorgQuiet

\* The progress is stored.
LEMMA ReorgTimeoutStep == ASSUME IInv, NEW s \in Server, ReorgTimeout(s) PROVE IndexInv'
<1> DEFINE c == reorg[s].cancel \/ job.state = "cancelling"
           st == IF job.state = "cancelling" THEN job.state ELSE "running"
<1>1. /\ UNCHANGED <<row, entry, schema, valid, fresh, granted, txn, meta, owner, ended, ranges, gone, fill, closed>>
      /\ job' = [job EXCEPT !.start = reorg[s].next, !.state = st]
      /\ reorg' = [reorg EXCEPT ![s].cancel = c]
      /\ meta.st = "writeReorg" /\ job.snap /\ reorg[s].on /\ s \notin closed
  BY DEF ReorgTimeout, Reorganizes, Runs, dataVars, hand, IInv, LagInv, WorkerInv
<1>2. /\ reorg \in [Server -> ReorgRecs] /\ job \in JobRecs /\ c \in BOOLEAN /\ reorg[s].next \in Nat
      /\ st \in {"running", "cancelling"}
  BY DEF IInv, IndexInv, DataType, ReorgRecs
<1> HIDE DEF c, st
<1>3. /\ reorg' \in [Server -> ReorgRecs]
      /\ \A x \in Server : /\ reorg'[x].on = reorg[x].on /\ reorg'[x].id = reorg[x].id
                           /\ reorg'[x].pos = reorg[x].pos
                           /\ reorg'[x].end = reorg[x].end /\ reorg'[x].next = reorg[x].next
                           /\ reorg'[x].result = reorg[x].result
  BY <1>1, <1>2 DEF ReorgRecs
<1>4. /\ job' \in JobRecs /\ job'.start = reorg[s].next /\ job'.end = job.end /\ job'.state = st
  BY <1>1, <1>2 DEF JobRecs
<1>5. DataType'
  BY <1>1, <1>3, <1>4 DEF IInv, IndexInv, DataType
<1>6. FillInv'
  <2>1. /\ (Synced' <=> Synced) /\ (AllWrite' <=> AllWrite)
        /\ Rows' = Rows /\ \A h : Has(h)' <=> Has(h)
    BY <1>1, SameIndex
  <2>2. FillInv
    BY DEF IInv, IndexInv
  <2>3. /\ Synced /\ AllWrite
        /\ \A h \in Rows : Has(h) \/ h <= job.end
        /\ \A h \in Rows : Has(h) \/ reorg[s].next <= h
    BY <1>1, <2>2 DEF FillInv
  <2>4. ASSUME NEW x \in Server \ closed, reorg'[x].on
        PROVE  /\ owner = x /\ reorg'[x].id = meta.id
               /\ \A h \in Rows : Has(h) \/ (/\ reorg'[x].pos <= h /\ reorg'[x].next <= h /\ h <= reorg'[x].end
                                            /\ reorg'[x].result # "ok")
    BY SMTT(60), <1>3, <2>2, <2>4 DEF FillInv
  <2>5. ASSUME NEW x \in Server \ closed, fill[x].on
        PROVE  /\ reorg'[x].on /\ reorg'[x].result = "none"
               /\ \A e \in fill[x].add : e[1] = meta.id /\ e[2] = row[e[3]] /\ RowKey(e[3]) \in fill[x].keys
               /\ \A h \in Rows : reorg'[x].pos <= h /\ h < fill[x].next =>
                        Has(h) \/ <<meta.id, row[h], h>> \in fill[x].add
    BY SMTT(60), <1>3, <2>2, <2>5 DEF FillInv
  <2>6. UNCHANGED <<row, meta, owner, fill, closed>> /\ meta.st = "writeReorg"
    BY <1>1
  <2> QED BY <1>4, <2>1, <2>3, <2>4, <2>5, <2>6 DEF FillInv
<1> QED BY <1>1, <1>2, <1>4, <1>5, <1>6, ReorgQuiet

\* A backfill transaction commits, on a server that was not shut down.
LEMMA FillCommitStep == ASSUME IInv, NEW s \in Server \ closed, FillCommit(s) PROVE IndexInv'
<1> DEFINE f == fill[s]
           r == reorg[s]
           done == f.next > RegionEnd(r.pos, r.end)
           nr == IF r.cancel THEN [r EXCEPT !.result = "cancelled"]
                 ELSE [r EXCEPT !.pos = f.next,
                                !.next = IF done THEN f.next ELSE @,
                                !.result = IF f.next > r.end THEN "ok" ELSE @]
<1>1. /\ UNCHANGED <<row, schema, valid, fresh, granted, meta, owner, job, ended, ranges, gone, closed>>
      /\ f.on /\ entry' = entry \cup f.add
      /\ \A x \in Server : txn'[x] # NoTxn => txn'[x] = txn[x]
      /\ fill' = [fill EXCEPT ![s] = NoFill]
      /\ reorg' = [reorg EXCEPT ![s] = nr]
  BY DEF FillCommit
<1>2. /\ r \in ReorgRecs /\ r.pos \in Nat /\ r.end \in Nat /\ r.next \in Nat
      /\ f.next \in Nat /\ f.add \subseteq Entries
      /\ DOMAIN fill = Server /\ reorg \in [Server -> ReorgRecs] /\ meta.id \in Nat
      /\ row \in [Handle -> Value \cup {NoRow}] /\ done \in BOOLEAN
  BY SMTT(60) DEF IInv, LagInv, VerType, Schemas, IndexInv, DataType, ReorgRecs
<1> HIDE DEF done
<1>3. /\ nr \in ReorgRecs /\ nr.on = r.on /\ nr.id = r.id /\ nr.end = r.end
      /\ \/ nr.result = "cancelled" /\ nr.pos = r.pos /\ nr.next = r.next
         \/ /\ nr.pos = f.next /\ nr.next \in {r.next, f.next}
            /\ nr.result = "ok" => f.next > r.end \/ r.result = "ok"
  BY <1>2 DEF ReorgRecs
<1> HIDE DEF nr
<1>4. /\ r.on /\ r.result = "none"
      /\ \A e \in f.add : e[1] = meta.id /\ e[2] = row[e[3]]
      /\ \A h \in Rows : r.pos <= h /\ h < f.next => Has(h) \/ <<meta.id, row[h], h>> \in f.add
      /\ owner = s /\ meta.st = "writeReorg" /\ r.id = meta.id /\ Synced /\ AllWrite
      /\ \A h \in Rows : Has(h) \/ (r.pos <= h /\ r.next <= h /\ h <= r.end)
  BY <1>1 DEF IInv, IndexInv, FillInv
<1>5. /\ reorg'[s] = nr /\ fill'[s] = NoFill /\ DOMAIN fill' = Server
      /\ \A x \in Server \ {s} : reorg'[x] = reorg[x] /\ fill'[x] = fill[x]
  BY <1>1, <1>2
<1> HIDE DEF f, r
<1>6. /\ \A x \in Server : Live(x)' => Live(x) /\ txn'[x] = txn[x]
      /\ Leased' = Leased /\ (Synced' <=> Synced) /\ (Unknown' <=> Unknown) /\ (PublicSeen' <=> PublicSeen)
      /\ Rows' = Rows /\ \A h : Has(h) => Has(h)'
  BY <1>1 DEF Live, SchemaValid, Leased, Synced, Unknown, PublicSeen, Rows, Has
<1>7. \A t : Writes(t)' <=> Writes(t)
  BY <1>1 DEF Writes
<1>8. AllWrite'
  BY <1>4, <1>6, <1>7 DEF AllWrite
<1>9. DataType'
  <2>1. reorg' \in [Server -> ReorgRecs] /\ entry' \subseteq Entries
    BY <1>1, <1>2, <1>3 DEF IInv, IndexInv, DataType
  <2>2. NoFill.next \in Nat /\ NoFill.add \subseteq Entries
    BY SMTT(60) DEF NoFill
  <2>3. \A x \in Server : fill'[x].next \in Nat /\ fill'[x].add \subseteq Entries
    BY <1>5, <2>2 DEF IInv, IndexInv, DataType
  <2> QED BY <1>1, <1>5, <2>1, <2>3 DEF IInv, IndexInv, DataType
<1>10. ChainInv'
  BY <1>1, <1>6 DEF IInv, IndexInv, ChainInv
<1>11. meta.id <= meta.id
  BY SMTT(60), <1>2
<1>12. TxnInv'
  BY <1>1, <1>2, <1>11, TxnStays, TxnFrame DEF IInv, IndexInv
<1>13. LiveInv'
  <2>1. ASSUME NEW x \in Server, Live(x)', NEW e \in f.add, e[3] = txn[x].h
        PROVE  IndexKey(e) \in txn[x].del
    <3>1. e = <<meta.id, row[e[3]], e[3]>> /\ row[e[3]] \in Value
      BY <1>2, <1>4, <2>1, EntryIs
    <3>2. row[e[3]] # NoRow
      BY <3>1, TableAssumption
    <3>3. Writes(txn[x])
      BY <1>4, <1>6, <2>1 DEF AllWrite
    <3> QED BY <2>1, <3>1, <3>2, <3>3 DEF Writes
  <2> QED BY <1>1, <1>6, <1>7, <2>1 DEF IInv, IndexInv, LiveInv
<1>14. ~Unknown
  <2>1. SUFFICES ASSUME NEW x \in Leased, schema[x].st = "none" PROVE FALSE
    BY DEF Unknown
  <2>2. schema[x].ver = meta.ver
    BY <1>4, <2>1 DEF Synced, Leased
  <2> QED BY <1>4, <2>1, <2>2 DEF IInv, IndexInv, ChainInv
<1>15. SoundInv'
  BY <1>1, <1>4, <1>6, <1>11, <1>14 DEF IInv, IndexInv, SoundInv
<1>16. RangeInv'
  <2>1. meta.id \notin gone
    BY <1>4 DEF IInv, IndexInv, RangeInv
  <2> QED BY <1>1, <1>4, <1>6, <2>1 DEF IInv, IndexInv, RangeInv
<1>17. PublicInv'
  BY <1>6, <1>8 DEF IInv, IndexInv, PublicInv
<1>18. FillInv'
  <2>1. FillInv
    BY DEF IInv, IndexInv
  <2>2. ASSUME NEW h \in Rows, ~Has(h)'
        PROVE  nr.pos <= h /\ nr.next <= h /\ h <= nr.end /\ nr.result # "ok"
    <3>1. r.pos <= h /\ r.next <= h /\ h <= r.end
      BY <1>4, <1>6, <2>2
    <3>2. ~(h < f.next)
      BY <1>1, <1>4, <1>6, <2>2, <3>1 DEF Has
    <3>3. h \in Nat
      BY TableAssumption DEF Rows
    <3> QED BY SMTT(60), <1>2, <1>3, <1>4, <3>1, <3>2, <3>3
  <2>3. ASSUME meta.st = "writeReorg", job.snap
        PROVE  \A h \in Rows : Has(h)' \/ (job.start <= h /\ h <= job.end)
    BY <1>6, <2>1, <2>3 DEF FillInv
  <2>4. \A x \in Server \ closed : reorg'[x].on => x = s
    BY <1>4, <1>5, <2>1 DEF FillInv
  <2>5. ASSUME NEW x \in Server \ closed, fill'[x].on PROVE FALSE
    <3>0. ~NoFill.on
      BY DEF NoFill
    <3>1. x # s /\ fill[x].on
      BY <1>5, <2>5, <3>0
    <3>2. reorg[x].on /\ owner = x
      BY <2>1, <3>1 DEF FillInv
    <3> QED BY <1>4, <3>1, <3>2
  <2>6. row' = row /\ meta' = meta /\ owner' = owner /\ job' = job /\ closed' = closed
    BY <1>1
  <2>7. ASSUME NEW x \in Server \ closed, reorg'[x].on
        PROVE  /\ owner' = x /\ reorg'[x].id = meta.id /\ meta'.st = "writeReorg" /\ Synced' /\ AllWrite'
               /\ \A h \in Rows' : Has(h)' \/ (/\ reorg'[x].pos <= h /\ reorg'[x].next <= h /\ h <= reorg'[x].end
                                              /\ reorg'[x].result # "ok")
    BY <1>3, <1>4, <1>5, <1>6, <1>8, <2>2, <2>4, <2>6, <2>7
  <2> QED BY <1>4, <1>6, <1>8, <2>3, <2>5, <2>6, <2>7 DEF FillInv
<1> QED BY <1>9, <1>10, <1>12, <1>13, <1>15, <1>16, <1>17, <1>18 DEF IndexInv

\* The range of an index is deleted.  It is not the index in use.
LEMMA DeleteRangeStep == ASSUME IInv, NEW i \in ranges, DeleteRange(i) PROVE IndexInv'
<1>1. /\ UNCHANGED <<row, schema, valid, fresh, granted, txn, meta, owner, job, ended, reorg, fill, closed>>
      /\ entry' = {e \in entry : e[1] # i}
      /\ ranges' = ranges \ {i} /\ gone' = gone \cup {i}
  BY DEF DeleteRange, hand
<1>2. i = meta.id => meta.st = "none"
  BY DEF IInv, IndexInv, RangeInv
<1>3. /\ \A x \in Server : Live(x)' <=> Live(x)
      /\ Leased' = Leased /\ (Synced' <=> Synced) /\ (Unknown' <=> Unknown) /\ (PublicSeen' <=> PublicSeen)
      /\ Rows' = Rows
  BY <1>1 DEF Live, SchemaValid, Leased, Synced, Unknown, PublicSeen, Rows
<1>4. \A t : Writes(t)' <=> Writes(t)
  BY <1>1 DEF Writes
<1>5. AllWrite' <=> AllWrite
  BY <1>1, <1>3, <1>4 DEF AllWrite
<1>6. ASSUME meta.st # "none", NEW h \in Rows, Has(h) PROVE Has(h)'
  <2>1. <<meta.id, row[h], h>> \in Entries
    BY <1>6 DEF Has, IInv, IndexInv, DataType
  <2>2. <<meta.id, row[h], h>>[1] = meta.id
    BY SMTT(60), <2>1
  <2> QED BY <1>1, <1>2, <1>6, <2>2 DEF Has
<1>7. DataType' /\ ChainInv' /\ TxnInv' /\ LiveInv' /\ SoundInv'
  <2>1. DataType'
    BY <1>1 DEF IInv, IndexInv, DataType
  <2>2. ChainInv'
    BY <1>1, <1>3 DEF IInv, IndexInv, ChainInv
  <2>3. TxnInv'
    BY <1>1 DEF IInv, IndexInv, TxnInv
  <2>4. LiveInv'
    BY <1>1, <1>3, <1>4 DEF IInv, IndexInv, LiveInv
  <2>5. SoundInv'
    BY <1>1, <1>3 DEF IInv, IndexInv, SoundInv
  <2> QED BY <2>1, <2>2, <2>3, <2>4, <2>5
<1>8. RangeInv'
  BY <1>1, <1>3 DEF IInv, IndexInv, RangeInv
<1>9. PublicInv'
  <2>1. ASSUME PublicSeen PROVE meta.st # "none"
    <3>1. CASE meta.st = "public"
      BY <3>1
    <3>2. ASSUME NEW x \in Leased, schema[x].st = "public" PROVE meta.st # "none"
      <4>1. x \in Server /\ schema[x].ver \in Nat /\ meta.ver \in Nat
            /\ schema[x].ver <= meta.ver /\ schema[x].ver + 1 >= meta.ver
        BY <3>2 DEF IInv, LagInv, VerType, LoadInv, Schemas, Leased
      <4>2. schema[x].ver = meta.ver \/ schema[x].ver + 1 = meta.ver
        BY SMTT(60), <4>1
      <4> QED BY <3>2, <4>2 DEF IInv, IndexInv, ChainInv, Before
    <3> QED BY <2>1, <3>1, <3>2 DEF PublicSeen
  <2> QED BY <1>3, <1>5, <1>6, <2>1 DEF IInv, IndexInv, PublicInv
<1>10. FillInv'
  <2>1. FillInv
    BY DEF IInv, IndexInv
  <2>2. meta.st = "writeReorg" => \A h \in Rows : Has(h) => Has(h)'
    BY <1>6
  <2>3. ASSUME meta.st = "writeReorg", job.snap
        PROVE  /\ Synced' /\ AllWrite'
               /\ \A h \in Rows : Has(h)' \/ (job.start <= h /\ h <= job.end)
    BY <1>3, <1>5, <2>1, <2>2, <2>3 DEF FillInv
  <2>4. ASSUME NEW x \in Server \ closed, reorg[x].on
        PROVE  /\ owner = x /\ reorg[x].id = meta.id /\ meta.st = "writeReorg" /\ Synced' /\ AllWrite'
               /\ \A h \in Rows : Has(h)' \/ (/\ reorg[x].pos <= h /\ reorg[x].next <= h /\ h <= reorg[x].end
                                             /\ reorg[x].result # "ok")
    BY <1>3, <1>5, <2>1, <2>2, <2>4 DEF FillInv
  <2>5. ASSUME NEW x \in Server \ closed, fill[x].on
        PROVE  /\ reorg[x].on /\ reorg[x].result = "none"
               /\ \A e \in fill[x].add : e[1] = meta.id /\ e[2] = row[e[3]] /\ RowKey(e[3]) \in fill[x].keys
               /\ \A h \in Rows : reorg[x].pos <= h /\ h < fill[x].next =>
                        Has(h)' \/ <<meta.id, row[h], h>> \in fill[x].add
    BY <2>1, <2>2, <2>4, <2>5 DEF FillInv
  <2>6. UNCHANGED <<row, meta, owner, job, reorg, fill, closed>>
    BY <1>1
  <2> QED BY <1>3, <2>3, <2>4, <2>5, <2>6 DEF FillInv
<1> QED BY <1>7, <1>8, <1>9, <1>10 DEF IndexInv

------------------------------------------------------------------------------
(* The chain of states *)

\* What a server under a lease has loaded while the worker may take a step.
LEMMA SyncedSchema ==
    ASSUME IInv, Synced, NEW x \in Leased
    PROVE  /\ x \in Server /\ schema[x].ver = meta.ver /\ schema[x].id = meta.id
           /\ schema[x].st = meta.st \/ (schema[x].st = "writeReorg" /\ meta.st = "deleteOnly")
<1>1. schema[x].ver = meta.ver /\ x \in Server
  BY DEF Synced, Leased, IInv, LagInv, VerType
<1> QED BY <1>1 DEF IInv, IndexInv, ChainInv

\* The parts of the invariant about types, ranges and the backfill, when the state changes and
\* no backfill goes on.
LEMMA StateFrame ==
    ASSUME IInv, UNCHANGED <<row, entry, schema, valid, fresh, granted, txn, ended, ranges, gone, fill, closed>>,
           meta' \in Schemas, job' \in JobRecs, reorg' \in [Server -> ReorgRecs], meta.id <= meta'.id,
           meta'.id = meta.id => meta.st # "none",
           meta'.st = "writeReorg" => ~job'.snap,
           \A x \in Server \ closed : ~reorg'[x].on /\ ~fill[x].on,
           job'.state = "rollbackDone" \/ (job'.state = "done" /\ job'.type = "drop") => meta'.st = "none"
    PROVE  DataType' /\ TxnInv' /\ RangeInv' /\ FillInv'
<1>1. meta.id \in Nat /\ meta'.id \in Nat
  BY DEF IInv, LagInv, VerType, Schemas
<1>2. DataType'
  BY DEF IInv, IndexInv, DataType
<1>3. TxnInv'
  BY <1>1, TxnStays, TxnFrame DEF IInv, IndexInv
<1>4. FillInv'
  BY DEF FillInv
<1>5. RangeInv'
  <2>1. ASSUME NEW i \in ranges \cup gone PROVE i <= meta'.id /\ i # meta'.id
    <3>1. i \in Nat /\ i <= meta.id /\ (i = meta.id => meta.st = "none")
      BY DEF IInv, IndexInv, RangeInv
    <3> QED BY SMTT(60), <1>1, <2>1, <3>1
  <2>2. \A x \in Server : Live(x)' <=> Live(x)
    BY DEF Live, SchemaValid
  <2> QED BY <2>1, <2>2 DEF IInv, IndexInv, RangeInv
<1> QED BY <1>2, <1>3, <1>4, <1>5

\* The stored state of the index changes: with a new version along the chain, or back to
\* deleteOnly with the same version (convert2RollbackJob).
LEMMA StateStep ==
    ASSUME IInv, Synced,
           UNCHANGED <<row, entry, schema, valid, fresh, granted, txn, ended, ranges, gone, fill, closed>>,
           meta' \in Schemas, job' \in JobRecs, reorg' \in [Server -> ReorgRecs],
           meta.st # "none", meta'.id = meta.id,
           \/ /\ meta'.ver = meta.ver + 1 /\ Before(meta.st, meta'.st)
              /\ \A x \in Leased : Before(schema[x].st, meta'.st)
              /\ meta'.st \in {"deleteOnly", "writeOnly"} => \A x \in Leased : schema[x].st = meta.st
           \/ meta'.ver = meta.ver /\ meta.st = "writeReorg" /\ meta'.st = "deleteOnly",
           meta'.st = "public" => AllWrite /\ \A h \in Rows : Has(h),
           meta'.st = "writeReorg" => ~job'.snap,
           \A x \in Server \ closed : ~reorg'[x].on /\ ~fill[x].on,
           job'.state = "rollbackDone" \/ (job'.state = "done" /\ job'.type = "drop") => meta'.st = "none"
    PROVE  IndexInv'
<1>1. meta.id \in Nat /\ meta.ver \in Nat
  BY DEF IInv, LagInv, VerType, Schemas
<1>2. meta.id <= meta.id /\ meta.ver + 1 # meta.ver /\ meta.ver + 2 # meta.ver
  BY SMTT(60), <1>1
<1>3. DataType' /\ TxnInv' /\ RangeInv' /\ FillInv'
  BY <1>2, StateFrame
<1>4. /\ \A x \in Server : Live(x)' <=> Live(x)
      /\ Leased' = Leased /\ Rows' = Rows /\ \A h \in Rows : Has(h)' <=> Has(h)
  BY DEF Live, SchemaValid, Leased, Rows, Has
<1>5. \A t : Writes(t)' <=> Writes(t)
  BY DEF Writes
<1>6. AllWrite' <=> AllWrite
  BY <1>4, <1>5 DEF AllWrite
<1>7. ASSUME NEW x \in Leased
      PROVE  /\ schema[x].ver = meta.ver /\ schema[x].id = meta.id /\ schema[x].st # "none"
             /\ schema[x].st = meta.st \/ (schema[x].st = "writeReorg" /\ meta.st = "deleteOnly")
  BY SyncedSchema
<1>8. ChainInv'
  <2>1. CASE meta'.ver = meta.ver + 1
    <3>1. ASSUME NEW x \in Leased
          PROVE  /\ schema[x].ver # meta'.ver /\ Before(schema[x].st, meta'.st) /\ schema[x].id = meta'.id
                 /\ meta'.st \in {"deleteOnly", "writeOnly"} => schema[x].st = meta.st
      BY <1>2, <1>7, <2>1
    <3> QED BY <1>4, <3>1 DEF ChainInv, Before
  <2>2. CASE meta'.ver = meta.ver
    <3>1. meta.st = "writeReorg" /\ meta'.st = "deleteOnly"
      BY <1>2, <2>2
    <3>2. Synced'
      BY <2>2 DEF Synced
    <3>3. ASSUME NEW x \in Leased
          PROVE  /\ schema[x].ver = meta'.ver /\ schema[x].ver + 1 # meta'.ver /\ schema[x].id = meta'.id
                 /\ schema[x].st = "writeReorg"
      BY <1>2, <1>7, <2>2, <3>1
    <3> QED BY <1>4, <3>1, <3>2, <3>3 DEF ChainInv
  <2> QED BY <2>1, <2>2
<1>9. LiveInv'
  <2>1. SUFFICES ASSUME NEW x \in Server, Live(x)
                 PROVE  /\ \A e \in entry : e[1] = meta.id /\ e[3] = txn[x].h => IndexKey(e) \in txn[x].del
                        /\ txn[x].ver = meta'.ver /\ Writable(meta'.st) => Writes(txn[x])
                        /\ txn[x].ver = meta'.ver /\ meta'.st \in {"none", "deleteReorg"} => txn[x].add = {}
                        /\ txn[x].ver + 1 = meta'.ver /\ meta'.st = "writeReorg" => Writes(txn[x])
                        /\ txn[x].ver + 1 = meta'.ver /\ meta'.st = "none" => txn[x].add = {}
    BY <1>4, <1>5 DEF LiveInv
  <2>2. txn[x].ver \in Nat /\ txn[x].ver <= meta.ver
    BY <2>1, LiveLag DEF IInv, IndexInv
  <2>3. \A e \in entry : e[1] = meta.id /\ e[3] = txn[x].h => IndexKey(e) \in txn[x].del
    BY <2>1 DEF IInv, IndexInv, LiveInv
  <2>4. CASE meta'.ver = meta.ver + 1
    <3>1. txn[x].ver # meta'.ver /\ (txn[x].ver + 1 = meta'.ver => txn[x].ver = meta.ver)
      BY SMTT(60), <1>1, <2>2, <2>4
    <3>2. Before(meta.st, meta'.st)
      BY <1>2, <2>4
    <3> QED BY <2>1, <2>3, <3>1, <3>2 DEF Before, IInv, IndexInv, LiveInv, Writable
  <2>5. CASE meta'.ver = meta.ver
    BY <1>2, <2>3, <2>5 DEF Writable
  <2> QED BY <2>4, <2>5
<1>10. SoundInv'
  BY <1>4, <1>7 DEF IInv, IndexInv, SoundInv, Unknown
<1>11. PublicInv'
  <2>1. ASSUME NEW x \in Leased, schema[x].st = "public" PROVE PublicSeen
    BY <2>1 DEF PublicSeen
  <2>2. PublicSeen' => meta'.st = "public" \/ PublicSeen
    BY <1>4, <2>1 DEF PublicSeen
  <2> QED BY <1>4, <1>6, <2>2 DEF IInv, IndexInv, PublicInv
<1> QED BY <1>3, <1>8, <1>9, <1>10, <1>11 DEF IndexInv

\* The first step of onCreateIndex: an index with a new ID, of which nobody knows yet.
LEMMA NewIndexStep ==
    ASSUME IInv, Synced,
           UNCHANGED <<row, entry, schema, valid, fresh, granted, txn, ended, ranges, gone, fill, closed>>,
           job' \in JobRecs, reorg' \in [Server -> ReorgRecs],
           meta.st = "none", meta' = [ver |-> meta.ver + 1, st |-> "deleteOnly", id |-> meta.id + 1],
           \A x \in Server \ closed : ~reorg'[x].on /\ ~fill[x].on,
           job'.state = "running"
    PROVE  IndexInv'
<1>1. meta.id \in Nat /\ meta.ver \in Nat
  BY DEF IInv, LagInv, VerType, Schemas
<1>2. /\ meta'.ver = meta.ver + 1 /\ meta'.st = "deleteOnly" /\ meta'.id = meta.id + 1
      /\ meta' \in Schemas /\ meta.id <= meta'.id /\ meta'.id # meta.id /\ meta'.ver # meta.ver
  BY SMTT(60), <1>1 DEF Schemas, States
<1>3. DataType' /\ TxnInv' /\ RangeInv' /\ FillInv'
  BY <1>2, StateFrame
<1>4. Leased' = Leased /\ \A x \in Server : Live(x)' <=> Live(x)
  BY DEF Live, SchemaValid, Leased
<1>5. ASSUME NEW x \in Leased PROVE schema[x].ver = meta.ver /\ schema[x].st = "none"
  BY SyncedSchema
<1>6. ChainInv'
  <2>1. Before("none", "deleteOnly")
    BY DEF Before
  <2>2. ASSUME NEW x \in Leased
        PROVE  /\ schema[x].ver # meta'.ver /\ Before(schema[x].st, meta'.st)
               /\ schema[x].st = "none"
    BY <1>2, <1>5, <2>1
  <2>3. \A x \in Leased' : schema'[x].ver # meta'.ver /\ Before(schema'[x].st, meta'.st) /\ schema'[x].st = "none"
    BY <1>4, <2>2
  <2> QED BY <2>3 DEF ChainInv
<1>7. ASSUME NEW i \in Nat, i <= meta.id PROVE i # meta'.id /\ i <= meta'.id
  BY SMTT(60), <1>1, <1>2, <1>7
<1>8. ASSUME NEW e \in entry PROVE e[1] # meta'.id /\ e[1] <= meta'.id
  <2>1. e[1] \in Nat /\ e[1] <= meta.id
    BY EntryIs DEF IInv, IndexInv, DataType, SoundInv
  <2> QED BY <1>7, <2>1
<1>9. ASSUME NEW x \in Server, Live(x), NEW e \in txn[x].add PROVE e[1] # meta'.id
  <2>1. e[1] \in Nat /\ e[1] <= meta.id
    BY <1>9, EntryIs DEF IInv, IndexInv, TxnInv, Live
  <2> QED BY <1>7, <2>1
<1>10. LiveInv'
  <2>1. ASSUME NEW x \in Server, Live(x) PROVE txn[x].ver # meta'.ver
    <3>1. txn[x].ver \in Nat /\ txn[x].ver <= meta.ver
      BY <2>1, LiveLag DEF IInv, IndexInv
    <3> QED BY SMTT(60), <1>1, <1>2, <3>1
  <2> QED BY <1>2, <1>4, <1>8, <2>1 DEF LiveInv
<1>11. SoundInv'
  BY <1>4, <1>8, <1>9 DEF SoundInv
<1>12. PublicInv'
  BY <1>2, <1>4, <1>5 DEF PublicInv, PublicSeen
<1> QED BY <1>3, <1>6, <1>10, <1>11, <1>12 DEF IndexInv

\* While the worker takes a step every server follows, and only its own backfill goes on.
LEMMA RunsSynced ==
    ASSUME IInv, NEW s \in Server, Runs(s)
    PROVE  /\ Synced /\ owner = s /\ s \notin closed
           /\ job \in JobRecs /\ reorg \in [Server -> ReorgRecs] /\ meta \in Schemas
           /\ meta.st # "writeReorg" => \A x \in Server \ closed : ~reorg[x].on /\ ~fill[x].on
           /\ \A x \in Server \ closed : reorg[x].on => x = s
           /\ \A x \in Server \ closed : fill[x].on => reorg[x].on /\ reorg[x].result = "none"
<1>1. owner = s /\ worker[s].pc = "run"
  BY DEF Runs
<1>2. Synced /\ owner \notin closed
  BY <1>1 DEF IInv, LagInv, WorkerInv
<1>3. job \in JobRecs /\ reorg \in [Server -> ReorgRecs] /\ meta \in Schemas
  BY DEF IInv, LagInv, VerType, IndexInv, DataType
<1>4. \A x \in Server \ closed : reorg[x].on => owner = x /\ meta.st = "writeReorg"
  BY DEF IInv, IndexInv, FillInv
<1>5. \A x \in Server \ closed : fill[x].on => reorg[x].on /\ reorg[x].result = "none"
  BY DEF IInv, IndexInv, FillInv
<1> QED BY <1>1, <1>2, <1>3, <1>4, <1>5

\* onCreateIndex before the backfill.
LEMMA AddIndexStep == ASSUME IInv, ConvertInv, NEW s \in Server, AddStep(s) PROVE IndexInv'
<1> DEFINE st == [none |-> "deleteOnly", deleteOnly |-> "writeOnly", writeOnly |-> "writeReorg"][meta.st]
<1>1. /\ Runs(s) /\ job.state \in {"none", "running"} /\ meta.st \in {"none", "deleteOnly", "writeOnly"}
      /\ UNCHANGED <<row, entry, schema, valid, fresh, granted, txn, owner, ended, ranges, gone, reorg, fill, closed>>
      /\ meta' = [ver |-> meta.ver + 1, st |-> st, id |-> meta.id + (IF meta.st = "none" THEN 1 ELSE 0)]
      /\ job' = [job EXCEPT !.state = "running", !.schema = st, !.snap = FALSE]
  BY SMTT(60) DEF AddStep, dataVars, hand
<1>2. /\ meta.st = "none" => st = "deleteOnly"
      /\ meta.st = "deleteOnly" => st = "writeOnly"
      /\ meta.st = "writeOnly" => st = "writeReorg"
  BY SMTT(60)
<1> HIDE DEF st
<1>3. /\ Synced /\ job \in JobRecs /\ reorg \in [Server -> ReorgRecs] /\ meta \in Schemas
      /\ \A x \in Server \ closed : ~reorg[x].on /\ ~fill[x].on
  BY <1>1, RunsSynced
<1>4. st \in {"deleteOnly", "writeOnly", "writeReorg"}
  BY <1>1, <1>2
<1>5. job' \in JobRecs /\ job'.state = "running" /\ ~job'.snap
  BY <1>1, <1>3, <1>4 DEF JobRecs, States
<1>6. CASE meta.st = "none"
  <2>1. meta' = [ver |-> meta.ver + 1, st |-> "deleteOnly", id |-> meta.id + 1]
    BY <1>1, <1>2, <1>6
  <2> QED BY <1>1, <1>3, <1>5, <1>6, <2>1, NewIndexStep
<1>7. CASE meta.st # "none"
  <2>1. meta.id \in Nat /\ meta.ver \in Nat
    BY <1>3 DEF Schemas
  <2>2. meta.id + 0 = meta.id /\ meta.ver + 1 \in Nat
    BY SMTT(60), <2>1
  <2>3. meta' = [ver |-> meta.ver + 1, st |-> st, id |-> meta.id]
    BY <1>1, <1>7, <2>2
  <2>4. /\ meta' \in Schemas /\ meta'.ver = meta.ver + 1 /\ meta'.st = st /\ meta'.id = meta.id
    BY SMTT(60), <2>1, <2>2, <2>3, <1>4 DEF Schemas, States
  <2>5. ASSUME NEW x \in Leased PROVE schema[x].st = meta.st
    BY <1>1, <1>3, SyncedSchema DEF ConvertInv
  <2>6. Before(meta.st, st)
    BY <1>1, <1>2, <1>7 DEF Before
  <2>7. st # "public"
    BY <1>4
  <2> QED BY <1>1, <1>3, <1>5, <1>7, <2>4, <2>5, <2>6, <2>7, StateStep
<1> QED BY <1>6, <1>7

\* onDropIndex.
LEMMA DropIndexStep == ASSUME IInv, NEW s \in Server, DropStep(s) PROVE IndexInv'
<1> DEFINE st == [public |-> "writeOnly", writeOnly |-> "deleteOnly", deleteOnly |-> "deleteReorg",
                  deleteReorg |-> "none"][meta.st]
           js == IF meta.st # "deleteReorg" THEN (IF job.type = "add" THEN job.state ELSE "running")
                 ELSE IF job.type = "add" THEN "rollbackDone" ELSE "done"
<1>1. /\ Runs(s) /\ meta.st \in {"public", "writeOnly", "deleteOnly", "deleteReorg"}
      /\ job.type = "add" => job.state = "rollingback"
      /\ UNCHANGED <<row, entry, schema, valid, fresh, granted, txn, owner, ended, ranges, gone, reorg, fill, closed>>
      /\ meta' = [ver |-> meta.ver + 1, st |-> st, id |-> meta.id]
      /\ job' = [job EXCEPT !.schema = st, !.state = js]
  BY SMTT(60) DEF DropStep, NewState, dataVars, hand
<1>2. /\ meta.st = "public" => st = "writeOnly"
      /\ meta.st = "writeOnly" => st = "deleteOnly"
      /\ meta.st = "deleteOnly" => st = "deleteReorg"
      /\ meta.st = "deleteReorg" => st = "none"
  BY SMTT(60)
<1>3. /\ js \in {"running", "rollingback", "rollbackDone", "done"}
      /\ js \in {"rollbackDone", "done"} => meta.st = "deleteReorg"
  BY <1>1
<1> HIDE DEF st, js
<1>4. /\ Synced /\ job \in JobRecs /\ reorg \in [Server -> ReorgRecs] /\ meta \in Schemas
      /\ \A x \in Server \ closed : ~reorg[x].on /\ ~fill[x].on
  BY <1>1, RunsSynced
<1>5. st \in {"writeOnly", "deleteOnly", "deleteReorg", "none"}
  BY <1>1, <1>2
<1>6. job' \in JobRecs /\ job'.state = js
  BY <1>1, <1>3, <1>4, <1>5 DEF JobRecs, States
<1>7. meta.id \in Nat /\ meta.ver \in Nat
  BY <1>4 DEF Schemas
<1>8. /\ meta' \in Schemas /\ meta'.ver = meta.ver + 1 /\ meta'.st = st /\ meta'.id = meta.id
  BY SMTT(60), <1>1, <1>5, <1>7 DEF Schemas, States
<1>9. ASSUME NEW x \in Leased
      PROVE  /\ Before(schema[x].st, st)
             /\ st \in {"deleteOnly", "writeOnly"} => schema[x].st = meta.st
  <2>1. schema[x].st = meta.st \/ (schema[x].st = "writeReorg" /\ meta.st = "deleteOnly")
    BY <1>4, SyncedSchema
  <2> QED BY <1>1, <1>2, <2>1 DEF Before
<1>10. Before(meta.st, st) /\ meta.st # "none" /\ st # "public" /\ st # "writeReorg"
  BY <1>1, <1>2, <1>5 DEF Before
<1>11. js \in {"rollbackDone", "done"} => st = "none"
  BY <1>2, <1>3
<1> QED BY <1>1, <1>4, <1>6, <1>8, <1>9, <1>10, <1>11, StateStep

\* runReorgJob takes the result: the index becomes public, or is rolled back.
LEMMA ReorgDoneStep == ASSUME IInv, NEW s \in Server, ReorgDone(s) PROVE IndexInv'
<1>1. /\ Runs(s) /\ job.type = "add" /\ meta.st = "writeReorg" /\ reorg[s].on /\ reorg[s].result # "none"
      /\ UNCHANGED <<row, entry, schema, valid, fresh, granted, txn, owner, ended, ranges, gone, fill, closed>>
      /\ reorg' = [reorg EXCEPT ![s] = NoReorg]
  BY DEF ReorgDone, Reorganizes, dataVars, hand
<1>2. /\ Synced /\ s \notin closed
      /\ job \in JobRecs /\ reorg \in [Server -> ReorgRecs] /\ meta \in Schemas
      /\ \A x \in Server \ closed : reorg[x].on => x = s
      /\ \A x \in Server \ closed : fill[x].on => reorg[x].on /\ reorg[x].result = "none"
  BY <1>1, RunsSynced
<1>3. reorg' \in [Server -> ReorgRecs] /\ \A x \in Server \ closed : ~reorg'[x].on /\ ~fill[x].on
  <2>1. NoReorg \in ReorgRecs /\ ~NoReorg.on
    BY SMTT(60) DEF NoReorg, ReorgRecs
  <2>2. reorg' \in [Server -> ReorgRecs]
    BY <1>1, <1>2, <2>1
  <2>3. \A x \in Server \ closed : ~reorg'[x].on
    BY <1>1, <1>2, <2>1
  <2> QED BY <1>1, <1>2, <2>2, <2>3
<1>4. meta.id \in Nat /\ meta.ver \in Nat
  BY <1>2 DEF Schemas
<1>5. ASSUME NEW x \in Leased PROVE schema[x].st = "writeReorg"
  BY <1>1, <1>2, SyncedSchema
<1>6. CASE reorg[s].result = "ok" /\ NewState(s, "public")
           /\ job' = [job EXCEPT !.state = "done", !.schema = "public"]
  <2>1. job' \in JobRecs /\ job'.state = "done" /\ job'.type = "add"
    BY <1>1, <1>2, <1>6 DEF JobRecs, States
  <2>2. meta' = [ver |-> meta.ver + 1, st |-> "public", id |-> meta.id]
    BY <1>6 DEF NewState
  <2>3. meta' \in Schemas /\ meta'.ver = meta.ver + 1 /\ meta'.st = "public" /\ meta'.id = meta.id
    BY SMTT(60), <1>4, <2>2 DEF Schemas, States
  <2>4. Before("writeReorg", "public")
    BY DEF Before
  <2>5. AllWrite /\ \A h \in Rows : Has(h)
    BY <1>1, <1>2, <1>6 DEF IInv, IndexInv, FillInv
  <2> QED BY <1>1, <1>2, <1>3, <1>5, <2>1, <2>3, <2>4, <2>5, StateStep
<1>7. CASE /\ meta' = [meta EXCEPT !.st = "deleteOnly"]
           /\ job' = [job EXCEPT !.state = "rollingback", !.schema = "deleteOnly"]
  <2>1. job' \in JobRecs /\ job'.state = "rollingback"
    BY <1>2, <1>7 DEF JobRecs, States
  <2>2. meta' \in Schemas /\ meta'.ver = meta.ver /\ meta'.st = "deleteOnly" /\ meta'.id = meta.id
    BY SMTT(60), <1>2, <1>7 DEF Schemas, States
  <2> QED BY <1>1, <1>2, <1>3, <2>1, <2>2, StateStep
<1> QED BY <1>6, <1>7 DEF ReorgDone

------------------------------------------------------------------------------
(* The rollback of an index, the initial state and the property *)

\* A step that changes neither the stored state nor a job that is being rolled back.
LEMMA ConvertFrame ==
    ASSUME ConvertInv, meta' = meta,
           \A x \in Leased' : schema'[x] = meta \/ (x \in Leased /\ schema'[x] = schema[x]),
           job.state = "rollingback" => job'.state = job.state
    PROVE  ConvertInv'
BY DEF ConvertInv

\* Only the end of a rollback takes the job out of its state, and by then every server follows.
LEMMA ConvertStep == ASSUME IInv, ConvertInv, Next PROVE ConvertInv'
<1>1. ASSUME UNCHANGED <<meta, schema, fresh, granted>>, job.state = "rollingback" => job'.state = job.state
      PROVE  ConvertInv'
  BY <1>1, ConvertFrame DEF Leased
<1>2. CASE Cancel
  BY <1>1, <1>2 DEF Cancel, dataVars, hand
<1>3. CASE \E i \in ranges : DeleteRange(i)
  BY <1>1, <1>3 DEF DeleteRange
<1>4. ASSUME NEW s \in Server,
             \/ \E h \in Handle, v \in Value \cup {NoRow} : Begin(s, h, v)
             \/ Commit(s) \/ FillStep(s)
      PROVE  ConvertInv'
  <2>1. UNCHANGED <<meta, schema, fresh, granted, job>>
    BY <1>4 DEF Begin, Commit, FillStep, FillRead, FillCommit, dataVars, ddlVars, hand
  <2> QED BY <1>1, <2>1
<1>5. ASSUME NEW s \in Server, Wake(s) \/ Rest(s) \/ Publish(s) \/ StartReorg(s)
      PROVE  ConvertInv'
  BY <1>1, <1>5 DEF Wake, Rest, Publish, StartReorg, dataVars, hand
<1>6. ASSUME NEW s \in Server, Finish(s) \/ EndCancelled(s) \/ FirstReorg(s) \/ ReorgTimeout(s)
      PROVE  ConvertInv'
  <2>1. UNCHANGED <<meta, schema, fresh, granted>>
    BY <1>6 DEF Finish, EndCancelled, FirstReorg, ReorgTimeout, dataVars, hand
  <2>2. job.state # "rollingback"
    BY <1>6 DEF Finish, EndCancelled, FirstReorg, ReorgTimeout, Reorganizes
  <2> QED BY <1>1, <2>1, <2>2
<1>7. ASSUME NEW s \in Server, Waited(s) \/ Campaign(s)
      PROVE  ConvertInv'
  <2>1. UNCHANGED <<meta, schema, job>> /\ fresh' \subseteq fresh /\ granted' \subseteq granted
    BY <1>7 DEF Waited, Campaign, LeasesExpire
  <2> QED BY <2>1, ConvertFrame DEF Leased
<1>8. ASSUME NEW s \in Server, Crash(s) \/ Close(s)
      PROVE  ConvertInv'
  <2>1. /\ UNCHANGED <<meta, job>> /\ fresh' = fresh \ {s} /\ granted' = granted \ {s}
        /\ \A x \in Server \ {s} : schema'[x] = schema[x]
    BY <1>8 DEF Crash, Close, IInv, LagInv, VerType
  <2>2. \A x \in Leased' : x \in Leased /\ schema'[x] = schema[x]
    BY <2>1 DEF Leased, IInv, LagInv, VerType
  <2> QED BY <2>1, <2>2, ConvertFrame
<1>9. ASSUME NEW s \in Server, Reload(s) \/ Load(s) \/ Validate(s)
      PROVE  ConvertInv'
  <2>1. schema \in [Server -> Schemas] /\ fresh \subseteq Server /\ granted \subseteq Server
    BY DEF IInv, LagInv, VerType
  <2>2. UNCHANGED <<meta, job>>
    BY <1>9 DEF Reload, Load, Validate
  <2>3. CASE Reload(s) \/ Load(s)
    <3>1. /\ schema' = [schema EXCEPT ![s] = meta]
          /\ \A x \in Leased' : x = s \/ x \in Leased
      BY <2>3 DEF Reload, Load, Leased
    <3>2. \A x \in Leased' : schema'[x] = meta \/ (x \in Leased /\ schema'[x] = schema[x])
      BY <2>1, <3>1 DEF Leased
    <3> QED BY <2>2, <3>2, ConvertFrame
  <2>4. CASE Validate(s)
    <3>1. schema' = schema /\ \A x \in Leased' : x \in Leased
      BY <2>4 DEF Validate, Leased
    <3> QED BY <2>2, <3>1, ConvertFrame
  <2> QED BY <1>9, <2>3, <2>4
<1>10. ASSUME NEW s \in Server, Runs(s), UNCHANGED <<schema, fresh, granted>>, meta.st # "deleteOnly",
              meta.st # "writeReorg" \/ meta'.st # "deleteOnly" \/ job'.state = "rollingback"
       PROVE  ConvertInv'
  <2>1. Synced
    BY <1>10, RunsSynced
  <2>2. \A x \in Leased : schema[x].st = meta.st
    BY <1>10, <2>1, SyncedSchema
  <2>3. Leased' = Leased
    BY <1>10 DEF Leased
  <2> QED BY <1>10, <2>2, <2>3 DEF ConvertInv
<1>11. ASSUME NEW s \in Server, AddStep(s) \/ DropStep(s)
       PROVE  ConvertInv'
  <2>1. Runs(s) /\ UNCHANGED <<schema, fresh, granted>> /\ meta.st # "writeReorg"
    BY SMTT(60), <1>11 DEF AddStep, DropStep, dataVars, hand
  <2>2. ASSUME meta.st = "deleteOnly" PROVE meta'.st # "deleteOnly"
    BY SMTT(60), <1>11, <2>2 DEF AddStep, DropStep, NewState
  <2> QED BY <1>10, <2>1, <2>2 DEF ConvertInv
<1>12. ASSUME NEW s \in Server, ReorgDone(s)
       PROVE  ConvertInv'
  <2>1. /\ Runs(s) /\ UNCHANGED <<schema, fresh, granted>>
        /\ meta.st = "writeReorg" /\ job \in JobRecs /\ meta \in Schemas
    BY <1>12, RunsSynced DEF ReorgDone, Reorganizes, dataVars, hand
  <2>2. CASE NewState(s, "public")
    BY <1>10, <2>1, <2>2 DEF NewState
  <2>3. CASE job' = [job EXCEPT !.state = "rollingback", !.schema = "deleteOnly"]
    <3>1. job'.state = "rollingback"
      BY <2>1, <2>3 DEF JobRecs
    <3> QED BY <1>10, <2>1, <3>1
  <2> QED BY <1>12, <2>2, <2>3 DEF ReorgDone
<1> QED
  BY <1>2, <1>3, <1>4, <1>5, <1>6, <1>7, <1>8, <1>9, <1>11, <1>12 DEF Next, WorkerStep

\* The inductive invariant implies the property.
LEMMA IndexInvImplies == ASSUME IInv PROVE AlwaysExact
<1>1. meta.id \in Nat /\ entry \subseteq Entries /\ row \in [Handle -> Value \cup {NoRow}]
  BY DEF IInv, LagInv, VerType, Schemas, IndexInv, DataType
<1>2. ASSUME PublicSeen, meta.st # "none" PROVE Exact(meta.id)
  <2>1. ASSUME NEW e \in entry, e[1] = meta.id
        PROVE  e[3] \in Rows /\ e = <<meta.id, row[e[3]], e[3]>>
    <3>1. e[2] \in Value /\ e[3] \in Handle /\ e = <<e[1], e[2], e[3]>>
      BY <1>1, EntryIs
    <3>2. e[2] = row[e[3]]
      BY <1>2, <2>1 DEF IInv, IndexInv, SoundInv
    <3> QED BY <2>1, <3>1, <3>2, TableAssumption DEF Rows
  <2>2. ASSUME NEW h \in Rows
        PROVE  <<meta.id, row[h], h>> \in entry /\ <<meta.id, row[h], h>>[1] = meta.id
    <3>1. h \in Handle /\ row[h] \in Value
      BY <1>1 DEF Rows
    <3> QED BY <1>1, <1>2, <3>1, EntryMade DEF IInv, IndexInv, PublicInv, Has
  <2> QED BY <2>1, <2>2 DEF Exact
<1>3. meta.st = "public" => Exact(meta.id)
  BY <1>2 DEF PublicSeen
<1>4. ASSUME NEW s \in fresh, schema[s].st = "public" PROVE Exact(schema[s].id)
  <2>1. schema[s].id = meta.id /\ meta.st # "none"
    BY <1>4, LoadedSchema DEF Deletable, Writable
  <2>2. PublicSeen
    BY <1>4 DEF PublicSeen, Leased
  <2> QED BY <1>2, <2>1, <2>2
<1>5. NothingLeft
  BY DEF IInv, IndexInv, RangeInv, NothingLeft
<1> QED BY <1>3, <1>4, <1>5 DEF AlwaysExact

\* Init establishes the invariant.
LEMMA IndexInvInit == Init => IInv /\ ConvertInv
<1> SUFFICES ASSUME Init PROVE IInv /\ ConvertInv
  OBVIOUS
<1>1. LagInv
  BY LagInvInit
<1>2. meta.ver = 1 /\ meta.st = "none" /\ meta.id = 0 /\ meta.ver + 1 # meta.ver
  BY SMTT(60) DEF Init
<1>3. /\ \A s \in Server : schema[s] = meta /\ txn[s] = NoTxn /\ reorg[s] = NoReorg /\ fill[s] = NoFill
      /\ entry = {} /\ ranges = {} /\ gone = {}
  BY DEF Init
<1>4. job \in JobRecs /\ job.snap = FALSE /\ job.state = "none"
  <2>1. 1 \in Nat \ {0}
    BY SMTT(60)
  <2> QED BY <2>1, NewJobIs DEF Init
<1>5. DataType
  <2>1. NoReorg \in ReorgRecs /\ NoFill.next \in Nat /\ NoFill.add \subseteq Entries
    BY SMTT(60) DEF NoReorg, ReorgRecs, NoFill
  <2>2. row \in [Handle -> Value \cup {NoRow}] /\ ended \in Nat /\ DOMAIN fill = Server
        /\ reorg = [s \in Server |-> NoReorg]
    BY TableAssumption DEF Init
  <2> QED BY <1>3, <1>4, <2>1, <2>2 DEF DataType
<1>6. Leased \subseteq Server /\ \A s \in Server : ~Live(s)
  BY <1>3 DEF Leased, Live, Init
<1>7. TxnInv /\ LiveInv
  BY <1>3, <1>6 DEF TxnInv, LiveInv
<1>8. ChainInv
  BY <1>2, <1>3, <1>6 DEF ChainInv
<1>9. SoundInv
  BY <1>2, <1>3 DEF SoundInv, Unknown
<1>10. RangeInv
  BY <1>3, <1>4, <1>6 DEF RangeInv
<1>11. PublicInv
  BY <1>2, <1>3, <1>6 DEF PublicInv, PublicSeen
<1>12. FillInv
  <2>1. ~NoReorg.on /\ ~NoFill.on
    BY DEF NoReorg, NoFill
  <2> QED BY <1>3, <1>4, <2>1 DEF FillInv
<1>13. ConvertInv
  BY <1>2 DEF ConvertInv
<1> QED BY <1>1, <1>5, <1>7, <1>8, <1>9, <1>10, <1>11, <1>12, <1>13 DEF IInv, IndexInv

------------------------------------------------------------------------------
(* The rows the backfill reads *)

INSTANCE FiniteSetTheorems

\* The first handle of a range exists.
LEMMA SmallestOf ==
    ASSUME NEW S, S \subseteq Nat, S # {}
    PROVE  \E n \in S : \A m \in S : n <= m
<1>1. PICK n \in S : \A m \in S : ~(<<m, n>> \in OpToRel(<, Nat))
  BY NatLessThanWellFounded, WFMin
<1>2. \A m \in S : ~(m < n)
  BY <1>1 DEF OpToRel
<1> QED BY SMTT(60), <1>2

\* The handles have a bound.
LEMMA HandlesBounded == \E b \in Nat : \A h \in Handle : h <= b
<1>1. PICK n \in Nat : ExistsBijection(1 .. n, Handle)
  BY FS_CardinalityType, TableAssumption
<1>2. PICK f : f \in Bijection(1 .. n, Handle)
  BY <1>1 DEF ExistsBijection
<1>3. /\ f \in [1 .. n -> Handle]
      /\ \A h \in Handle : \E i \in 1 .. n : f[i] = h
  BY <1>2 DEF Bijection, Injection, Surjection
<1> DEFINE U == {m \in 0 .. n : ~\E b \in Nat : \A i \in 1 .. m : f[i] <= b}
<1>4. ASSUME U # {} PROVE FALSE
  <2>1. U \subseteq Nat
    BY SMTT(60)
  <2>2. PICK m \in U : \A k \in U : m <= k
    BY <1>4, <2>1, SmallestOf
  <2> HIDE DEF U
  <2>3. m \in 0 .. n /\ ~\E b \in Nat : \A i \in 1 .. m : f[i] <= b
    BY <2>2 DEF U
  <2>4. m # 0
    BY SMTT(60), <2>3
  <2>5. m - 1 \in 0 .. n /\ m - 1 \notin U
    BY SMTT(60), <2>1, <2>2, <2>3, <2>4
  <2>6. PICK b \in Nat : \A i \in 1 .. (m - 1) : f[i] <= b
    BY <2>5 DEF U
  <2>0. \A i \in 1 .. n : f[i] \in Nat
    BY <1>3, TableAssumption
  <2>7. m \in 1 .. n /\ f[m] \in Nat
    BY SMTT(60), <2>0, <2>3, <2>4
  <2>8. \A i \in 1 .. m : i = m \/ i \in 1 .. (m - 1)
    BY SMTT(60), <2>7
  <2>9. \A i \in 1 .. m : f[i] \in Nat
    BY SMTT(60), <2>0, <2>3
  <2>10. b + f[m] \in Nat /\ \A i \in 1 .. m : f[i] <= b + f[m]
    BY SMTT(60), <2>6, <2>7, <2>8, <2>9
  <2> QED BY <2>3, <2>10
<1>5. n \in 0 .. n
  BY SMTT(60)
<1>6. PICK b \in Nat : \A i \in 1 .. n : f[i] <= b
  BY <1>4, <1>5
<1> QED BY <1>3, <1>6

\* So does the last one: the table is finite.
LEMMA LargestOf ==
    ASSUME NEW S, S \subseteq Handle, S # {}
    PROVE  \E n \in S : \A m \in S : m <= n
<1>1. PICK b \in Nat : \A h \in Handle : h <= b
  BY HandlesBounded
<1> DEFINE T == {b - n : n \in S}
<1>2. \A n \in S : n \in Nat /\ n <= b
  BY <1>1, TableAssumption
<1>3. \A n \in S : b - n \in Nat
  BY SMTT(60), <1>2
<1>4. T \subseteq Nat /\ T # {}
  BY <1>3
<1>5. PICK x \in T : \A y \in T : x <= y
  BY <1>4, SmallestOf
<1>6. PICK n \in S : x = b - n
  BY <1>5
<1>7. ASSUME NEW m \in S PROVE m <= n
  <2>1. b - n <= b - m
    BY <1>5, <1>6
  <2> QED BY SMTT(60), <1>2, <2>1
<1> QED BY <1>7

\* A batch is the front part of what is left of the region, and not empty.
LEMMA BatchIs ==
    ASSUME NEW left, left \subseteq Handle,
           NEW batch, batch = {h \in left : Cardinality({k \in left : k < h}) < BatchCnt},
           batch # left
    PROVE  /\ (CHOOSE h \in batch : \A k \in batch : k <= h) \in batch
           /\ \A h \in left : h <= (CHOOSE j \in batch : \A k \in batch : k <= j) => h \in batch
<1> DEFINE m == CHOOSE j \in batch : \A k \in batch : k <= j
<1>1. left \subseteq Nat /\ IsFiniteSet(left) /\ left # {}
  BY TableAssumption, FS_Subset
<1>2. batch # {}
  <2>1. PICK n \in left : \A k \in left : n <= k
    BY <1>1, SmallestOf
  <2>2. {k \in left : k < n} = {}
    <3>1. \A k \in left : k \in Nat /\ n <= k
      BY <1>1, <2>1
    <3>2. \A k \in left : ~(k < n)
      BY SMTT(60), <2>1, <3>1
    <3> QED BY <3>2
  <2>3. Cardinality({k \in left : k < n}) = 0
    BY <2>2, FS_EmptySet
  <2>4. 0 < BatchCnt
    BY SMTT(60), JobAssumption
  <2> QED BY <2>1, <2>3, <2>4
<1>3. \E j \in batch : \A k \in batch : k <= j
  <2>1. batch \subseteq Handle
    OBVIOUS
  <2> QED BY <1>2, <2>1, LargestOf
<1>4. m \in batch
  BY <1>3
<1> HIDE DEF m
<1>5. ASSUME NEW h \in left, h <= m PROVE h \in batch
  <2> DEFINE A == {k \in left : k < h}
             B == {k \in left : k < m}
  <2>1. \A k \in left : k < h => k < m
    <3>1. h \in Nat /\ m \in Nat /\ \A k \in left : k \in Nat
      BY <1>1, <1>4
    <3> QED BY SMTT(60), <1>5, <3>1
  <2>2. A \in SUBSET B /\ B \subseteq left
    BY <2>1
  <2>3. IsFiniteSet(B)
    BY <1>1, <2>2, FS_Subset
  <2>4. Cardinality(A) <= Cardinality(B) /\ IsFiniteSet(A)
    BY <2>2, <2>3, FS_Subset
  <2>5. Cardinality(A) \in Nat /\ Cardinality(B) \in Nat
    BY <2>3, <2>4, FS_CardinalityType
  <2>6. Cardinality(B) < BatchCnt
    BY <1>4
  <2> HIDE DEF A, B
  <2>7. Cardinality(A) < BatchCnt
    BY SMTT(60), <2>4, <2>5, <2>6, JobAssumption
  <2> QED BY <2>7 DEF A
<1> QED BY <1>4, <1>5 DEF m

\* The end of a region is a handle.
LEMMA RegionEndIs == ASSUME NEW pos \in Nat, NEW end \in Nat PROVE RegionEnd(pos, end) \in Nat
<1> DEFINE later == {b \in Boundary : pos <= b /\ b < end}
<1>1. later \subseteq Nat
  BY JobAssumption
<1>2. ASSUME later # {} PROVE (CHOOSE b \in later : \A c \in later : b <= c) \in later
  <2>1. \E b \in later : \A c \in later : b <= c
    BY <1>1, <1>2, SmallestOf
  <2> HIDE DEF later
  <2> QED BY <2>1
<1> QED BY <1>1, <1>2 DEF RegionEnd

\* The range of the backfill is taken when every transaction that may still commit maintains
\* the index.
LEMMA FirstReorgStep == ASSUME IInv, NEW s \in Server, FirstReorg(s) PROVE IndexInv'
<1> DEFINE lo == IF Rows = {} THEN 0 ELSE CHOOSE h \in Rows : \A k \in Rows : h <= k
           hi == IF Rows = {} THEN 0 ELSE CHOOSE h \in Rows : \A k \in Rows : k <= h
<1>1. /\ UNCHANGED <<row, entry, schema, valid, fresh, granted, txn, meta, owner, ended, ranges, gone>>
      /\ UNCHANGED <<reorg, fill, closed>>
      /\ job' = [job EXCEPT !.state = "running", !.snap = TRUE, !.start = lo, !.end = hi]
      /\ meta.st = "writeReorg"
  BY DEF FirstReorg, Reorganizes, dataVars, hand
<1>2. Rows \subseteq Handle /\ Handle \subseteq Nat
  BY TableAssumption DEF Rows
<1>3. lo \in Nat /\ hi \in Nat /\ \A h \in Rows : lo <= h /\ h <= hi
  <2>1. CASE Rows = {}
    BY SMTT(60), <2>1
  <2>2. CASE Rows # {}
    <3>1. \E h \in Rows : \A k \in Rows : h <= k
      BY <1>2, <2>2, SmallestOf
    <3>2. \E h \in Rows : \A k \in Rows : k <= h
      BY <1>2, <2>2, LargestOf
    <3>3. lo \in Rows /\ hi \in Rows /\ \A h \in Rows : lo <= h /\ h <= hi
      BY <2>2, <3>1, <3>2
    <3> QED BY <1>2, <3>3
  <2> QED BY <2>1, <2>2
<1> HIDE DEF lo, hi
<1>4. /\ job' \in JobRecs /\ job'.state = "running" /\ job'.start = lo /\ job'.end = hi
  BY <1>1, <1>3 DEF IInv, IndexInv, DataType, JobRecs
<1>5. DataType'
  BY <1>1, <1>4 DEF IInv, IndexInv, DataType
<1>6. Synced
  BY ServerAssumption DEF IInv, LagInv, WorkerInv, FirstReorg, Reorganizes, Runs
<1>7. AllWrite
  <2>1. SUFFICES ASSUME NEW x \in Server, Live(x) PROVE Writes(txn[x])
    BY DEF AllWrite
  <2>2. txn[x].ver = meta.ver \/ txn[x].ver + 1 = meta.ver
    BY <1>6, <2>1, LiveLag DEF IInv, IndexInv
  <2> QED BY <1>1, <2>1, <2>2 DEF IInv, IndexInv, LiveInv, Writable
<1>8. FillInv'
  <2>1. /\ (Synced' <=> Synced) /\ (AllWrite' <=> AllWrite)
        /\ Rows' = Rows /\ \A h : Has(h)' <=> Has(h)
    BY <1>1, SameIndex
  <2>2. FillInv
    BY DEF IInv, IndexInv
  <2> QED BY <1>1, <1>3, <1>4, <1>6, <1>7, <2>1, <2>2 DEF FillInv
<1> QED BY <1>1, <1>4, <1>5, <1>8, ReorgQuiet

\* A backfill transaction reads: of the rows up to where it will go on, it takes all.
LEMMA FillReadStep == ASSUME IInv, ~Unique, NEW s \in Server, FillRead(s) PROVE IndexInv'
<1> DEFINE r == reorg[s]
           last == RegionEnd(r.pos, r.end)
           left == {h \in Rows : r.pos <= h /\ h <= last}
           batch == {h \in left : Cardinality({k \in left : k < h}) < BatchCnt}
           next == IF batch = left THEN last + 1 ELSE 1 + (CHOOSE h \in batch : \A k \in batch : k <= h)
           new == {<<r.id, row[h], h>> : h \in batch}
<1>1. /\ UNCHANGED <<row, entry, schema, valid, fresh, granted, txn, meta, owner, job, ended, ranges, gone, reorg, closed>>
      /\ fill' = [fill EXCEPT ![s] =
                    [on |-> TRUE, add |-> new, next |-> next,
                     keys |-> {IndexKey(e) : e \in new} \cup {RowKey(e[3]) : e \in new}]]
      /\ r.on /\ r.result = "none"
  <2>1. new \ (IF Unique THEN entry ELSE {}) = new
    OBVIOUS
  <2>2. {e \in entry \cup new : Unique /\ \E a \in new : IndexKey(a) = IndexKey(e) /\ a # e} = {}
    OBVIOUS
  <2> HIDE DEF new
  <2> QED BY <2>1, <2>2 DEF FillRead, dataVars, hand, new
<1>2. /\ r.pos \in Nat /\ r.end \in Nat /\ r.id \in Nat /\ DOMAIN fill = Server
      /\ row \in [Handle -> Value \cup {NoRow}]
  BY DEF IInv, IndexInv, DataType, ReorgRecs
<1>3. last \in Nat
  BY <1>2, RegionEndIs
<1> HIDE DEF last
<1>4. left \subseteq Rows /\ batch \subseteq left /\ left \subseteq Handle /\ Handle \subseteq Nat
  BY TableAssumption DEF Rows
<1>5. /\ next \in Nat
      /\ \A h \in Rows : r.pos <= h /\ h < next => h \in batch
  <2>1. CASE batch = left
    <3>1. next = last + 1
      BY <2>1
    <3>2. ASSUME NEW h \in Rows, r.pos <= h, h < last + 1 PROVE h \in left
      <4>1. h \in Nat
        BY TableAssumption DEF Rows
      <4>2. h <= last
        BY SMTT(60), <1>3, <3>2, <4>1
      <4> QED BY <3>2, <4>2
    <3>3. last + 1 \in Nat
      BY SMTT(60), <1>3
    <3> HIDE DEF next
    <3> QED BY <2>1, <3>1, <3>2, <3>3
  <2>2. CASE batch # left
    <3> DEFINE m == CHOOSE h \in batch : \A k \in batch : k <= h
    <3>1. m \in batch /\ \A h \in left : h <= m => h \in batch
      BY <1>4, <2>2, BatchIs
    <3>2. next = 1 + m
      BY <2>2
    <3>3. m \in Nat /\ m <= last
      BY <1>4, <3>1
    <3> HIDE DEF m, next, batch
    <3>4. 1 + m \in Nat
      BY SMTT(60), <3>3
    <3>5. ASSUME NEW h \in Rows, r.pos <= h, h < 1 + m PROVE h \in batch
      <4>1. h \in Nat
        BY TableAssumption DEF Rows
      <4>2. h <= m /\ h <= last
        BY SMTT(60), <1>3, <3>3, <3>5, <4>1
      <4> QED BY <3>1, <3>5, <4>2
    <3> QED BY <3>2, <3>4, <3>5
  <2> QED BY <2>1, <2>2
<1> HIDE DEF next, batch, left
<1>6. ASSUME NEW e \in new
      PROVE  e \in Entries /\ e[1] = r.id /\ e[2] = row[e[3]]
  <2>1. PICK h \in batch : e = <<r.id, row[h], h>>
    BY <1>6
  <2>2. h \in Handle /\ row[h] \in Value
    BY <1>2, <1>4 DEF Rows
  <2> QED BY <1>2, <2>1, <2>2, EntryMade
<1>7. \A h \in batch : <<r.id, row[h], h>> \in new
  OBVIOUS
<1> HIDE DEF new
<1>8. /\ fill'[s].add = new /\ fill'[s].next = next
      /\ \A e \in new : RowKey(e[3]) \in fill'[s].keys
      /\ DOMAIN fill' = Server /\ \A x \in Server \ {s} : fill'[x] = fill[x]
  BY <1>1, <1>2
<1>9. DataType'
  <2>1. \A x \in Server : fill'[x].next \in Nat /\ fill'[x].add \subseteq Entries
    BY <1>5, <1>6, <1>8 DEF IInv, IndexInv, DataType
  <2> QED BY <1>1, <1>8, <2>1 DEF IInv, IndexInv, DataType
<1>10. FillInv'
  <2>1. /\ (Synced' <=> Synced) /\ (AllWrite' <=> AllWrite)
        /\ Rows' = Rows /\ \A h \in Rows : Has(h)' <=> Has(h)
    BY <1>1, SameIndex
  <2>2. FillInv
    BY DEF IInv, IndexInv
  <2>3. ASSUME NEW x \in Server \ closed, fill'[x].on
        PROVE  /\ reorg[x].on /\ reorg[x].result = "none"
               /\ \A e \in fill'[x].add : e[1] = meta.id /\ e[2] = row[e[3]] /\ RowKey(e[3]) \in fill'[x].keys
               /\ \A h \in Rows : reorg[x].pos <= h /\ h < fill'[x].next =>
                        Has(h)' \/ <<meta.id, row[h], h>> \in fill'[x].add
    <3>1. CASE x = s
      <4>1. r.id = meta.id
        BY <1>1, <2>2, <2>3, <3>1 DEF FillInv
      <4> QED BY <1>1, <1>5, <1>6, <1>7, <1>8, <3>1, <4>1
    <3>2. CASE x # s
      BY SMTT(60), <1>8, <2>1, <2>2, <2>3, <3>2 DEF FillInv
    <3> QED BY <3>1, <3>2
  <2>4. /\ meta.st = "writeReorg" /\ job.snap =>
            /\ Synced' /\ AllWrite'
            /\ \A h \in Rows : Has(h)' \/ (job.start <= h /\ h <= job.end)
        /\ \A x \in Server \ closed : reorg[x].on =>
            /\ owner = x /\ reorg[x].id = meta.id /\ meta.st = "writeReorg" /\ Synced' /\ AllWrite'
            /\ \A h \in Rows : Has(h)' \/ (/\ reorg[x].pos <= h /\ reorg[x].next <= h /\ h <= reorg[x].end
                                          /\ reorg[x].result # "ok")
    BY <2>1, <2>2 DEF FillInv
  <2>5. row' = row /\ meta' = meta /\ owner' = owner /\ job' = job /\ reorg' = reorg /\ closed' = closed
    BY <1>1
  <2> QED BY SMTT(60), <2>1, <2>3, <2>4, <2>5 DEF FillInv
<1> QED BY <1>1, <1>9, <1>10, ReorgQuiet

------------------------------------------------------------------------------
(* The theorem *)

\* Every step keeps the invariant that does not come too early or too late after a shutdown.
LEMMA IndexInvStep ==
    ASSUME ~Unique, IInv, ConvertInv, [Next]_vars, handed' = {}
    PROVE  (IInv /\ ConvertInv)'
<1>1. LagInv'
  BY LagInvStep DEF IInv
<1>2. CASE UNCHANGED vars
  <2>1. /\ UNCHANGED <<row, entry, schema, valid, fresh, granted, txn, meta, ranges, gone, job, ended>>
        /\ UNCHANGED <<owner, reorg, fill, closed>>
    BY <1>2 DEF vars
  <2>2. DataType'
    BY <2>1 DEF IInv, IndexInv, DataType
  <2>3. Leased' = Leased /\ \A x \in Server : Live(x)' <=> Live(x)
    BY <2>1 DEF Leased, Live, SchemaValid
  <2>4. IndexInv'
    BY <2>1, <2>2, <2>3, TxnStays, QuietIndex
  <2>5. ConvertInv'
    BY <2>1, <2>3, ConvertFrame
  <2> QED BY <1>1, <2>4, <2>5 DEF IInv
<1>3. CASE Next
  <2>1. ConvertInv'
    BY <1>3, ConvertStep
  <2>2. ASSUME Cancel PROVE IndexInv'
    BY <2>2, MoveSteps
  <2>3. ASSUME NEW i \in ranges, DeleteRange(i) PROVE IndexInv'
    BY <2>3, DeleteRangeStep
  <2>4. ASSUME NEW s \in Server, NEW h \in Handle, NEW v \in Value \cup {NoRow}, Begin(s, h, v)
        PROVE  IndexInv'
    BY <2>4, BeginStep
  <2>5. ASSUME NEW s \in Server, Commit(s) \/ FillStep(s)
        PROVE  IndexInv'
    <3>1. FillCommit(s) => s \notin closed
      BY DEF FillCommit
    <3> QED BY <2>5, <3>1, CommitStep, RefusedStep, FillReadStep, FillCommitStep DEF FillStep
  <2>6. ASSUME NEW s \in Server, Reload(s) \/ Load(s) \/ Validate(s) \/ Crash(s) \/ Close(s) \/ Campaign(s)
        PROVE  IndexInv'
    BY <2>6, LoadIndex, CrashIndex, CloseIndex, CampaignIndex
  <2>7. ASSUME NEW s \in Server, WorkerStep(s)
        PROVE  IndexInv'
    BY <2>7, MoveSteps, WaitedIndex, FinishStep, EndStep, AddIndexStep, DropIndexStep, FirstReorgStep,
       StartReorgStep, ReorgTimeoutStep, ReorgDoneStep DEF WorkerStep
  <2>8. IndexInv'
    <3>1. ASSUME NEW s \in Server, \E h \in Handle, v \in Value \cup {NoRow} : Begin(s, h, v)
          PROVE  IndexInv'
      BY <2>4, <3>1
    <3> QED BY <3>1, <1>3, <2>2, <2>3, <2>5, <2>6, <2>7 DEF Next
  <2> QED BY <1>1, <2>1, <2>8 DEF IInv
<1> QED BY <1>2, <1>3

\* The index is in order as far as nobody came too early or too late.
KeptInv == handed = {} => IInv /\ ConvertInv

\* Whatever the servers, rows, regions, jobs and bounds, and whoever crashes or is shut down: an
\* index that is not unique has exactly one entry for every row while it is public or a server may
\* read through it, and an index whose range has been deleted stays empty, unless after a shutdown
\* a worker went on too early or a backfill too long (onCreateIndex, onDropIndex, finishDDLJob).
THEOREM IndexStaysExact == ASSUME ~Unique PROVE Spec => []IndexExact
<1>1. Init => KeptInv
  BY IndexInvInit DEF KeptInv
<1>2. KeptInv /\ [Next]_vars => KeptInv'
  <2> SUFFICES ASSUME KeptInv, [Next]_vars, handed' = {}
               PROVE  (IInv /\ ConvertInv)'
    BY DEF KeptInv
  <2>1. handed = {}
    BY HandSteps
  <2> QED BY <2>1, IndexInvStep DEF KeptInv
<1>3. KeptInv => IndexExact
  BY IndexInvImplies DEF KeptInv, IndexExact
<1> QED
  BY <1>1, <1>2, <1>3, PTL DEF Spec
=============================================================================
