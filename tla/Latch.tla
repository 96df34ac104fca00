------------------------------- MODULE Latch -------------------------------
(***************************************************************************)
(* The transaction latches of the embedded storage (store/tikv/latch), used *)
(* by tikvTxn.Commit: before two-phase commit a transaction takes, in key   *)
(* order, a latch for each of its keys; it is told that it is stale when a  *)
(* transaction with a later commit timestamp has already written one of     *)
(* them.  One goroutine (LatchesScheduler.run) releases the latches of      *)
(* finished transactions and goes on acquiring for the ones it wakes.       *)
(*                                                                          *)
(* The list of nodes of a slot is a function of the key; its length is the  *)
(* number of keys of the slot that have a node.  Every step between a       *)
(* slot's Lock and Unlock is one action.                                    *)
(***************************************************************************)
EXTENDS Integers, Sequences, FiniteSets

CONSTANTS
    Txn,         \* transactions, numbered in the order they start
    Keys,        \* keys, ordered as numbers
    NumSlots,    \* len(latches.slots)
    SlotOf,      \* the slot of each key (slotID)
    KeySeqs,     \* the sorted key lists a transaction may have
    ListCount,   \* latchListCount
    Expire,      \* expireDuration
    ChanSize,    \* lockChanSize
    MaxTS,       \* bound: the last timestamp handed out
    None         \* the nil *Lock

Slots == 0..(NumSlots - 1)

ASSUME LatchAssumption ==
    /\ NumSlots \in Nat \ {0} /\ SlotOf \in [Keys -> Slots] /\ Keys \subseteq Nat
    /\ ListCount \in Nat /\ Expire \in Nat \ {0} /\ ChanSize \in Nat \ {0} /\ MaxTS \in Nat
    /\ Txn \subseteq Nat /\ None \notin Txn
    /\ KeySeqs \subseteq Seq(Keys)
    /\ \A q \in KeySeqs : q # <<>> /\ \A i, j \in 1..Len(q) : i < j => q[i] < q[j]

VARIABLES
    clock,       \* the next timestamp of the oracle
    keys,        \* Lock.keys of each transaction
    start,       \* Lock.startTS
    commit,      \* Lock.commitTS, 0 for not committed
    acquired,    \* Lock.acquiredCount
    stale,       \* Lock.isStale
    pc,          \* where the transaction's goroutine is
    node,        \* the node of each key: [in, max, val]
    waiting,     \* latch.waiting of each slot
    unlockCh,    \* the scheduler's channel
    closed,      \* LatchesScheduler.closed
    sched,       \* LatchesScheduler.run: [at, cur, wake]
    recycler,    \* the goroutine of Latches.recycle: [ts, next]
    skipped      \* ghost: the transactions passed over when a stale one was woken, until they are woken

lockVars == <<keys, start, commit, acquired, stale, pc>>
vars == <<clock, keys, start, commit, acquired, stale, pc, node, waiting, unlockCh, closed,
          sched, recycler, skipped>>

NoNode == [in |-> FALSE, max |-> 0, val |-> None]
Idle == [at |-> "idle", cur |-> None, wake |-> <<>>]
NoRecycle == [ts |-> 0, next |-> NumSlots]

NextKey(t) == keys[t][acquired[t] + 1]

Holds(t, k) == \E i \in 1..acquired[t] : keys[t][i] = k

MaxOf(a, b) == IF a >= b THEN a ELSE b

----------------------------------------------------------------------------
(* latch.recycle: the free nodes of a slot whose last commit is old go. *)

\* Mutant: a node that is owned is recycled too.
ExpiredOwned(n, ts) == ts - n.max >= Expire

Expired(n, ts) == n.val = None /\ ts - n.max >= Expire

Recycled(nodes, s, ts) ==
    [k \in Keys |-> IF SlotOf[k] = s /\ nodes[k].in /\ Expired(nodes[k], ts)
                    THEN NoNode ELSE nodes[k]]

Count(s) == Cardinality({k \in Keys : SlotOf[k] = s /\ node[k].in})

\* The nodes acquireSlot works on: recycled first when the list is long.
Nodes(s, ts) == IF Count(s) >= ListCount THEN Recycled(node, s, ts) ELSE node

----------------------------------------------------------------------------
\* tikvTxn starts, and calls Lock when it commits.
Begin(t) ==
    /\ pc[t] = "new" /\ \A u \in Txn : u < t => pc[u] # "new"
    /\ clock < MaxTS
    /\ \E q \in KeySeqs : keys' = [keys EXCEPT ![t] = q]
    /\ start' = [start EXCEPT ![t] = clock]
    /\ clock' = clock + 1
    /\ pc' = [pc EXCEPT ![t] = "acquire"]
    /\ UNCHANGED <<commit, acquired, stale, node, waiting, unlockCh, closed, sched, recycler, skipped>>

\* Who runs acquire for t: its own goroutine, or the scheduler for the first of
\* the transactions it wakes.
BySched(t) == sched.at = "wake" /\ sched.wake # <<>> /\ Head(sched.wake) = t

Acquiring(t) == ~stale[t] /\ (pc[t] = "acquire" \/ BySched(t))

\* The scheduler is through with the first transaction of its wakeup list.
SchedPasses(t, over) ==
    sched' = IF over /\ BySched(t) THEN [sched EXCEPT !.wake = Tail(@)] ELSE sched

\* acquireSlot succeeds: t owns the node; with its last key Lock returns.
AcquireSlot(t) ==
    LET k  == NextKey(t)
        ns == Nodes(SlotOf[k], start[t])
        last == acquired[t] + 1 = Len(keys[t])
    IN  /\ Acquiring(t)
        /\ ~ns[k].in \/ (ns[k].max <= start[t] /\ ns[k].val = None)
        /\ node' = [ns EXCEPT ![k] = [in |-> TRUE, max |-> ns[k].max, val |-> t]]
        /\ acquired' = [acquired EXCEPT ![t] = @ + 1]
        /\ pc' = IF last THEN [pc EXCEPT ![t] = "locked"] ELSE pc
        /\ SchedPasses(t, last)
        /\ UNCHANGED <<clock, keys, start, commit, stale, waiting, unlockCh, closed, recycler, skipped>>

\* acquireSlot finds a later commit: t is stale, Lock returns.
AcquireStale(t) ==
    LET k  == NextKey(t)
        ns == Nodes(SlotOf[k], start[t])
    IN  /\ Acquiring(t)
        /\ ns[k].in /\ ns[k].max > start[t]
        /\ node' = ns
        /\ stale' = [stale EXCEPT ![t] = TRUE]
        /\ pc' = [pc EXCEPT ![t] = "stale"]
        /\ SchedPasses(t, TRUE)
        /\ UNCHANGED <<clock, keys, start, commit, acquired, waiting, unlockCh, closed, recycler, skipped>>

\* acquireSlot finds the latch taken: t joins the slot's waiting list.
AcquireLocked(t) ==
    LET k  == NextKey(t)
        ns == Nodes(SlotOf[k], start[t])
    IN  /\ Acquiring(t)
        /\ ns[k].in /\ ns[k].max <= start[t] /\ ns[k].val # None
        /\ node' = ns
        /\ waiting' = [waiting EXCEPT ![SlotOf[k]] = Append(@, t)]
        /\ pc' = [pc EXCEPT ![t] = "wait"]
        /\ SchedPasses(t, TRUE)
        /\ UNCHANGED <<clock, keys, start, commit, acquired, stale, unlockCh, closed, recycler, skipped>>

\* Commit: two-phase commit succeeds and SetCommitTS is called, or it fails; a
\* stale transaction does not try.  One whose result is undetermined counts as
\* failed, for the latches do not learn of it: that it may have committed is
\* left to two-phase commit, which finds its writes in the store.
Commit(t) ==
    /\ pc[t] = "locked"
    /\ clock < MaxTS
    /\ commit' = [commit EXCEPT ![t] = clock]
    /\ clock' = clock + 1
    /\ pc' = [pc EXCEPT ![t] = "unlock"]
    /\ UNCHANGED <<keys, start, acquired, stale, node, waiting, unlockCh, closed, sched, recycler, skipped>>

GiveUp(t) ==
    /\ pc[t] \in {"locked", "stale"}
    /\ pc' = [pc EXCEPT ![t] = "unlock"]
    /\ UNCHANGED <<clock, keys, start, commit, acquired, stale, node, waiting, unlockCh, closed,
                   sched, recycler, skipped>>

\* UnLock takes the read lock and looks at closed; the read lock is held until
\* the channel has taken the lock.
UnLock(t) ==
    /\ pc[t] = "unlock"
    /\ pc' = [pc EXCEPT ![t] = IF closed THEN "dropped" ELSE "sending"]
    /\ UNCHANGED <<clock, keys, start, commit, acquired, stale, node, waiting, unlockCh, closed,
                   sched, recycler, skipped>>

Send(t) ==
    /\ pc[t] = "sending"
    /\ Len(unlockCh) < ChanSize
    /\ unlockCh' = Append(unlockCh, t)
    /\ pc' = [pc EXCEPT ![t] = "sent"]
    /\ UNCHANGED <<clock, keys, start, commit, acquired, stale, node, waiting, closed, sched, recycler, skipped>>

----------------------------------------------------------------------------
(* LatchesScheduler.run *)

Receive ==
    /\ sched.at = "idle" /\ unlockCh # <<>>
    /\ sched' = [at |-> "release", cur |-> Head(unlockCh), wake |-> <<>>]
    /\ unlockCh' = Tail(unlockCh)
    /\ UNCHANGED <<clock, keys, start, commit, acquired, stale, pc, node, waiting, closed, recycler, skipped>>

\* The places of a slot's waiting list that wait for k.
WaitersFor(k) == {i \in 1..Len(waiting[SlotOf[k]]) : NextKey(waiting[SlotOf[k]][i]) = k}

RemoveNth(q, i) == [j \in 1..(Len(q) - 1) |-> IF j < i THEN q[j] ELSE q[j + 1]]

\* Mutant: the node does not keep the commit timestamp.
ReleaseForgets ==
    LET c == sched.cur
        k == keys[c][acquired[c]]
    IN  /\ sched.at = "release" /\ acquired[c] > 0 /\ WaitersFor(k) = {}
        /\ node' = [node EXCEPT ![k] = [in |-> TRUE, max |-> @.max, val |-> None]]
        /\ acquired' = [acquired EXCEPT ![c] = @ - 1]
        /\ UNCHANGED <<clock, keys, start, commit, stale, pc, waiting, unlockCh, closed, sched,
                       recycler, skipped>>

\* releaseSlot of the last acquired key when nobody waits for it.
ReleaseSlot ==
    LET c == sched.cur
        k == keys[c][acquired[c]]
    IN  /\ sched.at = "release" /\ acquired[c] > 0 /\ WaitersFor(k) = {}
        /\ node' = [node EXCEPT ![k] = [in |-> TRUE, max |-> MaxOf(@.max, commit[c]), val |-> None]]
        /\ acquired' = [acquired EXCEPT ![c] = @ - 1]
        /\ UNCHANGED <<clock, keys, start, commit, stale, pc, waiting, unlockCh, closed, sched,
                       recycler, skipped>>

\* releaseSlot when the first waiter is woken: it is taken off the list, and
\* marked stale when a later commit than its start is known.
ReleaseWakes ==
    LET c == sched.cur
        k == keys[c][acquired[c]]
        s == SlotOf[k]
        i == CHOOSE j \in WaitersFor(k) : \A h \in WaitersFor(k) : j <= h
        w == waiting[s][i]
        m == MaxOf(node[k].max, commit[c])
    IN  /\ sched.at = "release" /\ acquired[c] > 0 /\ WaitersFor(k) # {}
        /\ node' = [node EXCEPT ![k] = [in |-> TRUE, max |-> m, val |-> None]]
        /\ acquired' = [acquired EXCEPT ![c] = @ - 1]
        /\ waiting' = [waiting EXCEPT ![s] = RemoveNth(@, i)]
        /\ stale' = [stale EXCEPT ![w] = @ \/ m > start[w]]
        /\ sched' = [sched EXCEPT !.wake = Append(@, w)]
        /\ skipped' = (IF m > start[w] THEN skipped \cup {waiting[s][j] : j \in WaitersFor(k)} ELSE skipped) \ {w}
        /\ UNCHANGED <<clock, keys, start, commit, pc, unlockCh, closed, recycler>>

StartWake ==
    /\ sched.at = "release" /\ acquired[sched.cur] = 0
    /\ sched' = [sched EXCEPT !.at = "wake"]
    /\ UNCHANGED <<clock, lockVars, node, waiting, unlockCh, closed, recycler, skipped>>

\* Mutant: wakeup forgets wg.Done for a stale transaction.
WakeStaleSilent ==
    /\ sched.at = "wake" /\ sched.wake # <<>> /\ stale[Head(sched.wake)]
    /\ sched' = [sched EXCEPT !.wake = Tail(@)]
    /\ UNCHANGED <<clock, lockVars, node, waiting, unlockCh, closed, recycler, skipped>>

\* wakeup of a transaction that releaseSlot has marked stale.
WakeStale ==
    /\ sched.at = "wake" /\ sched.wake # <<>> /\ stale[Head(sched.wake)]
    /\ pc' = [pc EXCEPT ![Head(sched.wake)] = "stale"]
    /\ sched' = [sched EXCEPT !.wake = Tail(@)]
    /\ UNCHANGED <<clock, keys, start, commit, acquired, stale, node, waiting, unlockCh, closed,
                   recycler, skipped>>

\* The end of a turn: after enough commits a recycle of all slots is started.
TurnEnds ==
    /\ sched.at = "wake" /\ sched.wake = <<>>
    /\ sched' = Idle
    /\ \/ UNCHANGED recycler
       \/ /\ commit[sched.cur] > start[sched.cur] /\ recycler = NoRecycle
          /\ recycler' = [ts |-> commit[sched.cur], next |-> 0]
    /\ UNCHANGED <<clock, lockVars, node, waiting, unlockCh, closed, skipped>>

\* Latches.recycle, one slot at a time.
RecycleSlot ==
    /\ recycler # NoRecycle
    /\ node' = Recycled(node, recycler.next, recycler.ts)
    /\ recycler' = IF recycler.next + 1 = NumSlots THEN NoRecycle
                   ELSE [recycler EXCEPT !.next = @ + 1]
    /\ UNCHANGED <<clock, lockVars, waiting, unlockCh, closed, sched, skipped>>

\* Close takes the write lock: no UnLock is sending.
Close ==
    /\ ~closed /\ \A t \in Txn : pc[t] # "sending"
    /\ closed' = TRUE
    /\ UNCHANGED <<clock, lockVars, node, waiting, unlockCh, sched, recycler, skipped>>

\* A pause as long as expireDuration.
Pause ==
    /\ clock + Expire < MaxTS
    /\ clock' = clock + Expire
    /\ UNCHANGED <<lockVars, node, waiting, unlockCh, closed, sched, recycler, skipped>>

----------------------------------------------------------------------------
\* The oracle's timestamps are far above expireDuration.
Init ==
    /\ clock = Expire + 1
    /\ keys = [t \in Txn |-> <<>>]
    /\ start = [t \in Txn |-> 0]
    /\ commit = [t \in Txn |-> 0]
    /\ acquired = [t \in Txn |-> 0]
    /\ stale = [t \in Txn |-> FALSE]
    /\ pc = [t \in Txn |-> "new"]
    /\ node = [k \in Keys |-> NoNode]
    /\ waiting = [s \in Slots |-> <<>>]
    /\ unlockCh = <<>>
    /\ closed = FALSE
    /\ sched = Idle
    /\ recycler = NoRecycle
    /\ skipped = {}

Acquire(t) == AcquireSlot(t) \/ AcquireStale(t) \/ AcquireLocked(t)

TxnStep(t) == Acquire(t) \/ Commit(t) \/ GiveUp(t) \/ UnLock(t) \/ Send(t)

Scheduler == Receive \/ ReleaseSlot \/ ReleaseWakes \/ StartWake \/ WakeStale \/ TurnEnds

Next ==
    \/ \E t \in Txn : Begin(t) \/ TxnStep(t)
    \/ Scheduler
    \/ RecycleSlot
    \/ Close
    \/ Pause

Spec == Init /\ [][Next]_vars

\* Every goroutine that can take a step does: the transactions' own (two-phase
\* commit returns, with a commit or an error) and the scheduler's.
Fairness ==
    /\ \A t \in Txn : WF_vars(TxnStep(t))
    /\ WF_vars(Scheduler)

FairSpec == Spec /\ Fairness

----------------------------------------------------------------------------
TypeOK ==
    /\ clock \in Nat
    /\ keys \in [Txn -> KeySeqs \cup {<<>>}]
    /\ start \in [Txn -> Nat] /\ commit \in [Txn -> Nat]
    /\ acquired \in [Txn -> Nat] /\ \A t \in Txn : acquired[t] <= Len(keys[t])
    /\ stale \in [Txn -> BOOLEAN]
    /\ pc \in [Txn -> {"new", "acquire", "wait", "locked", "stale", "unlock", "sending", "sent", "dropped"}]
    /\ node \in [Keys -> [in : BOOLEAN, max : Nat, val : Txn \cup {None}]]
    /\ waiting \in [Slots -> Seq(Txn)]
    /\ unlockCh \in Seq(Txn) /\ Len(unlockCh) <= ChanSize
    /\ closed \in BOOLEAN
    /\ sched \in [at : {"idle", "release", "wake"}, cur : Txn \cup {None}, wake : Seq(Txn)]
    /\ sched.at # "idle" => sched.cur \in Txn
    /\ recycler \in [ts : Nat, next : 0..NumSlots]
    /\ skipped \subseteq Txn

\* The nodes and the locks tell the same story: a transaction owns the node of
\* each key it has acquired, and of no other.  So no two transactions are past
\* Lock with a key in common, and releaseSlot never panics with "releaseSlot
\* wrong" nor finds its node recycled.
OwnersAgree ==
    \A t \in Txn, k \in Keys : Holds(t, k) <=> node[k].in /\ node[k].val = t

\* What latches are for: a transaction that holds a key knows of every commit on
\* it that is later than its own start.  recycle may forget one only when the
\* transaction has lasted as long as expireDuration.
ConflictSeen ==
    \A t, u \in Txn : \A k \in Keys :
        /\ t # u /\ Holds(t, k) /\ commit[u] > start[t] /\ (\E i \in 1..Len(keys[u]) : keys[u][i] = k)
        => clock - start[t] >= Expire

\* t was passed over, or waits for a latch that such a transaction holds, and so
\* on: t is in every set of transactions closed under waiting.
Stranded(t) ==
    \A S \in SUBSET Txn :
        /\ skipped \subseteq S
        /\ \A u \in Txn : pc[u] = "wait" /\ node[NextKey(u)].val \in S => u \in S
        => t \in S

\* A goroutine blocked in Lock gets through, unless the scheduler is closed or
\* releaseSlot passed it over, or one whose latch it waits for: releaseSlot
\* wakes the first waiter alone, and one that is stale takes no latch whose
\* release would wake the next.
WaiterReturns ==
    \A t \in Txn : pc[t] = "wait" ~> (pc[t] # "wait" \/ closed \/ Stranded(t))

\* The same without the last exception: Lock blocks only as long as the latches cannot be
\* obtained.
LockReturns == \A t \in Txn : pc[t] = "wait" ~> (pc[t] # "wait" \/ closed)
============================================================================
