---------------------------- MODULE LatchProofs ----------------------------
(***************************************************************************)
(* The latches exclude each other and forget no recent commit, for any      *)
(* transactions, keys, slots, list length, channel and expiry.              *)
(***************************************************************************)
EXTENDS Latch, TLAPS

\* Leaves that name no prover are for Zenon; those the SMT solver proves say so.
USE ZenonT(20)

HasKey(u, k) == \E i \in 1..Len(keys[u]) : keys[u][i] = k

\* A transaction is in one place at a time: in at most one waiting list or in the list of those
\* the scheduler wakes, once, and only while its goroutine is blocked in Lock.
QueuedOnce ==
    /\ \A s \in Slots : \A i \in 1..Len(waiting[s]) : pc[waiting[s][i]] = "wait"
    /\ \A s, r \in Slots : \A i \in 1..Len(waiting[s]), j \in 1..Len(waiting[r]) :
         waiting[s][i] = waiting[r][j] => s = r /\ i = j
    /\ \A i \in 1..Len(sched.wake) : pc[sched.wake[i]] = "wait"
    /\ \A i, j \in 1..Len(sched.wake) : sched.wake[i] = sched.wake[j] => i = j
    /\ \A s \in Slots : \A i \in 1..Len(waiting[s]), j \in 1..Len(sched.wake) :
         waiting[s][i] # sched.wake[j]

\* How far a transaction is with its keys at each place of its goroutine.
Progress ==
    \A t \in Txn :
        /\ pc[t] = "new" => acquired[t] = 0 /\ commit[t] = 0
        /\ pc[t] \in {"acquire", "wait"} => acquired[t] < Len(keys[t])
        /\ pc[t] = "locked" => acquired[t] = Len(keys[t])

\* Only a transaction that is past UnLock is released.
ReleasesDone ==
    /\ sched.at # "idle" => pc[sched.cur] = "sent"
    /\ \A i \in 1..Len(unlockCh) : pc[unlockCh[i]] = "sent"

\* The recycler stops at the last slot.
RecyclerInRange == recycler = NoRecycle \/ recycler.next < NumSlots

\* The clock is ahead of every timestamp.
ClockAhead ==
    /\ \A t \in Txn : start[t] < clock /\ commit[t] < clock
    /\ recycler.ts < clock

\* A commit is remembered: its transaction still has the latch, or the node knows a commit at
\* least as late, or it is older than expireDuration.
CommitKept ==
    \A u \in Txn, k \in Keys :
        commit[u] > 0 /\ HasKey(u, k)
            => \/ Holds(u, k)
               \/ node[k].in /\ node[k].max >= commit[u]
               \/ clock - commit[u] >= Expire

\* The inductive invariant.
IInv ==
    /\ TypeOK /\ QueuedOnce /\ Progress /\ ReleasesDone /\ RecyclerInRange /\ ClockAhead
    /\ OwnersAgree /\ CommitKept /\ ConflictSeen

----------------------------------------------------------------------------
(* The operators *)

LEMMA SeqOf ==
    ASSUME NEW S, NEW n \in Nat, NEW q \in [1..n -> S]
    PROVE  q \in Seq(S) /\ Len(q) = n
BY SMTT(60)

\* ns are the nodes after recycling at ts: free nodes with an old commit may be gone.
Shrunk(ns, ts) ==
    /\ ns \in [Keys -> [in : BOOLEAN, max : Nat, val : Txn \cup {None}]]
    /\ \A k \in Keys :
         \/ ns[k] = node[k]
         \/ ns[k] = NoNode /\ node[k].val = None /\ ts - node[k].max >= Expire

\* recycle only takes free nodes with an old commit.
LEMMA RecycledShrinks ==
    ASSUME TypeOK, NEW s, NEW ts
    PROVE  Shrunk(Recycled(node, s, ts), ts)
<1>1. NoNode \in [in : BOOLEAN, max : Nat, val : Txn \cup {None}]
  BY DEF NoNode
<1>2. \A k \in Keys : node[k] \in [in : BOOLEAN, max : Nat, val : Txn \cup {None}]
  BY DEF TypeOK
<1> QED BY <1>1, <1>2 DEF Shrunk, Recycled, Expired

LEMMA NodesShrink ==
    ASSUME TypeOK, NEW s, NEW ts
    PROVE  Shrunk(Nodes(s, ts), ts)
<1>1. Shrunk(node, ts)
  BY DEF Shrunk, TypeOK
<1> QED BY <1>1, RecycledShrinks DEF Nodes

\* Recycling changes no owner.
LEMMA ShrunkOwners ==
    ASSUME TypeOK, NEW ns, NEW ts, Shrunk(ns, ts), NEW t \in Txn, NEW k \in Keys
    PROVE  (ns[k].in /\ ns[k].val = t) <=> (node[k].in /\ node[k].val = t)
<1>1. t # None
  BY LatchAssumption
<1> QED BY SMTT(60), <1>1 DEF Shrunk, NoNode

\* The keys of a transaction are a list of keys, of which it has acquired some.
LEMMA KeysAre ==
    ASSUME TypeOK, NEW u \in Txn
    PROVE  keys[u] \in Seq(Keys) /\ Len(keys[u]) \in Nat /\ acquired[u] \in 0..Len(keys[u])
<1>1. keys[u] \in KeySeqs \/ keys[u] = <<>>
  BY DEF TypeOK
<1>2. <<>> \in Seq(Keys) /\ KeySeqs \subseteq Seq(Keys)
  BY SMTT(60), LatchAssumption
<1>3. acquired[u] \in Nat /\ acquired[u] <= Len(keys[u])
  BY DEF TypeOK
<1>4. keys[u] \in Seq(Keys)
  BY <1>1, <1>2
<1>5. Len(keys[u]) \in Nat
  BY SMTT(60), <1>4
<1> QED BY SMTT(60), <1>3, <1>4, <1>5

\* The next key to acquire is one of the transaction's keys.
LEMMA NextKeyIn ==
    ASSUME TypeOK, NEW t \in Txn, acquired[t] < Len(keys[t])
    PROVE  NextKey(t) \in Keys /\ HasKey(t, NextKey(t))
<1>1. keys[t] \in Seq(Keys) /\ acquired[t] \in Nat
  BY SMTT(60), LatchAssumption DEF TypeOK
<1>2. acquired[t] + 1 \in 1..Len(keys[t])
  BY SMTT(60), <1>1
<1> QED BY SMTT(60), <1>1, <1>2 DEF NextKey, HasKey

\* acquire adds one key to those held.
LEMMA HoldsMore ==
    ASSUME TypeOK, NEW t \in Txn, acquired' = [acquired EXCEPT ![t] = @ + 1], keys' = keys,
           NEW u \in Txn, NEW k \in Keys
    PROVE  Holds(u, k)' <=> Holds(u, k) \/ (u = t /\ k = NextKey(t))
<1>1. acquired[u] \in Nat /\ acquired[t] \in Nat
  BY DEF TypeOK
<1>2. CASE u = t
  <2>1. acquired'[u] = acquired[u] + 1
    BY <1>2 DEF TypeOK
  <2>2. \A i : i \in 1..(acquired[u] + 1) <=> i \in 1..acquired[u] \/ i = acquired[u] + 1
    BY SMTT(60), <1>1
  <2> QED BY <1>2, <2>1, <2>2 DEF Holds, NextKey
<1>3. CASE u # t
  BY <1>3 DEF Holds, TypeOK
<1> QED BY <1>2, <1>3

\* release takes one key from those held: the keys of a transaction are distinct.
LEMMA HoldsLess ==
    ASSUME TypeOK, NEW c \in Txn, acquired[c] > 0,
           acquired' = [acquired EXCEPT ![c] = @ - 1], keys' = keys,
           NEW u \in Txn, NEW k \in Keys
    PROVE  Holds(u, k)' <=> Holds(u, k) /\ ~(u = c /\ k = keys[c][acquired[c]])
<1>1. acquired[u] \in Nat /\ acquired[c] \in Nat
  BY DEF TypeOK
<1>2. CASE u = c
  <2>1. acquired'[u] = acquired[u] - 1
    BY <1>2 DEF TypeOK
  <2>2. \A i : i \in 1..(acquired[u] - 1) <=> i \in 1..acquired[u] /\ i # acquired[u]
    BY SMTT(60), <1>1, <1>2
  <2>3. acquired[c] <= Len(keys[c]) /\ keys[c] \in KeySeqs
    BY SMTT(60), <1>1 DEF TypeOK
  <2>4. keys[c] \in Seq(Keys)
    BY <2>3, LatchAssumption
  <2>5. \A i \in 1..(acquired[c] - 1) : keys[c][i] # keys[c][acquired[c]]
    <3> TAKE i \in 1..(acquired[c] - 1)
    <3>1. i \in 1..Len(keys[c]) /\ acquired[c] \in 1..Len(keys[c]) /\ i < acquired[c]
      BY SMTT(60), <1>1, <2>3, <2>4
    <3>2. keys[c][i] < keys[c][acquired[c]]
      BY <2>3, <3>1, LatchAssumption
    <3>3. keys[c][i] \in Keys /\ keys[c][acquired[c]] \in Keys
      BY SMTT(60), <2>4, <3>1
    <3>4. keys[c][i] \in Nat /\ keys[c][acquired[c]] \in Nat
      BY <3>3, LatchAssumption
    <3> QED BY SMTT(60), <3>2, <3>4
  <2> QED BY <1>2, <2>1, <2>2, <2>5 DEF Holds
<1>3. CASE u # c
  BY <1>3 DEF Holds, TypeOK
<1> QED BY <1>2, <1>3

\* The key that is released next is a key, and its transaction holds it.
LEMMA LastKeyHeld ==
    ASSUME TypeOK, NEW c \in Txn, acquired[c] > 0
    PROVE  keys[c][acquired[c]] \in Keys /\ Holds(c, keys[c][acquired[c]])
<1>1. acquired[c] \in Nat /\ acquired[c] <= Len(keys[c]) /\ keys[c] \in Seq(Keys)
  BY SMTT(60), LatchAssumption DEF TypeOK
<1>2. acquired[c] \in 1..Len(keys[c]) /\ acquired[c] \in 1..acquired[c]
  BY SMTT(60), <1>1
<1> QED BY SMTT(60), <1>1, <1>2 DEF Holds

----------------------------------------------------------------------------
(* What the steps do to owners and commits *)

\* The part of the invariant that is about nodes and timestamps.
Seen == OwnersAgree /\ CommitKept /\ ConflictSeen

\* Steps that touch neither nodes nor keys only let time pass.
LEMMA QuietStep ==
    ASSUME IInv, keys' = keys, start' = start, commit' = commit, acquired' = acquired, node' = node,
           clock' \in Nat, clock' >= clock
    PROVE  Seen'
<1>1. \A t \in Txn, k \in Keys : (Holds(t, k)' <=> Holds(t, k)) /\ (HasKey(t, k)' <=> HasKey(t, k))
  BY DEF Holds, HasKey
<1>2. OwnersAgree'
  BY <1>1 DEF IInv, OwnersAgree
<1>3. clock \in Nat /\ Expire \in Nat /\ \A t \in Txn : start[t] \in Nat /\ commit[t] \in Nat
  BY LatchAssumption DEF IInv, TypeOK
<1>4. CommitKept'
  BY SMTT(60), <1>1, <1>3 DEF IInv, CommitKept
<1>5. ConflictSeen'
  BY SMTT(60), <1>1, <1>3 DEF IInv, ConflictSeen, HasKey
<1> QED BY <1>2, <1>4, <1>5 DEF Seen

\* A shrunk list keeps the owners, and the commits it forgets are old.
LEMMA ShrinkStep ==
    ASSUME IInv, NEW ts \in Nat, ts <= clock, Shrunk(node', ts),
           keys' = keys, start' = start, commit' = commit, acquired' = acquired, clock' = clock
    PROVE  Seen'
<1>1. \A t \in Txn, k \in Keys : (Holds(t, k)' <=> Holds(t, k)) /\ (HasKey(t, k)' <=> HasKey(t, k))
  BY DEF Holds, HasKey
<1>2. OwnersAgree'
  BY SMTT(60), <1>1, ShrunkOwners DEF IInv, OwnersAgree
<1>3. clock \in Nat /\ Expire \in Nat /\ \A t \in Txn : start[t] \in Nat /\ commit[t] \in Nat
  BY LatchAssumption DEF IInv, TypeOK
<1>4. ASSUME NEW u \in Txn, NEW k \in Keys, commit[u] > 0, HasKey(u, k)
      PROVE  \/ Holds(u, k)
             \/ node'[k].in /\ node'[k].max >= commit[u]
             \/ clock - commit[u] >= Expire
  <2>1. node[k].max \in Nat
    BY DEF IInv, TypeOK
  <2>2. \/ Holds(u, k)
        \/ node[k].in /\ node[k].max >= commit[u]
        \/ clock - commit[u] >= Expire
    BY <1>4 DEF IInv, CommitKept
  <2>3. node'[k] = node[k] \/ ts - node[k].max >= Expire
    BY DEF Shrunk
  <2> QED BY SMTT(60), <1>3, <2>1, <2>2, <2>3
<1>5. CommitKept'
  BY <1>1, <1>4 DEF CommitKept
<1>6. ConflictSeen'
  BY <1>1 DEF IInv, ConflictSeen, HasKey
<1> QED BY <1>2, <1>5, <1>6 DEF Seen

Frees(c, k) ==
    /\ acquired' = [acquired EXCEPT ![c] = @ - 1]
    /\ node' = [node EXCEPT ![k] = [in |-> TRUE, max |-> MaxOf(node[k].max, commit[c]), val |-> None]]

\* A released node is free and remembers the commit of the transaction that releases it.
LEMMA ReleaseStep ==
    ASSUME IInv, NEW c \in Txn, acquired[c] > 0, NEW k, k = keys[c][acquired[c]], Frees(c, k),
           keys' = keys, start' = start, commit' = commit, clock' = clock
    PROVE  Seen'
<1>1. k \in Keys /\ Holds(c, k)
  BY LastKeyHeld DEF IInv
<1>2. \A u \in Txn, x \in Keys : Holds(u, x)' <=> Holds(u, x) /\ ~(u = c /\ x = k)
  BY HoldsLess DEF IInv, Frees
<1>3. \A u \in Txn, x \in Keys : HasKey(u, x)' <=> HasKey(u, x)
  BY DEF HasKey
<1>4. /\ node'[k].in /\ node'[k].max = MaxOf(node[k].max, commit[c]) /\ node'[k].val = None
      /\ \A x \in Keys : x # k => node'[x] = node[x]
  <2>1. node'[k] = [in |-> TRUE, max |-> MaxOf(node[k].max, commit[c]), val |-> None]
        /\ \A x \in Keys : x # k => node'[x] = node[x]
    BY <1>1 DEF IInv, TypeOK, Frees
  <2> QED BY SMTT(60), <2>1
<1>5. OwnersAgree'
  <2> SUFFICES ASSUME NEW u \in Txn, NEW x \in Keys
               PROVE  Holds(u, x)' <=> node'[x].in /\ node'[x].val = u
    BY DEF OwnersAgree
  <2>1. CASE x = k
    <3>1. u # None
      BY LatchAssumption
    <3>2. Holds(u, k) => u = c
      BY SMTT(60), <1>1 DEF IInv, OwnersAgree
    <3> QED BY SMTT(60), <1>2, <1>4, <2>1, <3>1, <3>2
  <2>2. CASE x # k
    BY SMTT(60), <1>2, <1>4, <2>2 DEF IInv, OwnersAgree
  <2> QED BY <2>1, <2>2
<1>6. node[k].max \in Nat /\ \A u \in Txn : commit[u] \in Nat
  BY <1>1 DEF IInv, TypeOK
<1>7. node'[k].max >= node[k].max /\ node'[k].max >= commit[c] /\ node'[k].max \in Nat
  BY SMTT(60), <1>4, <1>6 DEF MaxOf
<1>8. CommitKept'
  <2> SUFFICES ASSUME NEW u \in Txn, NEW x \in Keys, commit[u] > 0, HasKey(u, x)
               PROVE  \/ Holds(u, x)'
                      \/ node'[x].in /\ node'[x].max >= commit[u]
                      \/ clock - commit[u] >= Expire
    BY <1>3 DEF CommitKept
  <2>1. \/ Holds(u, x)
        \/ node[x].in /\ node[x].max >= commit[u]
        \/ clock - commit[u] >= Expire
    BY DEF IInv, CommitKept
  <2>2. CASE x = k /\ Holds(u, x)
    <3>1. u = c
      BY SMTT(60), <1>1, <2>2 DEF IInv, OwnersAgree
    <3> QED BY SMTT(60), <1>4, <1>7, <2>2, <3>1
  <2>3. CASE x = k /\ ~Holds(u, x)
    BY SMTT(60), <1>4, <1>6, <1>7, <2>1, <2>3
  <2>4. CASE x # k
    BY <1>2, <1>4, <2>1, <2>4
  <2> QED BY <2>2, <2>3, <2>4
<1>9. ConflictSeen'
  BY <1>2 DEF IInv, ConflictSeen
<1> QED BY <1>5, <1>8, <1>9 DEF Seen

\* The node of a key that is acquired is free, and so is every conflict with a recent commit.
LEMMA AcquireKeeps ==
    ASSUME IInv, NEW t \in Txn, acquired[t] < Len(keys[t]), AcquireSlot(t)
    PROVE  Seen'
<1> DEFINE k  == NextKey(t)
           ns == Nodes(SlotOf[k], start[t])
<1>1. k \in Keys
  BY NextKeyIn DEF IInv
<1>2. Shrunk(ns, start[t])
  BY NodesShrink DEF IInv
<1>3. /\ ~ns[k].in \/ (ns[k].max <= start[t] /\ ns[k].val = None)
      /\ node' = [ns EXCEPT ![k] = [in |-> TRUE, max |-> ns[k].max, val |-> t]]
      /\ acquired' = [acquired EXCEPT ![t] = @ + 1]
      /\ keys' = keys /\ start' = start /\ commit' = commit /\ clock' = clock
  BY DEF AcquireSlot
<1> HIDE DEF k, ns
<1>4. \A u \in Txn, x \in Keys : Holds(u, x)' <=> Holds(u, x) \/ (u = t /\ x = k)
  BY <1>3, HoldsMore DEF IInv, k
<1>5. \A u \in Txn, x \in Keys : HasKey(u, x)' <=> HasKey(u, x)
  BY <1>3 DEF HasKey
<1>6. node'[k] = [in |-> TRUE, max |-> ns[k].max, val |-> t]
      /\ \A x \in Keys : x # k => node'[x] = ns[x]
  BY <1>1, <1>2, <1>3 DEF Shrunk
<1>7. \A u \in Txn, x \in Keys : Holds(u, x) <=> ns[x].in /\ ns[x].val = u
  BY SMTT(60), <1>2, ShrunkOwners DEF IInv, OwnersAgree
<1>8. \A u \in Txn : ~Holds(u, k)
  BY SMTT(60), <1>1, <1>3, <1>7, LatchAssumption
<1>9. OwnersAgree'
  <2> SUFFICES ASSUME NEW u \in Txn, NEW x \in Keys
               PROVE  Holds(u, x)' <=> node'[x].in /\ node'[x].val = u
    BY DEF OwnersAgree
  <2>1. CASE x = k
    BY SMTT(60), <1>4, <1>6, <1>8, <2>1
  <2>2. CASE x # k
    BY SMTT(60), <1>4, <1>6, <1>7, <2>2
  <2> QED BY <2>1, <2>2
<1>10. clock \in Nat /\ Expire \in Nat /\ \A u \in Txn : /\ start[u] \in Nat /\ commit[u] \in Nat
                                                         /\ start[u] < clock
  BY LatchAssumption DEF IInv, TypeOK, ClockAhead
<1>11. ASSUME NEW u \in Txn, NEW x \in Keys, commit[u] > 0, HasKey(u, x)
       PROVE  \/ Holds(u, x)
              \/ ns[x].in /\ ns[x].max >= commit[u]
              \/ clock - commit[u] >= Expire
  <2>1. node[x].max \in Nat
    BY DEF IInv, TypeOK
  <2>2. \/ Holds(u, x)
        \/ node[x].in /\ node[x].max >= commit[u]
        \/ clock - commit[u] >= Expire
    BY <1>11 DEF IInv, CommitKept
  <2>3. ns[x] = node[x] \/ start[t] - node[x].max >= Expire
    BY <1>2 DEF Shrunk
  <2> QED BY SMTT(60), <1>10, <2>1, <2>2, <2>3
<1>12. CommitKept'
  <2> SUFFICES ASSUME NEW u \in Txn, NEW x \in Keys, commit[u] > 0, HasKey(u, x)
               PROVE  \/ Holds(u, x)'
                      \/ node'[x].in /\ node'[x].max >= commit[u]
                      \/ clock - commit[u] >= Expire
    BY <1>3, <1>5 DEF CommitKept
  <2> QED BY SMTT(60), <1>4, <1>6, <1>11
<1>13. ConflictSeen'
  <2> SUFFICES ASSUME NEW v \in Txn, NEW u \in Txn, NEW x \in Keys, v # u, Holds(v, x)',
                      commit[u] > start[v], HasKey(u, x)
               PROVE  clock - start[v] >= Expire
    BY <1>3, <1>5 DEF ConflictSeen, HasKey
  <2>1. CASE Holds(v, x)
    BY <2>1 DEF IInv, ConflictSeen, HasKey
  <2>2. CASE v = t /\ x = k
    <3>1. commit[u] > 0
      BY SMTT(60), <1>10
    <3>2. \/ ns[k].in /\ ns[k].max >= commit[u]
          \/ clock - commit[u] >= Expire
      BY <1>8, <1>11, <2>2, <3>1
    <3>3. ns[k].max \in Nat
      BY <1>1, <1>2 DEF Shrunk
    <3> QED BY SMTT(60), <1>3, <1>10, <2>2, <3>2, <3>3
  <2> QED BY <1>4, <2>1, <2>2
<1> QED BY <1>9, <1>12, <1>13 DEF Seen

----------------------------------------------------------------------------
(* What the steps do to the lists and to the places of the goroutines *)

\* A step that leaves the lists alone and moves no blocked goroutine.
LEMMA ListsStay ==
    ASSUME IInv, waiting' = waiting, sched'.wake = sched.wake,
           \A x \in Txn : pc[x] = "wait" => pc'[x] = "wait"
    PROVE  QueuedOnce'
<1>1. waiting \in [Slots -> Seq(Txn)] /\ sched.wake \in Seq(Txn)
  BY DEF IInv, TypeOK
<1>2. \A s \in Slots : \A i \in 1..Len(waiting[s]) : waiting[s][i] \in Txn
  BY SMTT(60), <1>1
<1>3. \A i \in 1..Len(sched.wake) : sched.wake[i] \in Txn
  BY SMTT(60), <1>1
<1> QED BY SMTT(60), <1>2, <1>3 DEF IInv, QueuedOnce

LEMMA ListsEmptied ==
    ASSUME IInv, waiting' = waiting, sched'.wake = <<>>, pc' = pc
    PROVE  QueuedOnce'
<1>1. \A i \in 1..Len(sched'.wake) : FALSE
  BY SMTT(60)
<1> QED BY SMTT(60), <1>1 DEF IInv, QueuedOnce

\* A transaction past UnLock stays there.
LEMMA ReleasesStay ==
    ASSUME IInv, sched'.at = sched.at, sched'.cur = sched.cur, unlockCh' = unlockCh,
           \A u \in Txn : pc[u] = "sent" => pc'[u] = "sent"
    PROVE  ReleasesDone'
<1>1. \A i \in 1..Len(unlockCh) : unlockCh[i] \in Txn
  BY SMTT(60) DEF IInv, TypeOK
<1>2. sched.at # "idle" => sched.cur \in Txn
  BY DEF IInv, TypeOK
<1> QED BY <1>1, <1>2 DEF IInv, ReleasesDone

\* The scheduler is through with the first of its list.
LEMMA WakePasses ==
    ASSUME IInv, sched.wake # <<>>, waiting' = waiting, sched'.wake = Tail(sched.wake),
           NEW p, pc' = [pc EXCEPT ![Head(sched.wake)] = p]
    PROVE  QueuedOnce'
<1>1. waiting \in [Slots -> Seq(Txn)] /\ sched.wake \in Seq(Txn)
  BY DEF IInv, TypeOK
<1>2. \A s \in Slots : \A i \in 1..Len(waiting[s]) : waiting[s][i] \in Txn
  BY SMTT(60), <1>1
<1>3. Head(sched.wake) = sched.wake[1] /\ 1 \in 1..Len(sched.wake)
  BY SMTT(60), <1>1
<1>4. \A i \in 1..Len(Tail(sched.wake)) :
        /\ i + 1 \in 1..Len(sched.wake) /\ i + 1 # 1
        /\ Tail(sched.wake)[i] = sched.wake[i + 1] /\ sched.wake[i + 1] \in Txn
  BY SMTT(60), <1>1
<1>5. \A i, j \in 1..Len(Tail(sched.wake)) : i + 1 = j + 1 => i = j
  BY SMTT(60), <1>1
<1>6. \A x \in Txn : x # Head(sched.wake) => pc'[x] = pc[x]
  BY DEF IInv, TypeOK
<1>7. \A s \in Slots : \A i \in 1..Len(waiting'[s]) : pc'[waiting'[s][i]] = "wait"
  BY SMTT(60), <1>2, <1>3, <1>6 DEF IInv, QueuedOnce
<1>8. \A i \in 1..Len(sched'.wake) : pc'[sched'.wake[i]] = "wait"
  BY SMTT(60), <1>3, <1>4, <1>6 DEF IInv, QueuedOnce
<1>9. \A i, j \in 1..Len(sched'.wake) : sched'.wake[i] = sched'.wake[j] => i = j
  BY SMTT(60), <1>4, <1>5 DEF IInv, QueuedOnce
<1>10. \A s \in Slots : \A i \in 1..Len(waiting'[s]), j \in 1..Len(sched'.wake) :
         waiting'[s][i] # sched'.wake[j]
  <2>1. \A s \in Slots : \A i \in 1..Len(waiting[s]), j \in 1..Len(Tail(sched.wake)) :
          waiting[s][i] # Tail(sched.wake)[j]
    BY SMTT(60), <1>4 DEF IInv, QueuedOnce
  <2> QED BY SMTT(60), <2>1
<1>11. \A s, r \in Slots : \A i \in 1..Len(waiting'[s]), j \in 1..Len(waiting'[r]) :
         waiting'[s][i] = waiting'[r][j] => s = r /\ i = j
  BY SMTT(60) DEF IInv, QueuedOnce
<1> QED BY <1>7, <1>8, <1>9, <1>10, <1>11 DEF QueuedOnce

\* A transaction that is in no list, or leaves that of the scheduler, joins a waiting list.
LEMMA JoinsWaiting ==
    ASSUME IInv, NEW t \in Txn, NEW s \in Slots,
           waiting' = [waiting EXCEPT ![s] = Append(@, t)], pc' = [pc EXCEPT ![t] = "wait"],
           \/ pc[t] # "wait" /\ sched'.wake = sched.wake
           \/ sched.wake # <<>> /\ Head(sched.wake) = t /\ sched'.wake = Tail(sched.wake)
    PROVE  QueuedOnce'
<1>1. waiting \in [Slots -> Seq(Txn)] /\ sched.wake \in Seq(Txn)
  BY DEF IInv, TypeOK
<1>2. \A r \in Slots : \A i \in 1..Len(waiting[r]) : waiting[r][i] \in Txn /\ waiting[r][i] # t
  <2>1. CASE pc[t] # "wait"
    BY SMTT(60), <1>1, <2>1 DEF IInv, QueuedOnce
  <2>2. CASE sched.wake # <<>> /\ Head(sched.wake) = t
    <3>1. t = sched.wake[1] /\ 1 \in 1..Len(sched.wake)
      BY SMTT(60), <1>1, <2>2
    <3> QED BY SMTT(60), <1>1, <3>1 DEF IInv, QueuedOnce
  <2> QED BY <2>1, <2>2
<1>3. /\ \A i \in 1..Len(sched'.wake) :
           \E h \in 1..Len(sched.wake) : sched'.wake[i] = sched.wake[h] /\ sched.wake[h] # t
      /\ \A i, j \in 1..Len(sched'.wake) : sched'.wake[i] = sched'.wake[j] => i = j
  <2>1. CASE pc[t] # "wait" /\ sched'.wake = sched.wake
    <3>1. \A i \in 1..Len(sched.wake) : sched.wake[i] # t
      BY <2>1 DEF IInv, QueuedOnce
    <3> QED BY <2>1, <3>1 DEF IInv, QueuedOnce
  <2>2. CASE sched.wake # <<>> /\ Head(sched.wake) = t /\ sched'.wake = Tail(sched.wake)
    <3>1. \A i \in 1..Len(Tail(sched.wake)) :
            /\ i + 1 \in 1..Len(sched.wake) /\ i + 1 # 1
            /\ Tail(sched.wake)[i] = sched.wake[i + 1]
      BY SMTT(60), <1>1, <2>2
    <3>2. t = sched.wake[1] /\ 1 \in 1..Len(sched.wake)
      BY SMTT(60), <1>1, <2>2
    <3>3. \A i \in 1..Len(Tail(sched.wake)) : sched.wake[i + 1] # t
      BY <3>1, <3>2 DEF IInv, QueuedOnce
    <3>4. \A i, j \in 1..Len(Tail(sched.wake)) : i + 1 = j + 1 => i = j
      BY SMTT(60), <1>1
    <3>5. \A i, j \in 1..Len(Tail(sched.wake)) : Tail(sched.wake)[i] = Tail(sched.wake)[j] => i = j
      BY SMTT(60), <3>1, <3>4 DEF IInv, QueuedOnce
    <3> QED BY SMTT(60), <2>2, <3>1, <3>3, <3>5
  <2> QED BY <2>1, <2>2
<1>4. \A x \in Txn : x # t => pc'[x] = pc[x]
  BY DEF IInv, TypeOK
<1>5. pc'[t] = "wait"
  BY DEF IInv, TypeOK
<1>6. \A r \in Slots : \A i \in 1..Len(waiting'[r]) :
         \/ i \in 1..Len(waiting[r]) /\ waiting'[r][i] = waiting[r][i]
         \/ r = s /\ i = Len(waiting[s]) + 1 /\ waiting'[r][i] = t
  <2> TAKE r \in Slots
  <2>1. CASE r # s
    BY <1>1, <2>1
  <2>2. CASE r = s
    <3>1. waiting'[r] = Append(waiting[r], t) /\ waiting[r] \in Seq(Txn)
      BY <1>1, <2>2
    <3> QED BY SMTT(60), <2>2, <3>1
  <2> QED BY <2>1, <2>2
<1>7. \A r \in Slots : \A i \in 1..Len(waiting'[r]) : pc'[waiting'[r][i]] = "wait"
  BY SMTT(60), <1>2, <1>4, <1>5, <1>6 DEF IInv, QueuedOnce
<1>8. \A q, r \in Slots : \A i \in 1..Len(waiting'[q]), j \in 1..Len(waiting'[r]) :
         waiting'[q][i] = waiting'[r][j] => q = r /\ i = j
  BY SMTT(60), <1>2, <1>6 DEF IInv, QueuedOnce
<1>9. \A i \in 1..Len(sched'.wake) : pc'[sched'.wake[i]] = "wait"
  <2>1. \A h \in 1..Len(sched.wake) : sched.wake[h] \in Txn
    BY SMTT(60), <1>1
  <2> QED BY SMTT(60), <1>3, <1>4, <2>1 DEF IInv, QueuedOnce
<1>10. \A r \in Slots : \A i \in 1..Len(waiting'[r]), j \in 1..Len(sched'.wake) :
         waiting'[r][i] # sched'.wake[j]
  BY SMTT(60), <1>3, <1>6 DEF IInv, QueuedOnce
<1> QED BY <1>3, <1>7, <1>8, <1>9, <1>10 DEF QueuedOnce

\* A waiter is taken off its waiting list and joins the list of those to wake.
LEMMA MovesToWake ==
    ASSUME IInv, NEW s \in Slots, NEW i \in 1..Len(waiting[s]),
           waiting' = [waiting EXCEPT ![s] = RemoveNth(@, i)],
           sched'.wake = Append(sched.wake, waiting[s][i]), pc' = pc
    PROVE  QueuedOnce' /\ waiting' \in [Slots -> Seq(Txn)]
<1>1. waiting \in [Slots -> Seq(Txn)] /\ sched.wake \in Seq(Txn)
  BY DEF IInv, TypeOK
<1> DEFINE w == waiting[s][i]
           q == RemoveNth(waiting[s], i)
<1>2. w \in Txn /\ waiting[s] \in Seq(Txn) /\ Len(waiting[s]) \in Nat /\ i \in Nat
  BY SMTT(60), <1>1
<1>3. \A j \in 1..(Len(waiting[s]) - 1) :
        \E h \in 1..Len(waiting[s]) : h # i /\ q[j] = waiting[s][h] /\ h = IF j < i THEN j ELSE j + 1
  <2> TAKE j \in 1..(Len(waiting[s]) - 1)
  <2>1. CASE j < i
    <3>1. j \in 1..Len(waiting[s]) /\ j # i
      BY SMTT(60), <1>2, <2>1
    <3> QED BY <2>1, <3>1 DEF RemoveNth
  <2>2. CASE ~(j < i)
    <3>1. j + 1 \in 1..Len(waiting[s]) /\ j + 1 # i
      BY SMTT(60), <1>2, <2>2
    <3> QED BY <2>2, <3>1 DEF RemoveNth
  <2> QED BY <2>1, <2>2
<1>4. q \in Seq(Txn) /\ Len(q) = Len(waiting[s]) - 1
  <2>1. Len(waiting[s]) - 1 \in Nat
    BY SMTT(60), <1>2
  <2>2. q \in [1..(Len(waiting[s]) - 1) -> Txn]
    BY SMTT(60), <1>2, <1>3 DEF RemoveNth
  <2> HIDE DEF q
  <2> QED BY ZenonT(40), <2>1, <2>2, SeqOf
<1>5. waiting' = [waiting EXCEPT ![s] = q] /\ waiting'[s] = q
  BY <1>1
<1>6. waiting' \in [Slots -> Seq(Txn)]
  BY <1>1, <1>4, <1>5
<1> HIDE DEF w, q
<1>7. \A r \in Slots : \A j \in 1..Len(waiting'[r]) :
        \E h \in 1..Len(waiting[r]) :
            /\ waiting'[r][j] = waiting[r][h]
            /\ r = s => h # i /\ h = IF j < i THEN j ELSE j + 1
            /\ r # s => h = j
  <2> TAKE r \in Slots
  <2>1. CASE r = s
    BY <1>3, <1>4, <1>5, <2>1
  <2>2. CASE r # s
    BY <1>1, <1>5, <2>2
  <2> QED BY <2>1, <2>2
<1>8. \A r \in Slots : \A j \in 1..Len(waiting'[r]) : pc[waiting'[r][j]] = "wait" /\ waiting'[r][j] # w
  BY SMTT(60), <1>7 DEF IInv, QueuedOnce, w
<1>9. \A r, p \in Slots : \A j \in 1..Len(waiting'[r]), g \in 1..Len(waiting'[p]) :
        waiting'[r][j] = waiting'[p][g] => r = p /\ j = g
  <2> SUFFICES ASSUME NEW r \in Slots, NEW p \in Slots, NEW j \in 1..Len(waiting'[r]),
                      NEW g \in 1..Len(waiting'[p]), waiting'[r][j] = waiting'[p][g]
               PROVE  r = p /\ j = g
    OBVIOUS
  <2>1. PICK h \in 1..Len(waiting[r]) :
          /\ waiting'[r][j] = waiting[r][h]
          /\ r = s => h # i /\ h = IF j < i THEN j ELSE j + 1
          /\ r # s => h = j
    BY <1>7
  <2>2. PICK f \in 1..Len(waiting[p]) :
          /\ waiting'[p][g] = waiting[p][f]
          /\ p = s => f # i /\ f = IF g < i THEN g ELSE g + 1
          /\ p # s => f = g
    BY <1>7
  <2>3. r = p /\ h = f
    BY SMTT(60), <2>1, <2>2 DEF IInv, QueuedOnce
  <2>4. j \in Int /\ g \in Int /\ i \in Int
    BY SMTT(60), <1>2
  <2> QED BY SMTT(60), <2>1, <2>2, <2>3, <2>4
<1>10. \A j \in 1..Len(sched'.wake) :
         \/ j \in 1..Len(sched.wake) /\ sched'.wake[j] = sched.wake[j]
         \/ j = Len(sched.wake) + 1 /\ sched'.wake[j] = w
  BY SMTT(60), <1>1, <1>2 DEF w
<1>11. \A j \in 1..Len(sched.wake) : sched.wake[j] # w
  BY DEF IInv, QueuedOnce, w
<1>12. pc[w] = "wait"
  BY DEF IInv, QueuedOnce, w
<1>13. \A j \in 1..Len(sched'.wake) : pc[sched'.wake[j]] = "wait"
  BY <1>10, <1>12 DEF IInv, QueuedOnce
<1>14. \A j, g \in 1..Len(sched'.wake) : sched'.wake[j] = sched'.wake[g] => j = g
  BY SMTT(60), <1>10, <1>11 DEF IInv, QueuedOnce
<1>15. \A r \in Slots : \A j \in 1..Len(waiting'[r]), g \in 1..Len(sched'.wake) :
         waiting'[r][j] # sched'.wake[g]
  BY SMTT(60), <1>7, <1>8, <1>10 DEF IInv, QueuedOnce
<1> QED BY <1>6, <1>8, <1>9, <1>13, <1>14, <1>15 DEF QueuedOnce

----------------------------------------------------------------------------
(* One lemma per action *)

LEMMA BeginStep == ASSUME IInv, NEW t \in Txn, Begin(t) PROVE IInv'
<1>1. PICK q \in KeySeqs : keys' = [keys EXCEPT ![t] = q]
  BY DEF Begin
<1>2. /\ pc[t] = "new" /\ start' = [start EXCEPT ![t] = clock] /\ clock' = clock + 1
      /\ pc' = [pc EXCEPT ![t] = "acquire"]
      /\ commit' = commit /\ acquired' = acquired /\ stale' = stale /\ node' = node
      /\ waiting' = waiting /\ unlockCh' = unlockCh /\ closed' = closed /\ sched' = sched
      /\ recycler' = recycler /\ skipped' = skipped
  BY DEF Begin
<1>3. acquired[t] = 0 /\ commit[t] = 0
  BY <1>2 DEF IInv, Progress
<1>4. q # <<>> /\ q \in Seq(Keys) /\ Len(q) \in Nat /\ Len(q) > 0
  BY SMTT(60), LatchAssumption
<1>5. TypeOK'
  BY SMTT(60), <1>1, <1>2, <1>3, <1>4 DEF IInv, TypeOK
<1>6. QueuedOnce'
  BY <1>2, ListsStay DEF IInv, TypeOK
<1>7. Progress'
  BY <1>1, <1>2, <1>3, <1>4 DEF IInv, TypeOK, Progress
<1>8. ReleasesDone'
  <2>1. \A u \in Txn : pc[u] = "sent" => pc'[u] = "sent"
    BY <1>2 DEF IInv, TypeOK
  <2> QED BY <1>2, <2>1, ReleasesStay
<1>9. RecyclerInRange' /\ ClockAhead'
  BY SMTT(60), <1>2 DEF IInv, TypeOK, ClockAhead, RecyclerInRange
<1>10. \A u \in Txn : /\ u # t => keys'[u] = keys[u] /\ start'[u] = start[u]
                      /\ start[u] \in Nat /\ commit[u] \in Nat
  BY <1>1, <1>2 DEF IInv, TypeOK
<1>11. \A u \in Txn, k \in Keys : Holds(u, k)' <=> Holds(u, k)
  BY SMTT(60), <1>2, <1>3, <1>10 DEF Holds
<1>12. \A k \in Keys : ~Holds(t, k)
  BY SMTT(60), <1>3 DEF Holds
<1>13. OwnersAgree'
  BY <1>2, <1>11 DEF IInv, OwnersAgree
<1>14. clock \in Nat /\ Expire \in Nat
  BY LatchAssumption DEF IInv, TypeOK
<1>15. CommitKept'
  <2> SUFFICES ASSUME NEW u \in Txn, NEW k \in Keys, commit[u] > 0, HasKey(u, k)'
               PROVE  \/ Holds(u, k)
                      \/ node[k].in /\ node[k].max >= commit[u]
                      \/ clock' - commit[u] >= Expire
    BY <1>2, <1>11 DEF CommitKept
  <2>1. u # t
    BY SMTT(60), <1>3
  <2>2. HasKey(u, k)
    BY <1>10, <2>1 DEF HasKey
  <2> QED BY SMTT(60), <1>2, <1>10, <1>14, <2>2 DEF IInv, CommitKept
<1>16. ConflictSeen'
  <2> SUFFICES ASSUME NEW v \in Txn, NEW u \in Txn, NEW k \in Keys, v # u, Holds(v, k),
                      commit[u] > start'[v], HasKey(u, k)'
               PROVE  clock' - start'[v] >= Expire
    BY <1>2, <1>11 DEF ConflictSeen, HasKey
  <2>1. v # t
    BY <1>12
  <2>2. u # t
    BY SMTT(60), <1>3, <1>10, <2>1
  <2>3. HasKey(u, k)
    BY <1>10, <2>2 DEF HasKey
  <2>4. start'[v] = start[v] /\ clock' = clock + 1
    BY <1>2, <1>10, <2>1
  <2>5. clock - start[v] >= Expire
    BY <2>3, <2>4 DEF IInv, ConflictSeen, HasKey
  <2> QED BY SMTT(60), <1>10, <1>14, <2>4, <2>5
<1> QED BY <1>5, <1>6, <1>7, <1>8, <1>9, <1>13, <1>15, <1>16 DEF IInv

LEMMA CommitStep == ASSUME IInv, NEW t \in Txn, Commit(t) PROVE IInv'
<1>1. /\ pc[t] = "locked" /\ commit' = [commit EXCEPT ![t] = clock] /\ clock' = clock + 1
      /\ pc' = [pc EXCEPT ![t] = "unlock"]
      /\ keys' = keys /\ start' = start /\ acquired' = acquired /\ stale' = stale /\ node' = node
      /\ waiting' = waiting /\ unlockCh' = unlockCh /\ closed' = closed /\ sched' = sched
      /\ recycler' = recycler /\ skipped' = skipped
  BY DEF Commit
<1>2. clock \in Nat /\ Expire \in Nat /\ \A u \in Txn : start[u] \in Nat /\ commit[u] \in Nat
  BY LatchAssumption DEF IInv, TypeOK
<1>3. TypeOK'
  BY SMTT(60), <1>1 DEF IInv, TypeOK
<1>4. QueuedOnce'
  BY <1>1, ListsStay DEF IInv, TypeOK
<1>5. Progress'
  BY <1>1 DEF IInv, TypeOK, Progress
<1>6. ReleasesDone'
  <2>1. \A u \in Txn : pc[u] = "sent" => pc'[u] = "sent"
    BY <1>1 DEF IInv, TypeOK
  <2> QED BY <1>1, <2>1, ReleasesStay
<1>7. RecyclerInRange' /\ ClockAhead'
  BY SMTT(60), <1>1 DEF IInv, TypeOK, ClockAhead, RecyclerInRange
<1>8. \A u \in Txn, k \in Keys : (Holds(u, k)' <=> Holds(u, k)) /\ (HasKey(u, k)' <=> HasKey(u, k))
  BY <1>1 DEF Holds, HasKey
<1>9. \A k \in Keys : HasKey(t, k) => Holds(t, k)
  BY <1>1 DEF IInv, Progress, HasKey, Holds
<1>10. OwnersAgree'
  BY <1>1, <1>8 DEF IInv, OwnersAgree
<1>11. \A u \in Txn : u # t => commit'[u] = commit[u]
  BY <1>1 DEF IInv, TypeOK
<1>12. CommitKept'
  <2> SUFFICES ASSUME NEW u \in Txn, NEW k \in Keys, commit'[u] > 0, HasKey(u, k), u # t
               PROVE  \/ Holds(u, k)
                      \/ node[k].in /\ node[k].max >= commit'[u]
                      \/ clock' - commit'[u] >= Expire
    BY <1>1, <1>8, <1>9 DEF CommitKept
  <2> QED BY SMTT(60), <1>1, <1>2, <1>11 DEF IInv, CommitKept
<1>13. ConflictSeen'
  <2> SUFFICES ASSUME NEW v \in Txn, NEW u \in Txn, NEW k \in Keys, v # u, Holds(v, k),
                      commit'[u] > start[v], HasKey(u, k)
               PROVE  clock' - start[v] >= Expire
    BY <1>1, <1>8 DEF ConflictSeen, HasKey
  <2>1. u # t
    BY SMTT(60), <1>9 DEF IInv, OwnersAgree
  <2> QED BY SMTT(60), <1>1, <1>2, <1>11, <2>1 DEF IInv, ConflictSeen, HasKey
<1> QED BY <1>3, <1>4, <1>5, <1>6, <1>7, <1>10, <1>12, <1>13 DEF IInv

\* Whoever acquires for t, its goroutine is in Lock and it has a key left.
LEMMA AcquiringIs ==
    ASSUME IInv, NEW t \in Txn, Acquiring(t)
    PROVE  /\ pc[t] = "acquire" \/ (pc[t] = "wait" /\ BySched(t))
           /\ BySched(t) => pc[t] = "wait"
           /\ acquired[t] < Len(keys[t])
           /\ NextKey(t) \in Keys /\ SlotOf[NextKey(t)] \in Slots
<1>1. BySched(t) => pc[t] = "wait"
  <2>1. sched.wake \in Seq(Txn)
    BY DEF IInv, TypeOK
  <2>2. BySched(t) => 1 \in 1..Len(sched.wake) /\ sched.wake[1] = t
    BY SMTT(60), <2>1 DEF BySched
  <2> QED BY <2>2 DEF IInv, QueuedOnce
<1>2. acquired[t] < Len(keys[t])
  BY <1>1 DEF Acquiring, IInv, Progress
<1>3. NextKey(t) \in Keys
  BY <1>2, NextKeyIn DEF IInv
<1> QED BY <1>1, <1>2, <1>3, LatchAssumption DEF Acquiring

\* What the end of an acquire does to the scheduler.
LEMMA PassesIs ==
    ASSUME IInv, NEW t \in Txn, NEW over \in BOOLEAN, SchedPasses(t, over)
    PROVE  /\ sched'.at = sched.at /\ sched'.cur = sched.cur
           /\ sched' \in [at : {"idle", "release", "wake"}, cur : Txn \cup {None}, wake : Seq(Txn)]
           /\ over /\ BySched(t) => /\ sched.wake # <<>> /\ Head(sched.wake) = t
                                    /\ sched'.wake = Tail(sched.wake)
           /\ ~(over /\ BySched(t)) => sched'.wake = sched.wake
<1>1. sched \in [at : {"idle", "release", "wake"}, cur : Txn \cup {None}, wake : Seq(Txn)]
  BY DEF IInv, TypeOK
<1>2. sched.wake # <<>> => Tail(sched.wake) \in Seq(Txn)
  BY SMTT(60), <1>1
<1> QED BY <1>1, <1>2 DEF SchedPasses, BySched

LEMMA AcquireSlotStep == ASSUME IInv, NEW t \in Txn, AcquireSlot(t) PROVE IInv'
<1> DEFINE k  == NextKey(t)
           ns == Nodes(SlotOf[k], start[t])
           last == acquired[t] + 1 = Len(keys[t])
<1>1. /\ Acquiring(t)
      /\ node' = [ns EXCEPT ![k] = [in |-> TRUE, max |-> ns[k].max, val |-> t]]
      /\ acquired' = [acquired EXCEPT ![t] = @ + 1]
      /\ pc' = IF last THEN [pc EXCEPT ![t] = "locked"] ELSE pc
      /\ SchedPasses(t, last)
      /\ clock' = clock /\ keys' = keys /\ start' = start /\ commit' = commit /\ stale' = stale
      /\ waiting' = waiting /\ unlockCh' = unlockCh /\ closed' = closed /\ recycler' = recycler
      /\ skipped' = skipped
  BY DEF AcquireSlot
<1>2. /\ pc[t] = "acquire" \/ (pc[t] = "wait" /\ BySched(t))
      /\ BySched(t) => pc[t] = "wait"
      /\ acquired[t] < Len(keys[t]) /\ k \in Keys
  BY <1>1, AcquiringIs
<1>3. Shrunk(ns, start[t])
  BY NodesShrink DEF IInv
<1> HIDE DEF k, ns
<1>4. last \in BOOLEAN
  OBVIOUS
<1>5. /\ sched'.at = sched.at /\ sched'.cur = sched.cur
      /\ sched' \in [at : {"idle", "release", "wake"}, cur : Txn \cup {None}, wake : Seq(Txn)]
      /\ last /\ BySched(t) => /\ sched.wake # <<>> /\ Head(sched.wake) = t
                               /\ sched'.wake = Tail(sched.wake)
      /\ ~(last /\ BySched(t)) => sched'.wake = sched.wake
  <2> HIDE DEF last
  <2> QED BY <1>1, <1>4, PassesIs
<1>6. keys[t] \in Seq(Keys) /\ Len(keys[t]) \in Nat /\ acquired[t] \in Nat
  BY SMTT(60), KeysAre DEF IInv
<1>7. node' \in [Keys -> [in : BOOLEAN, max : Nat, val : Txn \cup {None}]]
  BY <1>1, <1>2, <1>3 DEF Shrunk
<1>8. pc' \in [Txn -> {"new", "acquire", "wait", "locked", "stale", "unlock", "sending", "sent", "dropped"}]
  BY <1>1 DEF IInv, TypeOK
<1>9. acquired' \in [Txn -> Nat] /\ \A u \in Txn : acquired'[u] <= Len(keys'[u])
  BY SMTT(60), <1>1, <1>2, <1>6 DEF IInv, TypeOK
<1>10. TypeOK'
  BY <1>1, <1>5, <1>7, <1>8, <1>9 DEF IInv, TypeOK
<1>11. QueuedOnce'
  <2>1. CASE last /\ BySched(t)
    BY <1>1, <1>5, <2>1, WakePasses
  <2>2. CASE last /\ ~BySched(t)
    BY <1>1, <1>2, <1>5, <2>2, ListsStay DEF IInv, TypeOK
  <2>3. CASE ~last
    BY <1>1, <1>5, <2>3, ListsStay
  <2> QED BY <2>1, <2>2, <2>3
<1>12. Progress'
  <2> SUFFICES ASSUME NEW u \in Txn
               PROVE  /\ pc'[u] = "new" => acquired'[u] = 0 /\ commit[u] = 0
                      /\ pc'[u] \in {"acquire", "wait"} => acquired'[u] < Len(keys[u])
                      /\ pc'[u] = "locked" => acquired'[u] = Len(keys[u])
    BY <1>1 DEF Progress
  <2>1. CASE u = t
    <3>1. acquired'[t] = acquired[t] + 1
      BY <1>1 DEF IInv, TypeOK
    <3>2. pc'[t] = IF last THEN "locked" ELSE pc[t]
      BY <1>1 DEF IInv, TypeOK
    <3>3. ~last => acquired[t] + 1 < Len(keys[t])
      BY SMTT(60), <1>2, <1>6
    <3> QED BY <1>2, <2>1, <3>1, <3>2, <3>3
  <2>2. CASE u # t
    BY <1>1, <2>2 DEF IInv, TypeOK, Progress
  <2> QED BY <2>1, <2>2
<1>13. ReleasesDone'
  <2>1. \A u \in Txn : pc[u] = "sent" => pc'[u] = "sent"
    BY <1>1, <1>2 DEF IInv, TypeOK
  <2> QED BY <1>1, <1>5, <2>1, ReleasesStay
<1>14. RecyclerInRange' /\ ClockAhead'
  BY <1>1 DEF IInv, ClockAhead, RecyclerInRange
<1>15. Seen'
  BY <1>2, AcquireKeeps
<1> QED BY <1>10, <1>11, <1>12, <1>13, <1>14, <1>15 DEF IInv, Seen

LEMMA AcquireStaleStep == ASSUME IInv, NEW t \in Txn, AcquireStale(t) PROVE IInv'
<1> DEFINE ns == Nodes(SlotOf[NextKey(t)], start[t])
<1>1. /\ Acquiring(t) /\ node' = ns
      /\ stale' = [stale EXCEPT ![t] = TRUE] /\ pc' = [pc EXCEPT ![t] = "stale"]
      /\ SchedPasses(t, TRUE)
      /\ clock' = clock /\ keys' = keys /\ start' = start /\ commit' = commit
      /\ acquired' = acquired /\ waiting' = waiting /\ unlockCh' = unlockCh /\ closed' = closed
      /\ recycler' = recycler /\ skipped' = skipped
  BY DEF AcquireStale
<1>2. /\ pc[t] = "acquire" \/ (pc[t] = "wait" /\ BySched(t))
      /\ BySched(t) => pc[t] = "wait"
  BY <1>1, AcquiringIs
<1>3. Shrunk(node', start[t])
  BY <1>1, NodesShrink DEF IInv
<1> HIDE DEF ns
<1>4. /\ sched'.at = sched.at /\ sched'.cur = sched.cur
      /\ sched' \in [at : {"idle", "release", "wake"}, cur : Txn \cup {None}, wake : Seq(Txn)]
      /\ BySched(t) => /\ sched.wake # <<>> /\ Head(sched.wake) = t
                       /\ sched'.wake = Tail(sched.wake)
      /\ ~BySched(t) => sched'.wake = sched.wake
  BY <1>1, PassesIs
<1>5. TypeOK'
  BY <1>1, <1>3, <1>4 DEF IInv, TypeOK, Shrunk
<1>6. QueuedOnce'
  <2>1. CASE BySched(t)
    BY <1>1, <1>4, <2>1, WakePasses
  <2>2. CASE ~BySched(t)
    BY <1>1, <1>2, <1>4, <2>2, ListsStay DEF IInv, TypeOK
  <2> QED BY <2>1, <2>2
<1>7. Progress'
  BY <1>1 DEF IInv, TypeOK, Progress
<1>8. ReleasesDone'
  <2>1. \A u \in Txn : pc[u] = "sent" => pc'[u] = "sent"
    BY <1>1, <1>2 DEF IInv, TypeOK
  <2> QED BY <1>1, <1>4, <2>1, ReleasesStay
<1>9. RecyclerInRange' /\ ClockAhead'
  BY <1>1 DEF IInv, ClockAhead, RecyclerInRange
<1>10. start[t] \in Nat /\ start[t] <= clock
  BY SMTT(60) DEF IInv, TypeOK, ClockAhead
<1>11. Seen'
  BY <1>1, <1>3, <1>10, ShrinkStep
<1> QED BY <1>5, <1>6, <1>7, <1>8, <1>9, <1>11 DEF IInv, Seen

LEMMA AcquireLockedStep == ASSUME IInv, NEW t \in Txn, AcquireLocked(t) PROVE IInv'
<1> DEFINE ns == Nodes(SlotOf[NextKey(t)], start[t])
           s == SlotOf[NextKey(t)]
<1>1. /\ Acquiring(t) /\ node' = ns
      /\ waiting' = [waiting EXCEPT ![s] = Append(@, t)] /\ pc' = [pc EXCEPT ![t] = "wait"]
      /\ SchedPasses(t, TRUE)
      /\ clock' = clock /\ keys' = keys /\ start' = start /\ commit' = commit
      /\ acquired' = acquired /\ stale' = stale /\ unlockCh' = unlockCh /\ closed' = closed
      /\ recycler' = recycler /\ skipped' = skipped
  BY DEF AcquireLocked
<1>2. /\ pc[t] = "acquire" \/ (pc[t] = "wait" /\ BySched(t))
      /\ BySched(t) => pc[t] = "wait"
      /\ acquired[t] < Len(keys[t]) /\ s \in Slots
  BY <1>1, AcquiringIs
<1>3. Shrunk(node', start[t])
  BY <1>1, NodesShrink DEF IInv
<1> HIDE DEF ns, s
<1>4. /\ sched'.at = sched.at /\ sched'.cur = sched.cur
      /\ sched' \in [at : {"idle", "release", "wake"}, cur : Txn \cup {None}, wake : Seq(Txn)]
      /\ BySched(t) => /\ sched.wake # <<>> /\ Head(sched.wake) = t
                       /\ sched'.wake = Tail(sched.wake)
      /\ ~BySched(t) => sched'.wake = sched.wake
  BY <1>1, PassesIs
<1>5. waiting' \in [Slots -> Seq(Txn)]
  BY SMTT(60), <1>1, <1>2 DEF IInv, TypeOK
<1>6. TypeOK'
  BY <1>1, <1>3, <1>4, <1>5 DEF IInv, TypeOK, Shrunk
<1>7. QueuedOnce'
  BY <1>1, <1>2, <1>4, JoinsWaiting
<1>8. Progress'
  BY <1>1, <1>2 DEF IInv, TypeOK, Progress
<1>9. ReleasesDone'
  <2>1. \A u \in Txn : pc[u] = "sent" => pc'[u] = "sent"
    BY <1>1, <1>2 DEF IInv, TypeOK
  <2> QED BY <1>1, <1>4, <2>1, ReleasesStay
<1>10. RecyclerInRange' /\ ClockAhead'
  BY <1>1 DEF IInv, ClockAhead, RecyclerInRange
<1>11. start[t] \in Nat /\ start[t] <= clock
  BY SMTT(60) DEF IInv, TypeOK, ClockAhead
<1>12. Seen'
  BY <1>1, <1>3, <1>11, ShrinkStep
<1> QED BY <1>6, <1>7, <1>8, <1>9, <1>10, <1>12 DEF IInv, Seen

\* On its way out a transaction only moves its own goroutine, and into the channel last.
LEMMA LeaveStep ==
    ASSUME IInv, NEW t \in Txn, GiveUp(t) \/ UnLock(t) \/ Send(t)
    PROVE  IInv'
<1>1. /\ clock' = clock /\ keys' = keys /\ start' = start /\ commit' = commit
      /\ acquired' = acquired /\ stale' = stale /\ node' = node /\ waiting' = waiting
      /\ closed' = closed /\ sched' = sched /\ recycler' = recycler /\ skipped' = skipped
  BY DEF GiveUp, UnLock, Send
<1>2. /\ pc[t] \in {"locked", "stale", "unlock", "sending"}
      /\ \E p \in {"unlock", "dropped", "sending", "sent"} :
           /\ pc' = [pc EXCEPT ![t] = p]
           /\ unlockCh' = unlockCh \/ (p = "sent" /\ unlockCh' = Append(unlockCh, t) /\ Len(unlockCh) < ChanSize)
  BY DEF GiveUp, UnLock, Send
<1>3. unlockCh \in Seq(Txn) /\ Len(unlockCh) \in Nat /\ Len(unlockCh) <= ChanSize /\ ChanSize \in Nat
  BY SMTT(60), LatchAssumption DEF IInv, TypeOK
<1>4. unlockCh' \in Seq(Txn) /\ Len(unlockCh') <= ChanSize
  BY SMTT(60), <1>2, <1>3
<1>5. TypeOK'
  BY SMTT(60), <1>1, <1>2, <1>4 DEF IInv, TypeOK
<1>6. QueuedOnce'
  BY <1>1, <1>2, ListsStay DEF IInv, TypeOK
<1>7. Progress'
  BY <1>1, <1>2 DEF IInv, TypeOK, Progress
<1>8. ReleasesDone'
  <2>1. \A u \in Txn : pc[u] = "sent" => pc'[u] = "sent"
    BY <1>2 DEF IInv, TypeOK
  <2>2. \A i \in 1..Len(unlockCh) : unlockCh[i] \in Txn
    BY SMTT(60), <1>3
  <2>3. \A i \in 1..Len(unlockCh') :
          (i \in 1..Len(unlockCh) /\ unlockCh'[i] = unlockCh[i]) \/ (unlockCh'[i] = t /\ pc'[t] = "sent")
    <3>1. CASE unlockCh' = unlockCh
      BY <3>1
    <3>2. CASE unlockCh' = Append(unlockCh, t) /\ pc' = [pc EXCEPT ![t] = "sent"]
      <4>1. pc'[t] = "sent"
        BY <3>2 DEF IInv, TypeOK
      <4> QED BY SMTT(60), <1>3, <3>2, <4>1
    <3> QED BY <1>2, <3>1, <3>2
  <2>4. \A i \in 1..Len(unlockCh') : pc'[unlockCh'[i]] = "sent"
    BY <2>1, <2>2, <2>3 DEF IInv, ReleasesDone
  <2> QED BY <1>1, <2>1, <2>4 DEF IInv, TypeOK, ReleasesDone
<1>9. RecyclerInRange' /\ ClockAhead'
  BY <1>1 DEF IInv, ClockAhead, RecyclerInRange
<1>10. Seen'
  <2>1. clock \in Nat /\ clock >= clock
    BY SMTT(60) DEF IInv, TypeOK
  <2> QED BY <1>1, <2>1, QuietStep
<1> QED BY <1>5, <1>6, <1>7, <1>8, <1>9, <1>10 DEF IInv, Seen

LEMMA ReceiveStep == ASSUME IInv, Receive PROVE IInv'
<1>1. /\ unlockCh # <<>> /\ sched' = [at |-> "release", cur |-> Head(unlockCh), wake |-> <<>>]
      /\ unlockCh' = Tail(unlockCh)
      /\ clock' = clock /\ keys' = keys /\ start' = start /\ commit' = commit
      /\ acquired' = acquired /\ stale' = stale /\ pc' = pc /\ node' = node /\ waiting' = waiting
      /\ closed' = closed /\ recycler' = recycler /\ skipped' = skipped
  BY DEF Receive
<1>2. unlockCh \in Seq(Txn) /\ Len(unlockCh) <= ChanSize /\ ChanSize \in Nat
  BY LatchAssumption DEF IInv, TypeOK
<1>3. /\ Head(unlockCh) \in Txn /\ Head(unlockCh) = unlockCh[1] /\ 1 \in 1..Len(unlockCh)
      /\ unlockCh' \in Seq(Txn) /\ Len(unlockCh') <= ChanSize
      /\ \A i \in 1..Len(unlockCh') : i + 1 \in 1..Len(unlockCh) /\ unlockCh'[i] = unlockCh[i + 1]
  BY SMTT(60), <1>1, <1>2
<1>4. <<>> \in Seq(Txn) /\ Len(<<>>) = 0
  BY SMTT(60)
<1>5. TypeOK'
  BY <1>1, <1>3, <1>4 DEF IInv, TypeOK
<1>6. QueuedOnce'
  BY <1>1, ListsEmptied
<1>7. Progress' /\ RecyclerInRange' /\ ClockAhead'
  BY <1>1 DEF IInv, Progress, ClockAhead, RecyclerInRange
<1>8. ReleasesDone'
  BY <1>1, <1>3 DEF IInv, ReleasesDone
<1>9. Seen'
  <2>1. clock \in Nat /\ clock >= clock
    BY SMTT(60) DEF IInv, TypeOK
  <2> QED BY <1>1, <2>1, QuietStep
<1> QED BY <1>5, <1>6, <1>7, <1>8, <1>9 DEF IInv, Seen

\* Both forms of releaseSlot: the lists are looked at apart from the rest.
LEMMA ReleasePlaces ==
    ASSUME IInv, sched.at = "release", NEW c \in Txn, c = sched.cur, acquired[c] > 0,
           acquired' = [acquired EXCEPT ![c] = @ - 1],
           keys' = keys, commit' = commit, pc' = pc
    PROVE  Progress' /\ acquired' \in [Txn -> Nat] /\ \A u \in Txn : acquired'[u] <= Len(keys'[u])
<1>1. acquired \in [Txn -> Nat] /\ \A u \in Txn : Len(keys[u]) \in Nat /\ acquired[u] <= Len(keys[u])
  BY KeysAre DEF IInv, TypeOK
<1>2. pc[c] = "sent"
  BY DEF IInv, ReleasesDone
<1>3. acquired'[c] = acquired[c] - 1 /\ \A u \in Txn : u # c => acquired'[u] = acquired[u]
  BY <1>1
<1>4. Progress'
  BY <1>2, <1>3 DEF IInv, Progress
<1> QED BY SMTT(60), <1>1, <1>3, <1>4

LEMMA ReleaseSlotStep == ASSUME IInv, ReleaseSlot PROVE IInv'
<1> DEFINE c == sched.cur
           k == keys[c][acquired[c]]
<1>1. /\ sched.at = "release" /\ acquired[c] > 0
      /\ node' = [node EXCEPT ![k] = [in |-> TRUE, max |-> MaxOf(node[k].max, commit[c]), val |-> None]]
      /\ acquired' = [acquired EXCEPT ![c] = @ - 1]
      /\ clock' = clock /\ keys' = keys /\ start' = start /\ commit' = commit /\ stale' = stale
      /\ pc' = pc /\ waiting' = waiting /\ unlockCh' = unlockCh /\ closed' = closed
      /\ sched' = sched /\ recycler' = recycler /\ skipped' = skipped
  BY LastKeyHeld DEF ReleaseSlot, IInv, TypeOK
<1>2. c \in Txn
  BY <1>1 DEF IInv, TypeOK
<1>3. k \in Keys
  BY <1>1, <1>2, LastKeyHeld DEF IInv
<1> HIDE DEF c, k
<1>4. node' \in [Keys -> [in : BOOLEAN, max : Nat, val : Txn \cup {None}]]
  BY <1>1, <1>2, <1>3 DEF IInv, TypeOK, MaxOf
<1>5. Progress' /\ acquired' \in [Txn -> Nat] /\ \A u \in Txn : acquired'[u] <= Len(keys'[u])
  BY <1>1, <1>2, ReleasePlaces DEF c
<1>6. TypeOK'
  BY <1>1, <1>4, <1>5 DEF IInv, TypeOK
<1>7. QueuedOnce'
  BY ZenonT(40), <1>1, ListsStay
<1>8. ReleasesDone' /\ RecyclerInRange' /\ ClockAhead'
  BY <1>1 DEF IInv, ReleasesDone, ClockAhead, RecyclerInRange
<1>9. Seen'
  BY <1>1, <1>2, ReleaseStep DEF k, Frees
<1> QED BY <1>5, <1>6, <1>7, <1>8, <1>9 DEF IInv, Seen

LEMMA StartWakeStep == ASSUME IInv, StartWake PROVE IInv'
<1>1. /\ sched.at = "release" /\ sched' = [sched EXCEPT !.at = "wake"]
      /\ clock' = clock /\ keys' = keys /\ start' = start /\ commit' = commit
      /\ acquired' = acquired /\ stale' = stale /\ pc' = pc /\ node' = node /\ waiting' = waiting
      /\ unlockCh' = unlockCh /\ closed' = closed /\ recycler' = recycler /\ skipped' = skipped
  BY DEF StartWake, lockVars
<1>2. sched'.wake = sched.wake /\ sched'.cur = sched.cur
      /\ sched' \in [at : {"idle", "release", "wake"}, cur : Txn \cup {None}, wake : Seq(Txn)]
  BY <1>1 DEF IInv, TypeOK
<1>3. TypeOK'
  BY <1>1, <1>2 DEF IInv, TypeOK
<1>4. QueuedOnce'
  BY <1>1, <1>2, ListsStay
<1>5. Progress' /\ ReleasesDone' /\ RecyclerInRange' /\ ClockAhead'
  BY <1>1, <1>2 DEF IInv, Progress, ReleasesDone, ClockAhead, RecyclerInRange
<1>6. Seen'
  <2>1. clock \in Nat /\ clock >= clock
    BY SMTT(60) DEF IInv, TypeOK
  <2> QED BY <1>1, <2>1, QuietStep
<1> QED BY <1>3, <1>4, <1>5, <1>6 DEF IInv, Seen

LEMMA WakeStaleStep == ASSUME IInv, WakeStale PROVE IInv'
<1>1. /\ sched.at = "wake" /\ sched.wake # <<>> /\ sched' = [sched EXCEPT !.wake = Tail(@)]
      /\ pc' = [pc EXCEPT ![Head(sched.wake)] = "stale"]
      /\ clock' = clock /\ keys' = keys /\ start' = start /\ commit' = commit
      /\ acquired' = acquired /\ stale' = stale /\ node' = node /\ waiting' = waiting
      /\ unlockCh' = unlockCh /\ closed' = closed /\ recycler' = recycler /\ skipped' = skipped
  BY DEF WakeStale
<1>2. sched.wake \in Seq(Txn)
  BY DEF IInv, TypeOK
<1>3. Head(sched.wake) \in Txn /\ Head(sched.wake) = sched.wake[1] /\ 1 \in 1..Len(sched.wake)
      /\ Tail(sched.wake) \in Seq(Txn)
  BY SMTT(60), <1>1, <1>2
<1>4. pc[Head(sched.wake)] = "wait"
  BY <1>3 DEF IInv, QueuedOnce
<1>5. sched'.at = sched.at /\ sched'.cur = sched.cur /\ sched'.wake = Tail(sched.wake)
      /\ sched' \in [at : {"idle", "release", "wake"}, cur : Txn \cup {None}, wake : Seq(Txn)]
  BY <1>1, <1>3 DEF IInv, TypeOK
<1>6. TypeOK'
  BY <1>1, <1>5 DEF IInv, TypeOK
<1>7. QueuedOnce'
  BY <1>1, <1>5, WakePasses
<1>8. Progress' /\ RecyclerInRange' /\ ClockAhead'
  BY <1>1, <1>3 DEF IInv, TypeOK, Progress, ClockAhead, RecyclerInRange
<1>9. ReleasesDone'
  <2>1. \A u \in Txn : pc[u] = "sent" => pc'[u] = "sent"
    BY <1>1, <1>4 DEF IInv, TypeOK
  <2> QED BY <1>1, <1>5, <2>1, ReleasesStay
<1>10. Seen'
  <2>1. clock \in Nat /\ clock >= clock
    BY SMTT(60) DEF IInv, TypeOK
  <2> QED BY <1>1, <2>1, QuietStep
<1> QED BY <1>6, <1>7, <1>8, <1>9, <1>10 DEF IInv, Seen

LEMMA TurnEndsStep == ASSUME IInv, TurnEnds PROVE IInv'
<1>1. /\ sched.at = "wake" /\ sched.wake = <<>> /\ sched' = Idle
      /\ recycler' = recycler \/ recycler' = [ts |-> commit[sched.cur], next |-> 0]
      /\ clock' = clock /\ keys' = keys /\ start' = start /\ commit' = commit
      /\ acquired' = acquired /\ stale' = stale /\ pc' = pc /\ node' = node /\ waiting' = waiting
      /\ unlockCh' = unlockCh /\ closed' = closed /\ skipped' = skipped
  BY DEF TurnEnds, lockVars
<1>2. sched.cur \in Txn
  BY <1>1 DEF IInv, TypeOK
<1>3. recycler' \in [ts : Nat, next : 0..NumSlots] /\ recycler'.ts < clock /\ RecyclerInRange'
  <2>1. CASE recycler' = recycler
    BY <2>1 DEF IInv, TypeOK, ClockAhead, RecyclerInRange, NoRecycle
  <2>2. CASE recycler' = [ts |-> commit[sched.cur], next |-> 0]
    <3>1. commit[sched.cur] \in Nat /\ commit[sched.cur] < clock
      BY <1>2 DEF IInv, TypeOK, ClockAhead
    <3>2. 0 \in 0..NumSlots /\ 0 < NumSlots
      BY SMTT(60), LatchAssumption
    <3> QED BY <2>2, <3>1, <3>2 DEF RecyclerInRange
  <2> QED BY <1>1, <2>1, <2>2
<1>4. sched'.wake = sched.wake /\ sched'.at = "idle"
      /\ sched' \in [at : {"idle", "release", "wake"}, cur : Txn \cup {None}, wake : Seq(Txn)]
  BY SMTT(60), <1>1 DEF Idle
<1>5. TypeOK'
  BY <1>1, <1>3, <1>4 DEF IInv, TypeOK
<1>6. QueuedOnce'
  BY <1>1, <1>4, ListsStay
<1>7. Progress' /\ ReleasesDone' /\ ClockAhead'
  BY <1>1, <1>3, <1>4 DEF IInv, Progress, ReleasesDone, ClockAhead
<1>8. Seen'
  <2>1. clock \in Nat /\ clock >= clock
    BY SMTT(60) DEF IInv, TypeOK
  <2> QED BY <1>1, <2>1, QuietStep
<1> QED BY <1>3, <1>5, <1>6, <1>7, <1>8 DEF IInv, Seen

LEMMA RecycleStep == ASSUME IInv, RecycleSlot PROVE IInv'
<1>1. /\ recycler # NoRecycle /\ node' = Recycled(node, recycler.next, recycler.ts)
      /\ recycler' = IF recycler.next + 1 = NumSlots THEN NoRecycle
                     ELSE [recycler EXCEPT !.next = @ + 1]
      /\ clock' = clock /\ keys' = keys /\ start' = start /\ commit' = commit
      /\ acquired' = acquired /\ stale' = stale /\ pc' = pc /\ waiting' = waiting
      /\ unlockCh' = unlockCh /\ closed' = closed /\ sched' = sched /\ skipped' = skipped
  BY DEF RecycleSlot, lockVars
<1>2. Shrunk(node', recycler.ts)
  BY <1>1, RecycledShrinks DEF IInv
<1>3. recycler.ts \in Nat /\ recycler.ts < clock /\ clock \in Nat
  BY DEF IInv, TypeOK, ClockAhead
<1>4. recycler' \in [ts : Nat, next : 0..NumSlots] /\ recycler'.ts < clock /\ RecyclerInRange'
  <2>1. recycler.next \in 0..NumSlots /\ recycler.next < NumSlots /\ NumSlots \in Nat
    BY <1>1, LatchAssumption DEF IInv, TypeOK, RecyclerInRange
  <2>2. CASE recycler' = NoRecycle
    BY SMTT(60), <1>3, <2>1, <2>2 DEF NoRecycle, RecyclerInRange
  <2>3. CASE recycler.next + 1 # NumSlots /\ recycler' = [recycler EXCEPT !.next = @ + 1]
    <3>1. recycler'.ts = recycler.ts /\ recycler'.next = recycler.next + 1
          /\ recycler' = [ts |-> recycler'.ts, next |-> recycler'.next]
      BY <2>1, <2>3 DEF IInv, TypeOK
    <3> QED BY SMTT(60), <1>3, <2>1, <2>3, <3>1 DEF RecyclerInRange
  <2> QED BY <1>1, <2>2, <2>3
<1>5. TypeOK'
  BY <1>1, <1>2, <1>4 DEF IInv, TypeOK, Shrunk
<1>6. QueuedOnce'
  BY <1>1, ListsStay
<1>7. Progress' /\ ReleasesDone' /\ ClockAhead'
  BY <1>1, <1>4 DEF IInv, Progress, ReleasesDone, ClockAhead
<1>8. Seen'
  BY SMTT(60), <1>1, <1>2, <1>3, ShrinkStep
<1> QED BY <1>4, <1>5, <1>6, <1>7, <1>8 DEF IInv, Seen

LEMMA IdleStep == ASSUME IInv, Close \/ Pause \/ UNCHANGED vars PROVE IInv'
<1>1. /\ clock' \in Nat /\ clock' >= clock
      /\ keys' = keys /\ start' = start /\ commit' = commit
      /\ acquired' = acquired /\ stale' = stale /\ pc' = pc /\ node' = node /\ waiting' = waiting
      /\ unlockCh' = unlockCh /\ closed' \in BOOLEAN /\ sched' = sched /\ recycler' = recycler
      /\ skipped' = skipped
  <2>1. clock \in Nat /\ Expire \in Nat /\ closed \in BOOLEAN
    BY LatchAssumption DEF IInv, TypeOK
  <2>2. CASE Close
    BY SMTT(60), <2>1, <2>2 DEF Close, lockVars
  <2>3. CASE Pause
    BY SMTT(60), <2>1, <2>3 DEF Pause, lockVars
  <2>4. CASE UNCHANGED vars
    BY SMTT(60), <2>1, <2>4 DEF vars
  <2> QED BY <2>2, <2>3, <2>4
<1>2. TypeOK'
  BY <1>1 DEF IInv, TypeOK
<1>3. QueuedOnce'
  BY <1>1, ListsStay
<1>4. Progress' /\ ReleasesDone'
  BY <1>1 DEF IInv, Progress, ReleasesDone
<1>5. RecyclerInRange' /\ ClockAhead'
  BY SMTT(60), <1>1 DEF IInv, TypeOK, ClockAhead, RecyclerInRange
<1>6. Seen'
  BY <1>1, QuietStep
<1> QED BY <1>2, <1>3, <1>4, <1>5, <1>6 DEF IInv, Seen

----------------------------------------------------------------------------
LEMMA InitIInv == Init => IInv
<1> SUFFICES ASSUME Init PROVE IInv
  OBVIOUS
<1>1. /\ Expire + 1 \in Nat /\ Expire + 1 > 0 /\ <<>> \in Seq(Txn) /\ Len(<<>>) = 0
      /\ NumSlots \in 0..NumSlots /\ 0 <= ChanSize /\ None \notin Txn
  BY SMTT(60), LatchAssumption
<1>2. TypeOK
  <2>1. node \in [Keys -> [in : BOOLEAN, max : Nat, val : Txn \cup {None}]]
    BY DEF Init, NoNode
  <2>2. sched \in [at : {"idle", "release", "wake"}, cur : Txn \cup {None}, wake : Seq(Txn)]
        /\ sched.at = "idle"
    BY SMTT(60) DEF Init, Idle
  <2>3. recycler \in [ts : Nat, next : 0..NumSlots]
    BY <1>1 DEF Init, NoRecycle
  <2>4. unlockCh \in Seq(Txn) /\ Len(unlockCh) <= ChanSize /\ waiting \in [Slots -> Seq(Txn)]
    BY <1>1 DEF Init
  <2>5. keys \in [Txn -> KeySeqs \cup {<<>>}] /\ acquired \in [Txn -> Nat]
        /\ \A t \in Txn : acquired[t] <= Len(keys[t])
    BY SMTT(60), <1>1 DEF Init
  <2> QED BY <1>1, <2>1, <2>2, <2>3, <2>4, <2>5 DEF Init, TypeOK
<1>3. QueuedOnce /\ Progress /\ ReleasesDone
  BY SMTT(60), <1>1 DEF Init, QueuedOnce, Progress, ReleasesDone, Idle
<1>4. RecyclerInRange /\ ClockAhead
  BY <1>1 DEF Init, ClockAhead, NoRecycle, RecyclerInRange
<1>5. \A t \in Txn, k \in Keys : ~Holds(t, k)
  BY SMTT(60) DEF Init, Holds
<1>6. OwnersAgree /\ CommitKept /\ ConflictSeen
  BY SMTT(60), <1>5 DEF Init, OwnersAgree, CommitKept, ConflictSeen, NoNode
<1> QED BY <1>2, <1>3, <1>4, <1>6 DEF IInv

LOCAL INSTANCE WellFoundedInduction

\* A non-empty set of numbers has a smallest one: the first waiter exists.
LEMMA SmallestOf ==
    ASSUME NEW S, S \subseteq Nat, S # {}
    PROVE  \E n \in S : \A m \in S : n <= m
<1>1. PICK n \in S : \A m \in S : ~(<<m, n>> \in OpToRel(<, Nat))
  BY NatLessThanWellFounded, WFMin
<1>2. \A m \in S : ~(m < n)
  BY <1>1 DEF OpToRel
<1> QED BY SMTT(60), <1>2

LEMMA ReleaseWakesStep == ASSUME IInv, ReleaseWakes PROVE IInv'
<1> DEFINE c == sched.cur
           k == keys[c][acquired[c]]
           s == SlotOf[k]
           i == CHOOSE j \in WaitersFor(k) : \A h \in WaitersFor(k) : j <= h
           w == waiting[s][i]
           m == MaxOf(node[k].max, commit[c])
<1>1. /\ sched.at = "release" /\ acquired[c] > 0 /\ WaitersFor(k) # {}
      /\ node' = [node EXCEPT ![k] = [in |-> TRUE, max |-> m, val |-> None]]
      /\ acquired' = [acquired EXCEPT ![c] = @ - 1]
      /\ waiting' = [waiting EXCEPT ![s] = RemoveNth(@, i)]
      /\ stale' = [stale EXCEPT ![w] = @ \/ m > start[w]]
      /\ sched' = [sched EXCEPT !.wake = Append(@, w)]
      /\ skipped' = (IF m > start[w] THEN skipped \cup {waiting[s][j] : j \in WaitersFor(k)} ELSE skipped) \ {w}
      /\ clock' = clock /\ keys' = keys /\ start' = start /\ commit' = commit /\ pc' = pc
      /\ unlockCh' = unlockCh /\ closed' = closed /\ recycler' = recycler
  BY DEF ReleaseWakes
<1>2. c \in Txn
  BY <1>1 DEF IInv, TypeOK
<1>3. k \in Keys /\ s \in Slots
  BY ZenonT(40), <1>1, <1>2, LastKeyHeld, LatchAssumption DEF IInv
<1>4. i \in 1..Len(waiting[s])
  <2>1. waiting[s] \in Seq(Txn)
    BY <1>3 DEF IInv, TypeOK
  <2>2. WaitersFor(k) \subseteq 1..Len(waiting[s])
    BY DEF WaitersFor
  <2>3. WaitersFor(k) \subseteq Nat
    BY SMTT(60), <2>1, <2>2
  <2>4. \E j \in WaitersFor(k) : \A h \in WaitersFor(k) : j <= h
    <3> HIDE DEF k
    <3> QED BY <1>1, <2>3, SmallestOf
  <2> QED BY <2>2, <2>4
<1> HIDE DEF c, k, s, i
<1>5. w \in Txn /\ sched.wake \in Seq(Txn) /\ waiting[s] \in Seq(Txn)
  BY SMTT(60), <1>3, <1>4 DEF IInv, TypeOK
<1>6. sched' \in [at : {"idle", "release", "wake"}, cur : Txn \cup {None}, wake : Seq(Txn)]
      /\ sched'.at = sched.at /\ sched'.cur = sched.cur /\ sched'.wake = Append(sched.wake, w)
  <2>1. Append(sched.wake, w) \in Seq(Txn)
    BY SMTT(60), <1>5
  <2>2. sched \in [at : {"idle", "release", "wake"}, cur : Txn \cup {None}, wake : Seq(Txn)]
    BY DEF IInv, TypeOK
  <2> HIDE DEF w
  <2> QED BY <1>1, <2>1, <2>2
<1>7. QueuedOnce' /\ waiting' \in [Slots -> Seq(Txn)]
  BY <1>1, <1>3, <1>4, <1>6, MovesToWake
<1>8. node' \in [Keys -> [in : BOOLEAN, max : Nat, val : Txn \cup {None}]]
  BY <1>1, <1>2, <1>3 DEF IInv, TypeOK, MaxOf
<1>9. Progress' /\ acquired' \in [Txn -> Nat] /\ \A u \in Txn : acquired'[u] <= Len(keys'[u])
  BY <1>1, <1>2, ReleasePlaces DEF c
<1>10. stale' \in [Txn -> BOOLEAN]
  <2>1. (stale[w] \/ m > start[w]) \in BOOLEAN
    BY <1>5 DEF IInv, TypeOK
  <2> HIDE DEF m, w
  <2> QED BY <1>1, <2>1 DEF IInv, TypeOK
<1>11. skipped' \subseteq Txn
  <2>1. \A j \in WaitersFor(k) : j \in 1..Len(waiting[s])
    BY DEF WaitersFor, s
  <2>2. \A j \in WaitersFor(k) : waiting[s][j] \in Txn
    BY SMTT(60), <1>5, <2>1
  <2>3. skipped \subseteq Txn
    BY DEF IInv, TypeOK
  <2> HIDE DEF m, w
  <2> QED BY <1>1, <2>2, <2>3
<1>12. TypeOK'
  BY <1>1, <1>6, <1>7, <1>8, <1>9, <1>10, <1>11 DEF IInv, TypeOK
<1>13. ReleasesDone' /\ RecyclerInRange' /\ ClockAhead'
  BY <1>1, <1>6 DEF IInv, ReleasesDone, ClockAhead, RecyclerInRange
<1>14. Seen'
  BY <1>1, <1>2, ReleaseStep DEF k, Frees
<1> QED BY <1>7, <1>9, <1>12, <1>13, <1>14 DEF IInv, Seen

\* The invariant is inductive.
LEMMA IInvStep == IInv /\ [Next]_vars => IInv'
<1> SUFFICES ASSUME IInv, [Next]_vars PROVE IInv'
  OBVIOUS
<1>1. CASE \E t \in Txn : Begin(t) \/ TxnStep(t)
  BY <1>1, BeginStep, CommitStep, AcquireSlotStep, AcquireStaleStep, AcquireLockedStep, LeaveStep
     DEF TxnStep, Acquire
<1>2. CASE Scheduler
  BY <1>2, ReceiveStep, ReleaseSlotStep, ReleaseWakesStep, StartWakeStep, WakeStaleStep, TurnEndsStep
     DEF Scheduler
<1>3. CASE RecycleSlot
  BY <1>3, RecycleStep
<1>4. CASE Close \/ Pause \/ UNCHANGED vars
  BY <1>4, IdleStep
<1> QED BY <1>1, <1>2, <1>3, <1>4 DEF Next

\* No two transactions are past Lock with a key in common, and what releaseSlot finds is the
\* node it owns: nodes and locks agree, whatever the interleaving of the transactions, the
\* scheduler and the recycler.
THEOREM LatchesExclude == Spec => []OwnersAgree
<1>1. IInv => OwnersAgree
  BY DEF IInv
<1> QED BY <1>1, InitIInv, IInvStep, PTL DEF Spec

\* A transaction that holds a latch, and has not lasted as long as expireDuration, started after
\* every commit on that key: recycling and the list limit lose no commit that matters.
THEOREM NoConflictMissed == Spec => []ConflictSeen
<1>1. IInv => ConflictSeen
  BY DEF IInv
<1> QED BY <1>1, InitIInv, IInvStep, PTL DEF Spec
============================================================================
