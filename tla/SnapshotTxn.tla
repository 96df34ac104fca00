----------------------------- MODULE SnapshotTxn -----------------------------
(***************************************************************************)
(* What the transactions of the embedded engine promise, without locks,    *)
(* requests or failures: snapshot isolation.  A transaction takes a start  *)
(* timestamp, reads the newest version committed at or below it, and       *)
(* commits all its writes in one step or none of them.  TwoPhaseCommit is  *)
(* shown to implement this module.                                         *)
(***************************************************************************)
EXTENDS Integers

CONSTANTS
    Txn,        \* the transactions
    Keys,       \* the keys of the store
    Puts,       \* Puts[t]: the keys to which a transaction writes a value
    Dels,       \* Dels[t]: the keys it deletes
    Locks       \* Locks[t]: the keys it only locks

\* The value of seen[t][k] before t has read k.
Unread == -1

VARIABLES
    start,      \* start[t]: the start timestamp, 0 before t begins
    commit,     \* commit[t]: the commit timestamp, 0 while t has not committed
    seen        \* seen[t][k]: the start timestamp of the writer whose value t read, 0 for none

vars == <<start, commit, seen>>

Writes(t) == Puts[t] \cup Dels[t]

Committed(t) == commit[t] > 0

\* The committed writers of k that a snapshot at ts covers.
Covered(k, ts) == {u \in Txn : Committed(u) /\ k \in Writes(u) /\ commit[u] <= ts}

\* x is the value of k at ts: that of the last of the writers covered, 0 for none.
IsValue(k, ts, x) ==
    \/ Covered(k, ts) = {} /\ x = 0
    \/ \E u \in Covered(k, ts) :
         /\ \A w \in Covered(k, ts) : commit[w] <= commit[u]
         /\ x = IF k \in Puts[u] THEN start[u] ELSE 0

------------------------------------------------------------------------------

Init ==
    /\ start = [t \in Txn |-> 0]
    /\ commit = [t \in Txn |-> 0]
    /\ seen = [t \in Txn |-> [k \in Keys |-> Unread]]

\* A start timestamp is above every commit timestamp and every start timestamp so far.
Begin(t) ==
    /\ start[t] = 0
    /\ start'[t] \in Nat
    /\ \A u \in Txn : start[u] < start'[t] /\ commit[u] < start'[t]
    /\ start' = [start EXCEPT ![t] = start'[t]]
    /\ UNCHANGED <<commit, seen>>

\* Several keys may be read at once.
Read(t) ==
    /\ start[t] > 0
    /\ seen' \in [Txn -> [Keys -> Nat \cup {Unread}]]
    /\ \A u \in Txn, k \in Keys :
         \/ seen'[u][k] = seen[u][k]
         \/ u = t /\ seen[t][k] = Unread /\ IsValue(k, start[t], seen'[t][k])
    /\ UNCHANGED <<start, commit>>

\* A transaction commits when no other one has committed a write to its keys since it started,
\* at a timestamp that no reader of its writes has already passed.
Commit(t) ==
    /\ start[t] > 0
    /\ ~Committed(t)
    /\ \A u \in Txn : Committed(u) /\ Writes(u) \cap (Writes(t) \cup Locks[t]) # {} => commit[u] < start[t]
    /\ commit'[t] \in Nat
    /\ commit'[t] > start[t]
    /\ \A u \in Txn : start[u] # commit'[t] /\ commit[u] # commit'[t]
    /\ \A u \in Txn, k \in Writes(t) : seen[u][k] # Unread => start[u] < commit'[t]
    /\ commit' = [commit EXCEPT ![t] = commit'[t]]
    /\ UNCHANGED <<start, seen>>

Next == \E t \in Txn : Begin(t) \/ Read(t) \/ Commit(t)

Spec == Init /\ [][Next]_vars

------------------------------------------------------------------------------
(* Properties *)

TypeOK ==
    /\ start \in [Txn -> Nat]
    /\ commit \in [Txn -> Nat]
    /\ seen \in [Txn -> [Keys -> Nat \cup {Unread}]]

\* A value that was read stays the value of the snapshot: no commit slips in below a snapshot
\* that has already looked at the key.
ReadsStable ==
    \A t \in Txn, k \in Keys : seen[t][k] # Unread => IsValue(k, start[t], seen[t][k])

\* Of two committed transactions that write the same key, one started after the other had
\* committed: no update is lost.
NoLostUpdate ==
    \A t, u \in Txn :
        t # u /\ Committed(t) /\ Committed(u) /\ Writes(t) \cap Writes(u) # {}
            => commit[t] < start[u] \/ commit[u] < start[t]
==============================================================================
