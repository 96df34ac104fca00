------------------------------ MODULE DdlJobs ------------------------------
(***************************************************************************)
(* The queues of DDL jobs (ddl/ddl.go, ddl_worker.go, reorg.go, table.go,  *)
(* delete_range.go, meta/meta.go, model/ddl.go, util/admin/admin.go,       *)
(* owner/manager.go).                                                      *)
(*                                                                         *)
(* A session appends its job to one of two lists in the store, add-index   *)
(* jobs to a list of their own, and polls the history until the job is     *)
(* there.  On the server that is the owner one worker per list runs the    *)
(* job at its head, step by step; a job waits for an older job on its      *)
(* table in the other list.  The worker of the add-index list leaves the   *)
(* backfill to a goroutine, whose state (reorgCtx) belongs to the worker   *)
(* and not to a job.  Clients cancel jobs by rewriting them in the lists.  *)
(*                                                                         *)
(* The states of an index before its backfill, and the waits for the other *)
(* servers, are the subject of OnlineIndex and are one step here.  Each    *)
(* table has one index, the one that the jobs add and drop.                *)
(***************************************************************************)
EXTENDS Naturals, Sequences, SequencesExt, FiniteSets

CONSTANTS
    Server,     \* the servers
    NoServer,   \* no server is the owner
    Table,      \* the tables
    Type,       \* the types of the jobs, out of "addIndex", "dropIndex" and "dropTable"
    MaxJobs,    \* bound: jobs
    MaxFault    \* bound: ADMIN CANCEL DDL JOBS, and ownerships lost by a crash or the end of the etcd session

VARIABLES
    queue,      \* queue[q]: the list of jobs, "general" or "index"
    history,    \* history[id]: how the job ended, in the history list
    waiter,     \* waiter[id]: the table of the job whose session waits for it in the history
    table,      \* table[t]: the state of the table
    index,      \* index[t]: the state of the index; "partial" is deleteOnly or writeOnly, "reorg" writeReorg
    filled,     \* the tables whose index has all its entries
    ranges,     \* the tables in the delete-range table
    owner,      \* the DDL owner
    reorg,      \* reorg[s]: reorgCtx of the add-index worker of s, and its goroutine
    cancelled,  \* the jobs a client cancelled (ghost)
    strayed,    \* the jobs a cancel has written to a wrong place, or over (ghost)
    adopted,    \* the jobs that took the result of a goroutine left behind (ghost)
    count       \* the cancels and the ownerships lost so far

ghosts == <<cancelled, strayed, adopted>>

vars == <<queue, history, waiter, table, index, filled, ranges, owner, reorg, ghosts, count>>

Queues == {"general", "index"}

\* newMetaWithQueueTp.
QueueOf(type) == IF type = "addIndex" THEN "index" ELSE "general"

\* job: the job that started the goroutine, 0 when there is none.  left: that job has ended, or
\* the server was not the owner any more, before the result was taken.
NoReorg == [job |-> 0, cancel |-> FALSE, result |-> "none", left |-> FALSE]

Ids == 1 .. MaxJobs

NextId == Len(waiter) + 1

------------------------------------------------------------------------------
(* Sessions *)

\* Mutant: no job of the other list is waited for.
NoDependency(t, others) == 0

\* buildJobDependence: the latest job on the same table in the other list.
DependencyID(t, others) ==
    LET same == {i \in DOMAIN others : others[i].tbl = t} IN
    IF same = {} THEN 0 ELSE others[CHOOSE i \in same : \A j \in same : j <= i].id

\* doDDLJob: a session queues a job on a table it knows (addDDLJob).
Submit(type, t) ==
    LET q == QueueOf(type)
        other == CHOOSE x \in Queues : x # q
        job == [id |-> NextId, type |-> type, tbl |-> t, state |-> "none", snap |-> FALSE, moved |-> FALSE,
                dep |-> DependencyID(t, queue[other])]
    IN /\ NextId \in Ids
       /\ table[t] # "none"
       /\ queue' = [queue EXCEPT ![q] = Append(@, job)]
       /\ waiter' = Append(waiter, t)
       /\ UNCHANGED <<history, table, index, filled, ranges, owner, reorg, ghosts, count>>

\* GetDDLJobs: both lists, sorted by ID.
AllJobs == SortSeq(queue.general \o queue.index, LAMBDA x, y : x.id < y.id)

\* CancelJobs: the job is written back to its list at the place it has among the jobs of both
\* lists (UpdateDDLJob), which does nothing when its list is shorter.
Cancel(id) ==
    LET hits == {n \in DOMAIN AllJobs : AllJobs[n].id = id /\ AllJobs[n].state \in {"none", "running", "cancelling"}}
        Written(q) == {n \in hits \cap DOMAIN queue[q] : QueueOf(AllJobs[n].type) = q}
    IN /\ count < MaxFault
       /\ queue' = [q \in Queues |-> [n \in DOMAIN queue[q] |->
                       IF n \in Written(q) THEN [AllJobs[n] EXCEPT !.state = "cancelling"] ELSE queue[q][n]]]
       /\ queue' # queue
       /\ cancelled' = cancelled \cup {id}
       /\ strayed' = strayed \cup UNION {{id, queue[q][n].id} : <<q, n>> \in
                        {<<q, n>> \in Queues \X Ids : n \in Written(q) /\ queue[q][n].id # id}}
       /\ count' = count + 1
       /\ UNCHANGED <<history, waiter, table, index, filled, ranges, owner, reorg, adopted>>

------------------------------------------------------------------------------
(* The workers of the owner *)

\* Mutant: the job waited for has to have succeeded.
RunsAfterSynced(s, q) ==
    /\ owner = s
    /\ queue[q] # <<>>
    /\ \/ Head(queue[q]).dep = 0
       \/ Head(queue[q]).dep \in DOMAIN history /\ history[Head(queue[q]).dep] = "synced"

\* handleDDLJobQueue: s is the owner, and the job its head waits for has ended
\* (isDependencyJobDone).
Runs(s, q) ==
    /\ owner = s
    /\ queue[q] # <<>>
    /\ Head(queue[q]).dep = 0 \/ Head(queue[q]).dep \in DOMAIN history

\* updateDDLJob.
Update(q, job) == queue' = [queue EXCEPT ![q][1] = job]

\* Mutant: the job stays in its list.
MoveKeepsJob(q, outcome) ==
    LET job == Head(queue[q]) IN
    /\ history' = [i \in DOMAIN history \cup {job.id} |-> IF i = job.id THEN outcome ELSE history[i]]
    /\ UNCHANGED <<queue, ranges>>

\* finishDDLJob: to the history, and to the delete-range table if the table is dropped.
MoveToHistory(q, outcome) ==
    LET job == Head(queue[q]) IN
    /\ queue' = [queue EXCEPT ![q] = Tail(@)]
    /\ history' = [i \in DOMAIN history \cup {job.id} |-> IF i = job.id THEN outcome ELSE history[i]]
    /\ ranges' = IF job.type = "dropTable" THEN ranges \cup {job.tbl} ELSE ranges

\* A job that is done or rolled back.
Finish(s, q) ==
    LET job == Head(queue[q]) IN
    /\ Runs(s, q)
    /\ job.state \in {"done", "rollbackDone"}
    /\ MoveToHistory(q, IF job.state = "done" THEN "synced" ELSE "rollbackDone")
    /\ UNCHANGED <<waiter, table, index, filled, owner, reorg, ghosts, count>>

\* The job has to stop its backfill before it can end: it brought the index into the state of
\* the backfill itself, and has begun it.
CancelsBackfill(job) == job.state = "cancelling" /\ job.type = "addIndex" /\ job.moved /\ job.snap

\* runDDLJob ends the job as cancelled: a client cancelled it, the table is not there or not public
\* (onDropTable, getTableInfo), or the index is there already or not at all.
EndsCancelled(job) ==
    \/ job.state = "cancelling" /\ ~CancelsBackfill(job)
    \/ job.state \in {"none", "running", "cancelling", "rollingback"} /\
          IF job.type = "dropTable" THEN table[job.tbl] = "none" ELSE table[job.tbl] # "public"
    \/ job.state \in {"none", "running", "cancelling"} /\ job.type = "addIndex" /\ index[job.tbl] = "public"
    \/ job.state \in {"none", "running"} /\ job.type = "dropIndex" /\ index[job.tbl] = "none"

\* The backfill of a job that ends without its result goes on without it.
EndCancelled(s, q) ==
    LET job == Head(queue[q]) IN
    /\ Runs(s, q)
    /\ EndsCancelled(job)
    /\ MoveToHistory(q, "cancelled")
    /\ reorg' = [reorg EXCEPT ![s].left = @ \/ reorg[s].job = job.id]
    /\ UNCHANGED <<waiter, table, index, filled, owner, ghosts, count>>

\* The head of the list may run as what it is.
RunsAs(s, type, states) ==
    LET job == Head(queue[QueueOf(type)]) IN
    /\ Runs(s, QueueOf(type))
    /\ job.type = type
    /\ job.state \in states

\* onDropTable.
DropTable(s) ==
    LET job == Head(queue.general)
        next == [public |-> "writeOnly", writeOnly |-> "deleteOnly", deleteOnly |-> "none"]
        st == table[job.tbl]
    IN /\ RunsAs(s, "dropTable", {"none", "running"})
       /\ st \in DOMAIN next
       /\ table' = [table EXCEPT ![job.tbl] = next[st]]
       /\ Update("general", [job EXCEPT !.state = IF st = "deleteOnly" THEN "done" ELSE "running"])
       /\ UNCHANGED <<history, waiter, index, filled, ranges, owner, reorg, ghosts, count>>

\* onDropIndex.  It only reports an error, over and over, when the index is in a state in which
\* the backfill of a cancelled job has left it.
DropIndex(s) ==
    LET job == Head(queue.general)
        next == [public |-> "partial", partial |-> "deleteReorg", deleteReorg |-> "none"]
        st == index[job.tbl]
    IN /\ RunsAs(s, "dropIndex", {"none", "running"})
       /\ table[job.tbl] = "public"
       /\ st \in DOMAIN next
       /\ index' = [index EXCEPT ![job.tbl] = next[st]]
       /\ Update("general", [job EXCEPT !.state = IF st = "deleteReorg" THEN "done" ELSE "running"])
       /\ UNCHANGED <<history, waiter, table, filled, ranges, owner, reorg, ghosts, count>>

\* onCreateIndex up to the state in which the index is backfilled.  It reports an error, over and
\* over, when a cancelled job has left the index in deleteReorg.
AddIndex(s) ==
    LET job == Head(queue.index) IN
    /\ RunsAs(s, "addIndex", {"none", "running"})
    /\ table[job.tbl] = "public"
    /\ index[job.tbl] \in {"none", "partial"}
    /\ index' = [index EXCEPT ![job.tbl] = "reorg"]
    /\ filled' = filled \ {job.tbl}
    /\ Update("index", [job EXCEPT !.state = "running", !.moved = TRUE])
    /\ UNCHANGED <<history, waiter, table, ranges, owner, reorg, ghosts, count>>

\* onDropIndex for a job that is rolled back.
Rollback(s) ==
    LET job == Head(queue.index) IN
    /\ RunsAs(s, "addIndex", {"rollingback"})
    /\ table[job.tbl] = "public"
    /\ index' = [index EXCEPT ![job.tbl] = "none"]
    /\ Update("index", [job EXCEPT !.state = "rollbackDone"])
    /\ UNCHANGED <<history, waiter, table, filled, ranges, owner, reorg, ghosts, count>>

------------------------------------------------------------------------------
(* The backfill *)

Reorganizes(s) ==
    LET job == Head(queue.index) IN
    /\ RunsAs(s, "addIndex", {"none", "running", "cancelling"})
    /\ job.state = "cancelling" => CancelsBackfill(job)
    /\ table[job.tbl] = "public"
    /\ index[job.tbl] = "reorg"

\* getReorgInfo the first time.
FirstReorg(s) ==
    LET job == Head(queue.index) IN
    /\ Reorganizes(s)
    /\ ~job.snap
    /\ Update("index", [job EXCEPT !.state = "running", !.snap = TRUE])
    /\ UNCHANGED <<history, waiter, table, index, filled, ranges, owner, reorg, ghosts, count>>

\* runReorgJob starts the goroutine when the worker has none, and tells it of a cancelled job.
\* Then its wait times out.
RunReorg(s) ==
    LET job == Head(queue.index) IN
    /\ Reorganizes(s)
    /\ job.snap
    /\ reorg[s].result = "none"
    /\ reorg' = [reorg EXCEPT ![s].job = IF @ = 0 THEN job.id ELSE @,
                              ![s].cancel = @ \/ job.state = "cancelling"]
    /\ reorg' # reorg
    /\ UNCHANGED <<queue, history, waiter, table, index, filled, ranges, owner, ghosts, count>>

\* The goroutine ends with what isReorgRunnable says after its last batch.
FillEnds(s) ==
    LET result == IF reorg[s].cancel THEN "cancelled" ELSE IF owner # s THEN "notOwner" ELSE "ok" IN
    /\ reorg[s].job # 0
    /\ reorg[s].result = "none"
    /\ reorg' = [reorg EXCEPT ![s].result = result]
    /\ filled' = IF result = "ok" THEN filled \cup {waiter[reorg[s].job]} ELSE filled
    /\ UNCHANGED <<queue, history, waiter, table, index, ranges, owner, ghosts, count>>

\* onCreateIndex goes on with a result of the backfill (convert2RollbackJob).
TakeResult(s) ==
    LET job == Head(queue.index)
        result == reorg[s].result
    IN /\ Reorganizes(s)
       /\ job.snap
       /\ result # "none"
       /\ index' = IF result = "ok" THEN [index EXCEPT ![job.tbl] = "public"] ELSE index
       /\ Update("index", [job EXCEPT !.state = CASE result = "ok" -> "done"
                                                 [] result = "cancelled" -> "rollingback"
                                                 [] result = "notOwner" -> @])
       /\ adopted' = IF reorg[s].left /\ reorg[s].job # job.id THEN adopted \cup {job.id} ELSE adopted
       /\ UNCHANGED <<history, waiter, table, filled, ranges, owner, cancelled, strayed, count>>

\* Mutant: the context of the goroutine is not cleaned.
ReorgDoneDirty(s) == TakeResult(s) /\ UNCHANGED reorg

\* runReorgJob takes the result and cleans its context, cancel notification included.
ReorgDone(s) == TakeResult(s) /\ reorg' = [reorg EXCEPT ![s] = NoReorg]

------------------------------------------------------------------------------
(* Ownership *)

\* The owner crashes and is restarted.
Crash(s) ==
    /\ count < MaxFault
    /\ owner = s
    /\ owner' = NoServer
    /\ reorg' = [reorg EXCEPT ![s] = NoReorg]
    /\ count' = count + 1
    /\ UNCHANGED <<queue, history, waiter, table, index, filled, ranges, ghosts>>

\* The etcd session of the owner ends: watchOwner returns, RetireOwner.  Its backfill goes on
\* until it finds out.
Retire(s) ==
    /\ count < MaxFault
    /\ owner = s
    /\ owner' = NoServer
    /\ reorg' = [reorg EXCEPT ![s].left = reorg[s].job # 0]
    /\ count' = count + 1
    /\ UNCHANGED <<queue, history, waiter, table, index, filled, ranges, ghosts>>

\* campaignLoop.
Campaign(s) ==
    /\ owner = NoServer
    /\ owner' = s
    /\ UNCHANGED <<queue, history, waiter, table, index, filled, ranges, reorg, ghosts, count>>

------------------------------------------------------------------------------
Init ==
    /\ queue = [q \in Queues |-> <<>>]
    /\ history = <<>>
    /\ waiter = <<>>
    /\ table = [t \in Table |-> "public"]
    /\ index = [t \in Table |-> "none"]
    /\ filled = {}
    /\ ranges = {}
    /\ owner = NoServer
    /\ reorg = [s \in Server |-> NoReorg]
    /\ cancelled = {}
    /\ strayed = {}
    /\ adopted = {}
    /\ count = 0

GeneralStep(s) == Finish(s, "general") \/ EndCancelled(s, "general") \/ DropTable(s) \/ DropIndex(s)

IndexStep(s) ==
    \/ Finish(s, "index") \/ EndCancelled(s, "index") \/ AddIndex(s) \/ Rollback(s)
    \/ FirstReorg(s) \/ RunReorg(s) \/ ReorgDone(s)

Next ==
    \/ \E type \in Type, t \in Table : Submit(type, t)
    \/ \E id \in DOMAIN waiter : Cancel(id)
    \/ \E s \in Server : \/ GeneralStep(s) \/ IndexStep(s) \/ FillEnds(s)
                        \/ Crash(s) \/ Retire(s) \/ Campaign(s)

Spec == Init /\ [][Next]_vars

\* The workers, the goroutine and the campaign keep going.
Fairness ==
    /\ \A s \in Server : WF_vars(GeneralStep(s)) /\ WF_vars(IndexStep(s)) /\ WF_vars(FillEnds(s))
    /\ WF_vars(\E s \in Server : Campaign(s))

FairSpec == Spec /\ Fairness

------------------------------------------------------------------------------
(* Properties *)

JobType == [id : Ids, type : Type, tbl : Table, dep : Ids \cup {0}, snap : BOOLEAN, moved : BOOLEAN,
            state : {"none", "running", "cancelling", "rollingback", "rollbackDone", "done"}]

\* The variables have their types.
TypeOK ==
    /\ \A q \in Queues : queue[q] \in Seq(JobType)
    /\ table \in [Table -> {"public", "writeOnly", "deleteOnly", "none"}]
    /\ index \in [Table -> {"none", "partial", "reorg", "public", "deleteReorg"}]
    /\ \A s \in Server : reorg[s].job \in {0} \cup DOMAIN waiter

\* The places where a job is: in the lists, or in the history.
Places(id) ==
    {<<q, i>> \in Queues \X Ids : i <= Len(queue[q]) /\ queue[q][i].id = id}
    \cup {<<"history", i>> : i \in {i \in DOMAIN history : i = id}}

\* A job a session waits for is in exactly one place (addDDLJob, finishDDLJob), unless CancelJobs
\* wrote it, or another job over it, to a place that was not its own.
NoJobLost == \A id \in DOMAIN waiter \ strayed : Cardinality(Places(id)) = 1

\* No job has begun while an older one on its table has not ended, whichever of the two lists
\* each is in (buildJobDependence, isDependencyJobDone); a job that CancelJobs wrote over, or
\* wrote to a place that was not its own, is not counted.
TableOrder ==
    \A id \in DOMAIN waiter \ strayed : id \notin DOMAIN history =>
        /\ \A later \in DOMAIN history : later > id => waiter[later] # waiter[id]
        /\ \A q \in Queues : \A i \in DOMAIN queue[q] :
             queue[q][i].id > id /\ queue[q][i].tbl = waiter[id] => queue[q][i].state \in {"none", "cancelling"}

\* What a worker's reorganisation context tells belongs to the job at hand (runReorgJob,
\* cleanNotifyReorgCancel): an index that is public has been backfilled, and only a job that a
\* client cancelled is rolled back as cancelled.  Excepted are jobs that met the goroutine of
\* another job which was left behind: its server lost the ownership and is the owner again, or
\* its job was cancelled without stopping it.
ReorgIsOwn ==
    /\ \A t \in Table : index[t] = "public" => t \in filled \/ \E id \in adopted : waiter[id] = t
    /\ \A id \in DOMAIN history \ adopted : history[id] = "rollbackDone" => id \in cancelled

\* The delete-range worker is given only tables that nobody can reach any more (finishDDLJob).
DeletesDropped == \A t \in ranges : table[t] = "none"

\* CancelJobs wrote another job over this one.
Lost(id) == id \in strayed /\ Places(id) = {}

\* The worker of a list is stuck: the job at its head waits for a job that is lost, or onDropIndex
\* or onCreateIndex only report the state of the index, which a job that was cancelled half way
\* has left behind.
Stuck(q) ==
    LET job == Head(queue[q]) IN
    /\ queue[q] # <<>>
    /\ \/ job.dep # 0 /\ Lost(job.dep)
       \/ /\ job.dep = 0 \/ job.dep \in DOMAIN history
          /\ job.state \in {"none", "running"}
          /\ \/ job.type = "dropIndex" /\ index[job.tbl] = "reorg"
             \/ job.type = "addIndex" /\ index[job.tbl] = "deleteReorg"

\* Every session finds its job in the history in the end, whichever server is the owner
\* (doDDLJob, handleDDLJobQueue), unless CancelJobs wrote another job over it or the worker of
\* one of the lists is stuck.
EveryJobEnds ==
    []<>((\A id \in DOMAIN waiter \ DOMAIN history : Lost(id)) \/ \E q \in Queues : Stuck(q))
=============================================================================
