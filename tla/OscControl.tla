----------------------------- MODULE OscControl -----------------------------
(***************************************************************************)
(* Online schema changes and the commands that control them.  A session    *)
(* runs a change with pt-osc or the gh-ost binary (execCommand) or with    *)
(* the gh-ost library (mysqlExecuteAlterTableGhost) and lists it in the    *)
(* server's oscProcessList.  Other sessions look changes up there to show, *)
(* kill, pause or resume them.  Three things block: the server's one       *)
(* rwlock, which also guards its table of connections, the lock RW of a    *)
(* change, and its unbuffered channel PanicAbort.                          *)
(***************************************************************************)
EXTENDS Naturals, FiniteSets

CONSTANTS
    Job,        \* online schema changes, each on a connection of its own
    Tool,       \* "pt", "bin" (gh-ost binary) or "lib" (gh-ost library) of a job
    Key,        \* sqlsha1 values
    KeyOf,      \* the sqlsha1 of a job; equal statements share one
    Admin,      \* sessions that issue commands
    MaxJobs,    \* bound on the changes that are started
    MaxCmds,    \* bound on the number of commands issued
    MaxLines,   \* bound on the lines of progress a tool prints
    None        \* no job, nobody

ASSUME OscAssumption ==
    /\ Tool \in [Job -> {"pt", "bin", "lib"}]
    /\ KeyOf \in [Job -> Key]
    /\ MaxJobs \in Nat
    /\ MaxCmds \in Nat
    /\ MaxLines \in Nat
    /\ None \notin Job
    /\ None \notin Admin
    /\ "listener" \notin Admin \cup {None}

Operation == {"kill", "pause", "resume"}

VARIABLES
    rwlock,     \* session that holds the server's lock for writing
    readers,    \* sessions that hold it for reading
    list,       \* oscProcessList
    rw,         \* who holds RW of a job
    killed,     \* Killed of a job
    paused,     \* Pause of a job
    complete,   \* Percent of a job is 100
    main,       \* where the session of a job is
    lsn,        \* where the goroutine listening on PanicAbort is
    oper,       \* the operation it received
    line,       \* a line of output waits to be analyzed
    printed,    \* lines printed so far
    dying,      \* the tool was told to abort
    failed,     \* the record of a job is in error
    status,     \* its StageStatus
    apc,        \* where a commanding session is
    cmd,        \* its command
    tgt,        \* the key, then the job it is about
    todo,       \* jobs its listing has still to read
    cmds        \* commands issued so far

locks == <<rwlock, readers, rw>>
flags == <<killed, paused, complete>>
tool == <<line, printed, dying, failed, status>>
admin == <<apc, cmd, tgt, todo, cmds>>
vars == <<rwlock, readers, list, rw, killed, paused, complete, main, lsn, oper,
          line, printed, dying, failed, status, apc, cmd, tgt, todo, cmds>>

\* PanicAbort (and, for the library, stop) of job j is closed.
Closed(j) == main[j] \in {"closed", "gone"}

NoLock == rwlock = None /\ readers = {}

Init ==
    /\ rwlock = None
    /\ readers = {}
    /\ list = [k \in Key |-> None]
    /\ rw = [j \in Job |-> None]
    /\ killed = [j \in Job |-> FALSE]
    /\ paused = [j \in Job |-> FALSE]
    /\ complete = [j \in Job |-> FALSE]
    /\ main = [j \in Job |-> "new"]
    /\ lsn = [j \in Job |-> "recv"]
    /\ oper = [j \in Job |-> "kill"]
    /\ line = [j \in Job |-> FALSE]
    /\ printed = [j \in Job |-> 0]
    /\ dying = [j \in Job |-> FALSE]
    /\ failed = [j \in Job |-> FALSE]
    /\ status = [j \in Job |-> "none"]
    /\ apc = [a \in Admin |-> "idle"]
    /\ cmd = [a \in Admin |-> "kill"]
    /\ tgt = [a \in Admin |-> None]
    /\ todo = [a \in Admin |-> {}]
    /\ cmds = 0

-----------------------------------------------------------------------------
(***************************************************************************)
(* The session of a job and the tool it runs.                              *)
(***************************************************************************)

\* AddOscProcess: an older change with the same sqlsha1 loses its entry.
AddOscProcess(j) ==
    /\ main[j] = "new"
    /\ Cardinality({i \in Job : main[i] # "new"}) < MaxJobs
    /\ NoLock
    /\ list' = [list EXCEPT ![KeyOf[j]] = j]
    /\ main' = [main EXCEPT ![j] = "run"]
    /\ UNCHANGED <<locks, flags, lsn, oper, tool, admin>>

\* The tool prints a line; the goroutine of the gh-ost library stops reading
\* after the one with 100 percent.
Output(j) ==
    /\ main[j] = "run"
    /\ ~line[j]
    /\ ~(Tool[j] # "pt" /\ complete[j])
    /\ printed[j] < MaxLines
    /\ line' = [line EXCEPT ![j] = TRUE]
    /\ printed' = [printed EXCEPT ![j] = @ + 1]
    /\ UNCHANGED <<locks, list, flags, main, lsn, oper, dying, failed, status, admin>>

\* mysqlAnalyzeOscOutput, mysqlAnalyzeGhostOutput: Percent is set under RW.
Analyze(j) ==
    /\ line[j]
    /\ rw[j] = None
    /\ line' = [line EXCEPT ![j] = FALSE]
    /\ \E p \in BOOLEAN : complete' = [complete EXCEPT ![j] = @ \/ p]
    /\ UNCHANGED <<locks, list, killed, paused, main, lsn, oper, printed, dying, failed, status, admin>>

\* The tool ends by itself, with or without an error, or because it was told
\* to; a throttled one does not succeed.  execCommand first waits for the goroutines reading its output.
ToolEnds(j) ==
    /\ main[j] = "run"
    /\ Tool[j] # "lib" => ~line[j]
    /\ main' = [main EXCEPT ![j] = "ended"]
    /\ \E e \in BOOLEAN : failed' = [failed EXCEPT ![j] = @ \/ e \/ dying[j] \/ paused[j]]
    /\ UNCHANGED <<locks, list, flags, lsn, oper, line, printed, dying, status, admin>>

\* PanicAbort is closed: by execCommand without a lock, for the library (and
\* stop with it) under the server's lock.  Then the outcome is recorded.
ClosePanicAbort(j) ==
    /\ main[j] = "ended"
    /\ Tool[j] = "lib" => NoLock
    /\ main' = [main EXCEPT ![j] = "closed"]
    /\ status' = [status EXCEPT ![j] =
          IF failed[j] \/ (Tool[j] # "lib" /\ ~complete[j]) THEN "ExecFail" ELSE "ExecOK"]
    /\ failed' = [failed EXCEPT ![j] = @ \/ (Tool[j] # "lib" /\ ~complete[j])]
    /\ UNCHANGED <<locks, list, flags, lsn, oper, line, printed, dying, admin>>

\* Mutant: KillOscProcess removes the entries of its own sqlsha1 values.
CleanupByKey(j) ==
    /\ main[j] = "closed"
    /\ NoLock
    /\ list' = [list EXCEPT ![KeyOf[j]] = None]
    /\ main' = [main EXCEPT ![j] = "gone"]
    /\ UNCHANGED <<locks, flags, lsn, oper, tool, admin>>

\* Mutant: KillOscProcess keeps the entry of a change that failed.
CleanupIfOK(j) ==
    /\ main[j] = "closed"
    /\ NoLock
    /\ list' = [k \in Key |-> IF list[k] = j /\ status[j] = "ExecOK" THEN None ELSE list[k]]
    /\ main' = [main EXCEPT ![j] = "gone"]
    /\ UNCHANGED <<locks, flags, lsn, oper, tool, admin>>

\* cleanup after the whole order: KillOscProcess removes the entries of this
\* connection.
Cleanup(j) ==
    /\ main[j] = "closed"
    /\ NoLock
    /\ list' = [k \in Key |-> IF list[k] = j THEN None ELSE list[k]]
    /\ main' = [main EXCEPT ![j] = "gone"]
    /\ UNCHANGED <<locks, flags, lsn, oper, tool, admin>>

-----------------------------------------------------------------------------
(***************************************************************************)
(* The goroutine that listens on PanicAbort.                               *)
(***************************************************************************)

\* The channel was closed: the loop over it, or the single receive, ends.
ListenerEnds(j) ==
    /\ lsn[j] = "recv"
    /\ Closed(j)
    /\ lsn' = [lsn EXCEPT ![j] = "end"]
    /\ UNCHANGED <<locks, list, flags, main, oper, tool, admin>>

\* execCommand: Killed is set under RW, the process is killed afterwards.
MarkKilled(j) ==
    /\ lsn[j] = "lock"
    /\ Tool[j] # "lib"
    /\ rw[j] = None
    /\ killed' = [killed EXCEPT ![j] = TRUE]
    /\ lsn' = [lsn EXCEPT ![j] = "kill"]
    /\ UNCHANGED <<locks, list, paused, complete, main, oper, tool, admin>>

\* The error goes to the record whether or not the process was still there.
KillProcess(j) ==
    /\ lsn[j] = "kill"
    /\ dying' = [dying EXCEPT ![j] = @ \/ main[j] = "run"]
    /\ failed' = [failed EXCEPT ![j] = TRUE]
    /\ lsn' = [lsn EXCEPT ![j] = "end"]
    /\ UNCHANGED <<locks, list, flags, main, oper, line, printed, status, admin>>

\* Library: RW is taken; throttling is switched at once, a kill keeps RW.
TakeOperation(j) ==
    /\ lsn[j] = "lock"
    /\ Tool[j] = "lib"
    /\ rw[j] = None
    /\ \/ /\ oper[j] = "kill"
          /\ rw' = [rw EXCEPT ![j] = "listener"]
          /\ lsn' = [lsn EXCEPT ![j] = "abort"]
          /\ UNCHANGED paused
       \/ /\ oper[j] # "kill"
          /\ paused' = [paused EXCEPT ![j] = oper[j] = "pause"]
          /\ lsn' = [lsn EXCEPT ![j] = "recv"]
          /\ UNCHANGED rw
    /\ UNCHANGED <<rwlock, readers, list, killed, complete, main, oper, tool, admin>>

\* The migrator takes the error offered on its own PanicAbort.
AbortMigration(j) ==
    /\ lsn[j] = "abort"
    /\ dying' = [dying EXCEPT ![j] = @ \/ main[j] = "run"]
    /\ killed' = [killed EXCEPT ![j] = TRUE]
    /\ lsn' = [lsn EXCEPT ![j] = "stop"]
    /\ UNCHANGED <<locks, list, paused, complete, main, oper, line, printed, failed, status, admin>>

\* RW is given back only after the session has closed stop.
StopSeen(j) ==
    /\ lsn[j] = "stop"
    /\ Closed(j)
    /\ rw' = [rw EXCEPT ![j] = None]
    /\ lsn' = [lsn EXCEPT ![j] = "recv"]
    /\ UNCHANGED <<rwlock, readers, list, flags, main, oper, tool, admin>>

-----------------------------------------------------------------------------
(***************************************************************************)
(* The commands of other sessions.                                         *)
(***************************************************************************)

\* A command arrives; from here on its session waits for an answer.
Issue(a) ==
    /\ apc[a] = "idle"
    /\ cmds < MaxCmds
    /\ cmds' = cmds + 1
    /\ apc' = [apc EXCEPT ![a] = "want"]
    /\ \E c \in Operation \cup {"show"}, k \in Key :
          /\ c = "show" => k = CHOOSE x \in Key : TRUE
          /\ cmd' = [cmd EXCEPT ![a] = c]
          /\ tgt' = [tgt EXCEPT ![a] = k]
    /\ UNCHANGED <<locks, list, flags, main, lsn, oper, tool, todo>>

\* OscLock and the look-up.  "osc process not found" gives the lock back.
LookUp(a) ==
    /\ apc[a] = "want"
    /\ cmd[a] # "show"
    /\ NoLock
    /\ \/ /\ list[tgt[a]] = None
          /\ apc' = [apc EXCEPT ![a] = "idle"]
          /\ tgt' = [tgt EXCEPT ![a] = None]
          /\ UNCHANGED rwlock
       \/ /\ list[tgt[a]] # None
          /\ apc' = [apc EXCEPT ![a] = "found"]
          /\ tgt' = [tgt EXCEPT ![a] = list[tgt[a]]]
          /\ rwlock' = a
    /\ UNCHANGED <<readers, list, rw, flags, main, lsn, oper, tool, cmd, todo, cmds>>

\* What the flags of the job say to the command, RW being held.
Refused(c, j) ==
    \/ c = "kill" /\ (killed[j] \/ complete[j])
    \/ c = "pause" /\ (Tool[j] = "pt" \/ paused[j])
    \/ c = "resume" /\ (Tool[j] = "pt" \/ ~paused[j])

\* The command ends: its deferred calls give both locks back.
Answer(a) ==
    /\ apc' = [apc EXCEPT ![a] = "idle"]
    /\ tgt' = [tgt EXCEPT ![a] = None]
    /\ rwlock' = None

\* Refused, or done through the files of the gh-ost binary: kill leaves a
\* panic file that may or may not be seen in time, pause and resume talk to
\* the socket (and are refused when it is gone).
DecideAtOnce(a) ==
    LET j == tgt[a]
        c == cmd[a]
    IN  /\ apc[a] = "found"
        /\ rw[j] = None
        /\ Refused(c, j) \/ Tool[j] = "bin"
        /\ IF Refused(c, j)
           THEN UNCHANGED <<paused, dying>>
           ELSE \E seen \in BOOLEAN :
                  /\ dying' = [dying EXCEPT ![j] =
                        @ \/ (seen /\ c = "kill" /\ main[j] = "run")]
                  /\ paused' = [paused EXCEPT ![j] =
                        IF seen /\ c # "kill" THEN c = "pause" ELSE @]
        /\ Answer(a)
        /\ UNCHANGED <<readers, list, rw, killed, complete, main, lsn, oper, line,
                       printed, failed, status, cmd, todo, cmds>>

\* Mutant: OscUnLock is called before the send, not deferred.
StartSendUnlocked(a) ==
    LET j == tgt[a]
    IN  /\ apc[a] = "found"
        /\ rw[j] = None
        /\ ~Refused(cmd[a], j)
        /\ Tool[j] # "bin"
        /\ rw' = [rw EXCEPT ![j] = a]
        /\ rwlock' = None
        /\ apc' = [apc EXCEPT ![a] = "send"]
        /\ UNCHANGED <<readers, list, flags, main, lsn, oper, tool, cmd, tgt, todo, cmds>>

\* The operation has to go through PanicAbort, with both locks held.
StartSend(a) ==
    LET j == tgt[a]
    IN  /\ apc[a] = "found"
        /\ rw[j] = None
        /\ ~Refused(cmd[a], j)
        /\ Tool[j] # "bin"
        /\ rw' = [rw EXCEPT ![j] = a]
        /\ apc' = [apc EXCEPT ![a] = "send"]
        /\ UNCHANGED <<rwlock, readers, list, flags, main, lsn, oper, tool, cmd, tgt, todo, cmds>>

\* The unbuffered send meets the listener's receive.
Deliver(a) ==
    LET j == tgt[a]
    IN  /\ apc[a] = "send"
        /\ ~Closed(j)
        /\ lsn[j] = "recv"
        /\ lsn' = [lsn EXCEPT ![j] = "lock"]
        /\ oper' = [oper EXCEPT ![j] = cmd[a]]
        /\ rw' = [rw EXCEPT ![j] = None]
        /\ Answer(a)
        /\ UNCHANGED <<readers, list, flags, main, tool, cmd, todo, cmds>>

\* Mutant: the unlocks are not deferred, a panic leaves the locks behind.
SendPanicsKeepsLocks(a) ==
    /\ apc[a] = "send"
    /\ Closed(tgt[a])
    /\ apc' = [apc EXCEPT ![a] = "gone"]
    /\ UNCHANGED <<locks, list, flags, main, lsn, oper, tool, cmd, tgt, todo, cmds>>

\* A send on the closed channel panics; the deferred unlocks run and the
\* connection is closed by the recovery in clientConn.Run.
SendPanics(a) ==
    LET j == tgt[a]
    IN  /\ apc[a] = "send"
        /\ Closed(j)
        /\ rw' = [rw EXCEPT ![j] = None]
        /\ rwlock' = None
        /\ apc' = [apc EXCEPT ![a] = "gone"]
        /\ tgt' = [tgt EXCEPT ![a] = None]
        /\ UNCHANGED <<readers, list, flags, main, lsn, oper, tool, cmd, todo, cmds>>

\* ShowOscProcessList: all entries are read under the read lock, each under
\* its RW.
StartShow(a) ==
    /\ apc[a] = "want"
    /\ cmd[a] = "show"
    /\ rwlock = None
    /\ readers' = readers \cup {a}
    /\ todo' = [todo EXCEPT ![a] = {list[k] : k \in Key} \ {None}]
    /\ apc' = [apc EXCEPT ![a] = "show"]
    /\ UNCHANGED <<rwlock, list, rw, flags, main, lsn, oper, tool, cmd, tgt, cmds>>

ShowEntry(a) ==
    /\ apc[a] = "show"
    /\ \E j \in todo[a] :
          /\ rw[j] = None
          /\ todo' = [todo EXCEPT ![a] = @ \ {j}]
    /\ UNCHANGED <<locks, list, flags, main, lsn, oper, tool, apc, cmd, tgt, cmds>>

EndShow(a) ==
    /\ apc[a] = "show"
    /\ todo[a] = {}
    /\ readers' = readers \ {a}
    /\ apc' = [apc EXCEPT ![a] = "idle"]
    /\ tgt' = [tgt EXCEPT ![a] = None]
    /\ UNCHANGED <<rwlock, list, rw, flags, main, lsn, oper, tool, cmd, todo, cmds>>

-----------------------------------------------------------------------------
Session(j) ==
    AddOscProcess(j) \/ Output(j) \/ Analyze(j) \/ ToolEnds(j) \/ ClosePanicAbort(j) \/ Cleanup(j)

Listener(j) ==
    \/ ListenerEnds(j) \/ MarkKilled(j) \/ KillProcess(j)
    \/ TakeOperation(j) \/ AbortMigration(j) \/ StopSeen(j)

Answering(a) ==
    \/ LookUp(a) \/ DecideAtOnce(a) \/ StartSend(a) \/ Deliver(a) \/ SendPanics(a)
    \/ StartShow(a) \/ ShowEntry(a) \/ EndShow(a)

Next ==
    \/ \E j \in Job : Session(j) \/ Listener(j)
    \/ \E a \in Admin : Issue(a) \/ Answering(a)

Spec == Init /\ [][Next]_vars

\* Every goroutine is scheduled, a command runs until it is answered, and a
\* tool that is not throttled ends.
MainStep(j) ==
    \/ AddOscProcess(j) \/ ClosePanicAbort(j) \/ Cleanup(j)
    \/ ToolEnds(j) /\ (paused[j] => dying[j])

Fairness ==
    /\ \A j \in Job :
          WF_vars(MainStep(j)) /\ WF_vars(Analyze(j)) /\ WF_vars(Listener(j))
    /\ \A a \in Admin : WF_vars(Answering(a))

FairSpec == Spec /\ Fairness

-----------------------------------------------------------------------------
(***************************************************************************)
(* Properties.                                                             *)
(***************************************************************************)

\* Every variable has its type.
TypeOK ==
    /\ rwlock \in Admin \cup {None}
    /\ readers \subseteq Admin
    /\ list \in [Key -> Job \cup {None}]
    /\ rw \in [Job -> Admin \cup {None, "listener"}]
    /\ killed \in [Job -> BOOLEAN]
    /\ paused \in [Job -> BOOLEAN]
    /\ complete \in [Job -> BOOLEAN]
    /\ main \in [Job -> {"new", "run", "ended", "closed", "gone"}]
    /\ lsn \in [Job -> {"recv", "lock", "kill", "abort", "stop", "end"}]
    /\ oper \in [Job -> Operation]
    /\ line \in [Job -> BOOLEAN]
    /\ printed \in [Job -> 0..MaxLines]
    /\ dying \in [Job -> BOOLEAN]
    /\ failed \in [Job -> BOOLEAN]
    /\ status \in [Job -> {"none", "ExecOK", "ExecFail"}]
    /\ apc \in [Admin -> {"idle", "want", "found", "send", "show", "gone"}]
    /\ cmd \in [Admin -> Operation \cup {"show"}]
    /\ tgt \in [Admin -> Key \cup Job \cup {None}]
    /\ \A a \in Admin :
          /\ apc[a] = "want" => tgt[a] \in Key
          /\ apc[a] \in {"found", "send"} => tgt[a] \in Job /\ cmd[a] # "show"
    /\ todo \in [Admin -> SUBSET Job]
    /\ cmds \in 0..MaxCmds

\* The locks nest: a session holds RW of a change only while it holds the
\* server's lock for writing, nobody reads the list meanwhile, and a session
\* that answered holds neither, also when its send panicked.
LocksNested ==
    /\ rwlock # None => readers = {}
    /\ \A a \in Admin :
          /\ apc[a] \in {"found", "send"} <=> rwlock = a
          /\ a \in readers <=> apc[a] = "show"
          /\ \A j \in Job : rw[j] = a <=> apc[a] = "send" /\ tgt[a] = j

\* An entry of oscProcessList is a change whose session has not finished its
\* order: no command can reach a change that is gone (changelog: "the osc
\* process information of the same session will be cleared later").
ListedIsAlive ==
    \A k \in Key : list[k] # None =>
        main[list[k]] \in {"run", "ended", "closed"} /\ KeyOf[list[k]] = k

\* The entries belong to their sessions: what is listed is alive, and only the
\* session of a change removes its entry; a session with an equal statement may
\* take the key over but its cleanup leaves the others alone.
OwnEntryOnly ==
    /\ []ListedIsAlive
    /\ [][\A k \in Key :
          list[k] # None /\ list'[k] # list[k] =>
              \/ list'[k] = None /\ main[list[k]] = "closed"
              \/ list'[k] # None /\ main[list'[k]] = "new"]_vars

\* Session a, with the server's lock, waits for somebody who cannot go on: for
\* RW of a change that was killed, which the listener keeps until the session
\* of the change has closed stop, or, inside RW, for the listener to take a
\* command while it waits for RW with the kill, pause or resume before.
Interlocked(a) ==
    \E j \in Job :
        \/ rw[j] = "listener" /\ (j = tgt[a] \/ j \in todo[a])
        \/ rw[j] = a /\ lsn[j] = "lock"

\* Every command is answered (the deferred unlocks and the recovery of a
\* panic included).
CommandReturns ==
    \A a \in Admin : apc[a] = "want" ~> apc[a] \in {"idle", "gone"}

\* Nobody hangs: as long as a command waits for its answer, or a change that
\* is not left throttled has not come to its end, with its goroutine, channel
\* and entry, some goroutine can go on.  The exception is a command that
\* follows a kill, a pause or a resume with which the listener of the change
\* is not through yet, and is interlocked with that listener.
NobodyHangs ==
    \/ \E j \in Job : ENABLED (MainStep(j) \/ Analyze(j) \/ Listener(j))
    \/ \E a \in Admin : Interlocked(a) \/ ENABLED Answering(a)
    \/ /\ \A a \in Admin : apc[a] \in {"idle", "gone"}
       /\ \A j \in Job : main[j] = "new" \/ paused[j] \/ (main[j] = "gone" /\ lsn[j] = "end")
=============================================================================
