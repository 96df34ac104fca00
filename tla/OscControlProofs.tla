-------------------------- MODULE OscControlProofs --------------------------
(***************************************************************************)
(* Proofs about OscControl, for any number of changes, sessions, sqlsha1   *)
(* values, commands and lines of output.                                   *)
(***************************************************************************)
EXTENDS OscControl, TLAPS

\* Leaves that name no prover are for Zenon; those the SMT solver proves say so.
USE ZenonT(20)

\* The type invariant of the changes and the commanding sessions.
LEMMA TypeInductive == TypeOK /\ [Next]_vars => TypeOK'
<1> SUFFICES ASSUME TypeOK, [Next]_vars PROVE TypeOK'
  OBVIOUS
<1> USE OscAssumption DEF TypeOK, locks, flags, tool, admin
<1>1. ASSUME NEW j \in Job, AddOscProcess(j) PROVE TypeOK'
  BY <1>1 DEF AddOscProcess
<1>2. ASSUME NEW j \in Job, Output(j) PROVE TypeOK'
  BY SMTT(60), <1>2 DEF Output
<1>3. ASSUME NEW j \in Job, Analyze(j) PROVE TypeOK'
  BY SMTT(60), <1>3 DEF Analyze
<1>4. ASSUME NEW j \in Job, ToolEnds(j) PROVE TypeOK'
  BY SMTT(60), <1>4 DEF ToolEnds
<1>5. ASSUME NEW j \in Job, ClosePanicAbort(j) PROVE TypeOK'
  BY <1>5 DEF ClosePanicAbort
<1>6. ASSUME NEW j \in Job, Cleanup(j) PROVE TypeOK'
  BY <1>6 DEF Cleanup
<1>7. ASSUME NEW j \in Job, ListenerEnds(j) PROVE TypeOK'
  BY <1>7 DEF ListenerEnds
<1>8. ASSUME NEW j \in Job, MarkKilled(j) PROVE TypeOK'
  BY <1>8 DEF MarkKilled
<1>9. ASSUME NEW j \in Job, KillProcess(j) PROVE TypeOK'
  BY <1>9 DEF KillProcess
<1>10. ASSUME NEW j \in Job, TakeOperation(j) PROVE TypeOK'
  <2>1. ASSUME NEW b \in BOOLEAN, paused' = [paused EXCEPT ![j] = b]
        PROVE  paused' \in [Job -> BOOLEAN]
    BY <2>1
  <2>2. paused' \in [Job -> BOOLEAN]
    <3>1. CASE paused' = paused
      BY <3>1
    <3>2. CASE paused' = [paused EXCEPT ![j] = oper[j] = "pause"]
      <4>1. (oper[j] = "pause") \in BOOLEAN
        OBVIOUS
      <4> QED BY <2>1, <3>2, <4>1, Zenon
    <3> QED BY <1>10, <3>1, <3>2, Zenon DEF TakeOperation
  <2>3. /\ rw' \in [Job -> Admin \cup {None, "listener"}]
        /\ lsn' \in [Job -> {"recv", "lock", "kill", "abort", "stop", "end"}]
    BY SMTT(60), <1>10 DEF TakeOperation
  <2> QED BY <1>10, <2>2, <2>3 DEF TakeOperation
<1>11. ASSUME NEW j \in Job, AbortMigration(j) PROVE TypeOK'
  BY <1>11 DEF AbortMigration
<1>12. ASSUME NEW j \in Job, StopSeen(j) PROVE TypeOK'
  BY <1>12 DEF StopSeen
<1>13. ASSUME NEW a \in Admin, Issue(a) PROVE TypeOK'
  BY SMTT(60), <1>13 DEF Issue, Operation
<1>14. ASSUME NEW a \in Admin, LookUp(a) PROVE TypeOK'
  <2>1. tgt[a] \in Key /\ list[tgt[a]] \in Job \cup {None} /\ cmd[a] # "show"
    BY <1>14 DEF LookUp
  <2>2. CASE list[tgt[a]] = None
    <3>1. /\ apc' = [apc EXCEPT ![a] = "idle"] /\ tgt' = [tgt EXCEPT ![a] = None]
          /\ rwlock' = rwlock /\ cmd' = cmd
      BY <1>14, <2>2 DEF LookUp
    <3> QED BY SMTT(60), <1>14, <3>1 DEF LookUp
  <2>3. CASE list[tgt[a]] # None
    <3>1. /\ apc' = [apc EXCEPT ![a] = "found"] /\ rwlock' = a /\ cmd' = cmd
          /\ tgt' = [tgt EXCEPT ![a] = list[tgt[a]]] /\ list[tgt[a]] \in Job
      BY <1>14, <2>1, <2>3 DEF LookUp
    <3>2. \A b \in Admin :
            /\ apc'[b] = "want" => tgt'[b] \in Key
            /\ apc'[b] \in {"found", "send"} => tgt'[b] \in Job /\ cmd'[b] # "show"
      BY SMTT(60), <2>1, <3>1
    <3> QED BY SMTT(60), <1>14, <3>1, <3>2 DEF LookUp
  <2> QED BY <2>2, <2>3
<1>15. ASSUME NEW a \in Admin, DecideAtOnce(a) PROVE TypeOK'
  <2>1. tgt[a] \in Job
    BY <1>15 DEF DecideAtOnce
  <2>2. paused' \in [Job -> BOOLEAN] /\ dying' \in [Job -> BOOLEAN]
    <3>1. CASE Refused(cmd[a], tgt[a])
      BY SMTT(60), <1>15, <3>1 DEF DecideAtOnce
    <3>2. CASE ~Refused(cmd[a], tgt[a])
      <4>1. PICK seen \in BOOLEAN :
               /\ dying' = [dying EXCEPT ![tgt[a]] =
                     @ \/ (seen /\ cmd[a] = "kill" /\ main[tgt[a]] = "run")]
               /\ paused' = [paused EXCEPT ![tgt[a]] =
                     IF seen /\ cmd[a] # "kill" THEN cmd[a] = "pause" ELSE @]
        BY <1>15, <3>2 DEF DecideAtOnce
      <4>2. dying' \in [Job -> BOOLEAN]
        BY <2>1, <4>1
      <4>3. CASE seen /\ cmd[a] # "kill"
        <5>1. (cmd[a] = "pause") \in BOOLEAN
          OBVIOUS
        <5> QED BY <2>1, <4>1, <4>2, <4>3, <5>1
      <4>4. CASE ~(seen /\ cmd[a] # "kill")
        BY <2>1, <4>1, <4>2, <4>4
      <4> QED BY <4>3, <4>4
    <3> QED BY <3>1, <3>2
  <2>3. apc' = [apc EXCEPT ![a] = "idle"] /\ tgt' = [tgt EXCEPT ![a] = None] /\ rwlock' = None
    BY <1>15 DEF DecideAtOnce, Answer
  <2> QED BY SMTT(60), <1>15, <2>2, <2>3 DEF DecideAtOnce
<1>16. ASSUME NEW a \in Admin, StartSend(a) PROVE TypeOK'
  BY SMTT(60), <1>16 DEF StartSend
<1>17. ASSUME NEW a \in Admin, Deliver(a) PROVE TypeOK'
  BY SMTT(60), <1>17 DEF Deliver, Answer, Operation
<1>18. ASSUME NEW a \in Admin, SendPanics(a) PROVE TypeOK'
  BY SMTT(60), <1>18 DEF SendPanics
<1>19. ASSUME NEW a \in Admin, StartShow(a) PROVE TypeOK'
  BY SMTT(60), <1>19 DEF StartShow
<1>20. ASSUME NEW a \in Admin, ShowEntry(a) PROVE TypeOK'
  BY SMTT(60), <1>20 DEF ShowEntry
<1>21. ASSUME NEW a \in Admin, EndShow(a) PROVE TypeOK'
  BY SMTT(60), <1>21 DEF EndShow
<1>22. CASE UNCHANGED vars
  BY <1>22 DEF vars
<1> QED
  BY <1>1, <1>2, <1>3, <1>4, <1>5, <1>6, <1>7, <1>8, <1>9, <1>10, <1>11, <1>12, <1>13,
     <1>14, <1>15, <1>16, <1>17, <1>18, <1>19, <1>20, <1>21, <1>22
  DEF Next, Session, Listener, Answering

\* Every variable of every reachable state has its type.
THEOREM TypeCorrect == Spec => []TypeOK
<1>1. Init => TypeOK
  BY SMTT(60), OscAssumption DEF Init, TypeOK, Operation
<1> QED BY <1>1, TypeInductive, PTL DEF Spec

-----------------------------------------------------------------------------
\* What a step that is no lock operation leaves alone.
LEMMA LocksFrame ==
    ASSUME LocksNested, UNCHANGED <<rwlock, readers, rw, apc, tgt>>
    PROVE  LocksNested'
BY DEF LocksNested

\* The listener takes and leaves RW only where no session holds it.
LEMMA ListenerHolds ==
    ASSUME TypeOK, LocksNested, NEW j \in Job, NEW h \in {None, "listener"},
           rw[j] \in {None, "listener"},
           rw' = [rw EXCEPT ![j] = h], UNCHANGED <<rwlock, readers, apc, tgt>>
    PROVE  LocksNested'
<1>1. \A a \in Admin : rw'[j] # a /\ rw[j] # a
  BY SMTT(60), OscAssumption DEF TypeOK
<1> QED BY SMTT(60), <1>1 DEF LocksNested, TypeOK

\* Where the listener waits for the abort or for stop it holds RW.
ListenerInv == \A j \in Job : lsn[j] \in {"abort", "stop"} <=> rw[j] = "listener"

LEMMA ListenerInductive ==
    TypeOK /\ LocksNested /\ ListenerInv /\ [Next]_vars => ListenerInv'
<1> SUFFICES ASSUME TypeOK, LocksNested, ListenerInv, [Next]_vars PROVE ListenerInv'
  OBVIOUS
<1> USE OscAssumption DEF TypeOK, ListenerInv, locks, flags, tool, admin
<1>1. CASE UNCHANGED <<rw, lsn>>
  BY <1>1
<1>2. ASSUME NEW j \in Job, Session(j) PROVE ListenerInv'
  BY <1>1, <1>2 DEF Session, AddOscProcess, Output, Analyze, ToolEnds, ClosePanicAbort, Cleanup
<1>3. ASSUME NEW j \in Job, ListenerEnds(j) \/ MarkKilled(j) \/ KillProcess(j) \/ AbortMigration(j)
      PROVE  ListenerInv'
  BY SMTT(60), <1>3 DEF ListenerEnds, MarkKilled, KillProcess, AbortMigration
<1>4. ASSUME NEW j \in Job, TakeOperation(j) PROVE ListenerInv'
  BY SMTT(60), <1>4 DEF TakeOperation
<1>5. ASSUME NEW j \in Job, StopSeen(j) PROVE ListenerInv'
  BY SMTT(60), <1>5 DEF StopSeen
<1>6. ASSUME NEW a \in Admin, StartSend(a) PROVE ListenerInv'
  BY SMTT(60), <1>6 DEF StartSend
<1>7. ASSUME NEW a \in Admin, Deliver(a) PROVE ListenerInv'
  BY SMTT(60), <1>7 DEF Deliver, LocksNested
<1>8. ASSUME NEW a \in Admin, SendPanics(a) PROVE ListenerInv'
  BY SMTT(60), <1>8 DEF SendPanics, LocksNested
<1>9. ASSUME NEW a \in Admin,
             Issue(a) \/ LookUp(a) \/ DecideAtOnce(a) \/ StartShow(a) \/ ShowEntry(a) \/ EndShow(a)
      PROVE  ListenerInv'
  BY <1>1, <1>9 DEF Issue, LookUp, DecideAtOnce, StartShow, ShowEntry, EndShow
<1> QED
  BY <1>1, <1>2, <1>3, <1>4, <1>5, <1>6, <1>7, <1>8, <1>9 DEF Next, Listener, Answering, vars

\* The locks nest after every step.
LEMMA LocksInductive ==
    TypeOK /\ LocksNested /\ ListenerInv /\ [Next]_vars => LocksNested'
<1> SUFFICES ASSUME TypeOK, LocksNested, ListenerInv, [Next]_vars PROVE LocksNested'
  OBVIOUS
<1> USE OscAssumption DEF locks, flags, tool, admin
<1>1. ASSUME NEW j \in Job, Session(j) PROVE LocksNested'
  BY <1>1, LocksFrame
  DEF Session, AddOscProcess, Output, Analyze, ToolEnds, ClosePanicAbort, Cleanup
<1>2. ASSUME NEW j \in Job, ListenerEnds(j) \/ MarkKilled(j) \/ KillProcess(j) \/ AbortMigration(j)
      PROVE  LocksNested'
  BY <1>2, LocksFrame DEF ListenerEnds, MarkKilled, KillProcess, AbortMigration
<1>3. ASSUME NEW j \in Job, TakeOperation(j) PROVE LocksNested'
  <2>1. CASE oper[j] = "kill"
    BY <1>3, <2>1, ListenerHolds DEF TakeOperation
  <2>2. CASE oper[j] # "kill"
    BY <1>3, <2>2, LocksFrame DEF TakeOperation
  <2> QED BY <2>1, <2>2
<1>4. ASSUME NEW j \in Job, StopSeen(j) PROVE LocksNested'
  BY <1>4, ListenerHolds DEF StopSeen, ListenerInv
<1>5. ASSUME NEW a \in Admin, Issue(a) PROVE LocksNested'
  <2>1. PICK k : tgt' = [tgt EXCEPT ![a] = k]
    BY <1>5 DEF Issue
  <2>2. /\ apc[a] = "idle" /\ apc' = [apc EXCEPT ![a] = "want"]
        /\ UNCHANGED <<rwlock, readers, rw>>
    BY <1>5 DEF Issue
  <2> QED BY SMTT(60), <2>1, <2>2 DEF LocksNested, TypeOK
<1>6. ASSUME NEW a \in Admin, LookUp(a) PROVE LocksNested'
  BY SMTT(60), <1>6 DEF LookUp, NoLock, LocksNested, TypeOK
<1>7. ASSUME NEW a \in Admin, DecideAtOnce(a) PROVE LocksNested'
  BY SMTT(60), <1>7 DEF DecideAtOnce, Answer, LocksNested, TypeOK
<1>8. ASSUME NEW a \in Admin, StartSend(a) PROVE LocksNested'
  BY SMTT(60), <1>8 DEF StartSend, LocksNested, TypeOK
<1>9. ASSUME NEW a \in Admin, Deliver(a) PROVE LocksNested'
  <2>1. /\ apc[a] = "send" /\ rw' = [rw EXCEPT ![tgt[a]] = None] /\ Answer(a)
        /\ UNCHANGED readers
    BY <1>9 DEF Deliver
  <2>2. tgt[a] \in Job
    BY <2>1 DEF TypeOK
  <2> QED BY SMTT(60), <2>1, <2>2 DEF Answer, LocksNested, TypeOK
<1>10. ASSUME NEW a \in Admin, SendPanics(a) PROVE LocksNested'
  BY SMTT(60), <1>10 DEF SendPanics, LocksNested, TypeOK
<1>11. ASSUME NEW a \in Admin, StartShow(a) PROVE LocksNested'
  BY SMTT(60), <1>11 DEF StartShow, LocksNested, TypeOK
<1>12. ASSUME NEW a \in Admin, ShowEntry(a) PROVE LocksNested'
  BY <1>12, LocksFrame DEF ShowEntry
<1>13. ASSUME NEW a \in Admin, EndShow(a) PROVE LocksNested'
  BY SMTT(60), <1>13 DEF EndShow, LocksNested, TypeOK
<1>14. CASE UNCHANGED vars
  BY <1>14, LocksFrame DEF vars
<1> QED
  BY <1>1, <1>2, <1>3, <1>4, <1>5, <1>6, <1>7, <1>8, <1>9, <1>10, <1>11, <1>12, <1>13, <1>14
  DEF Next, Listener, Answering

\* The server's lock and the lock of a change are always taken and given back
\* in the same nesting, by any number of sessions and also after a panic.
THEOREM LockDiscipline == Spec => []LocksNested
<1>1. Init => LocksNested /\ ListenerInv
  BY SMTT(60), OscAssumption DEF Init, LocksNested, ListenerInv
<1> QED BY <1>1, LocksInductive, ListenerInductive, TypeCorrect, PTL DEF Spec

-----------------------------------------------------------------------------
\* Only two steps change the list, both in the session of a change.
LEMMA ListSteps ==
    ASSUME [Next]_vars
    PROVE  \/ \E j \in Job : AddOscProcess(j) \/ Cleanup(j)
           \/ /\ list' = list
              /\ \A j \in Job : main'[j] = main[j]
                    \/ (\E i \in Job : ToolEnds(i) \/ ClosePanicAbort(i))
<1>1. ASSUME NEW j \in Job, Output(j) \/ Analyze(j) PROVE list' = list /\ main' = main
  BY <1>1 DEF Output, Analyze, locks, flags, tool, admin
<1>2. ASSUME NEW j \in Job, ToolEnds(j) \/ ClosePanicAbort(j) PROVE list' = list
  BY <1>2 DEF ToolEnds, ClosePanicAbort, locks, flags, tool, admin
<1>3. ASSUME NEW j \in Job, Listener(j) PROVE list' = list /\ main' = main
  BY <1>3 DEF Listener, ListenerEnds, MarkKilled, KillProcess, TakeOperation, AbortMigration,
              StopSeen, locks, flags, tool, admin
<1>4. ASSUME NEW a \in Admin, Issue(a) \/ LookUp(a) \/ DecideAtOnce(a) \/ StartSend(a)
      PROVE  list' = list /\ main' = main
  BY <1>4 DEF Issue, LookUp, DecideAtOnce, StartSend, locks, flags, tool, admin
<1>5. ASSUME NEW a \in Admin,
             Deliver(a) \/ SendPanics(a) \/ StartShow(a) \/ ShowEntry(a) \/ EndShow(a)
      PROVE  list' = list /\ main' = main
  BY <1>5 DEF Deliver, SendPanics, StartShow, ShowEntry, EndShow, locks, flags, tool, admin
<1>6. CASE UNCHANGED vars
  BY <1>6 DEF vars
<1> QED
  BY <1>1, <1>2, <1>3, <1>4, <1>5, <1>6, ZenonT(40) DEF Next, Session, Answering

LEMMA ListedInductive == TypeOK /\ ListedIsAlive /\ [Next]_vars => ListedIsAlive'
<1> SUFFICES ASSUME TypeOK, ListedIsAlive, [Next]_vars PROVE ListedIsAlive'
  OBVIOUS
<1>1. ASSUME NEW j \in Job, AddOscProcess(j) PROVE ListedIsAlive'
  BY SMTT(60), <1>1, OscAssumption DEF AddOscProcess, ListedIsAlive, TypeOK
<1>2. ASSUME NEW j \in Job, Cleanup(j) PROVE ListedIsAlive'
  BY SMTT(60), <1>2 DEF Cleanup, ListedIsAlive, TypeOK
<1>3. ASSUME list' = list, NEW j \in Job, ToolEnds(j) \/ ClosePanicAbort(j)
      PROVE  ListedIsAlive'
  BY SMTT(60), <1>3 DEF ToolEnds, ClosePanicAbort, ListedIsAlive, TypeOK
<1>4. ASSUME list' = list, \A j \in Job : main'[j] = main[j] PROVE ListedIsAlive'
  BY SMTT(60), <1>4 DEF ListedIsAlive, TypeOK
<1> QED BY <1>1, <1>2, <1>3, <1>4, ListSteps

\* Every entry of oscProcessList is a change whose session is still at work,
\* whatever changes share their sqlsha1.
THEOREM ListSound == Spec => []ListedIsAlive
<1>1. Init => ListedIsAlive
  BY SMTT(60) DEF Init, ListedIsAlive
<1> QED BY <1>1, ListedInductive, TypeCorrect, PTL DEF Spec

\* An entry is removed by the session of its change, or replaced by a change
\* that begins, and by nobody else.
THEOREM EntryOwnership == Spec => OwnEntryOnly
<1> DEFINE Own ==
      \A k \in Key :
          list[k] # None /\ list'[k] # list[k] =>
              \/ list'[k] = None /\ main[list[k]] = "closed"
              \/ list'[k] # None /\ main[list'[k]] = "new"
<1>1. TypeOK /\ [Next]_vars => [Own]_vars
  <2> SUFFICES ASSUME TypeOK, [Next]_vars PROVE Own
    OBVIOUS
  <2>1. ASSUME NEW j \in Job, AddOscProcess(j) PROVE Own
    BY <2>1, OscAssumption DEF AddOscProcess, TypeOK
  <2>2. ASSUME NEW j \in Job, Cleanup(j) PROVE Own
    BY <2>2, OscAssumption DEF Cleanup, TypeOK
  <2>3. CASE list' = list
    BY <2>3
  <2> QED BY <2>1, <2>2, <2>3, ListSteps
<1> QED BY <1>1, TypeCorrect, ListSound, PTL DEF Spec, OwnEntryOnly
=============================================================================
