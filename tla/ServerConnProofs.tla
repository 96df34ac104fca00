-------------------------- MODULE ServerConnProofs --------------------------
(***************************************************************************)
(* Proofs about ServerConn for any number of connections, tokens and       *)
(* requests.                                                                *)
(***************************************************************************)
EXTENDS ServerConn, FiniteSetTheorems, TLAPS

\* Leaves that name no prover are for Zenon; those the SMT solver proves say so.
USE ZenonT(20)

Working == {c \in Conn : pc[c] = "work"}

\* TypeOK without the bound on tokens, which needs the conservation of tokens.
Types ==
    /\ pc \in [Conn -> {"handshake", "loop", "load", "read", "packet", "dispatch", "token", "work",
                        "exit", "gone"}]
    /\ status \in [Conn -> Status]
    /\ req \in [Conn -> Request \cup {NoReq}]
    /\ sent \in [Conn -> 0..MaxReq]
    /\ open \in [Conn -> BOOLEAN]
    /\ outside \in [Conn -> BOOLEAN]
    /\ cancelled \in [Conn -> BOOLEAN]
    /\ killed \in [Conn -> BOOLEAN]
    /\ clients \subseteq Conn
    /\ tokens \in Nat
    /\ kpc \in {"serving", "count", "scan", "close", "down"}
    /\ todo \subseteq Conn
    /\ notify \subseteq Conn
    /\ kicked \subseteq Conn

\* A connection is out of the table of clients or about to be taken out of it.
Removed(c) == c \notin clients \/ c \in kicked

\* Only connections past the handshake are in the table or looked at by
\* kickIdleConnection; one whose status is shutdown, that believes to be closed
\* by the server, or whose goroutine has ended, is Removed.
Removal ==
    /\ \A c \in clients \cup todo : pc[c] # "handshake"
    /\ \A c \in Conn : status[c] = "shutdown" \/ outside[c] \/ pc[c] = "gone"
                           => pc[c] # "handshake" /\ Removed(c)

\* The status of a killed connection does not come back.
KilledStatus == \A c \in Conn : killed[c] => status[c] \in {"shutdown", "waitshutdown"}

IInv == Types /\ TokensConserved /\ Removal /\ KilledStatus

-----------------------------------------------------------------------------
\* Every initial state satisfies the inductive invariant.
LEMMA InitIInv == Init => IInv
<1> SUFFICES ASSUME Init PROVE IInv
    OBVIOUS
<1>1. Types
    BY SMTT(60), ServerAssumption DEF Init, Types, Status
<1>2. Working = {}
    BY DEF Init, Working
<1>3. TokensConserved
    BY SMTT(60), <1>2, FS_EmptySet, ServerAssumption DEF Init, TokensConserved, Working
<1>4. Removal /\ KilledStatus
    BY DEF Init, Removal, KilledStatus
<1> QED
    BY <1>1, <1>3, <1>4 DEF IInv

\* No step leaves the types, that of the tokens apart from their bound.
LEMMA TypesStep == Types /\ [Next]_vars => Types'
<1> SUFFICES ASSUME Types, [Next]_vars PROVE Types'
    OBVIOUS
<1> USE DEF Types
<1>1. ASSUME NEW c \in Conn, OnConn(c) PROVE Types'
    BY <1>1 DEF OnConn, Goto, socket, kick
<1>2. ASSUME NEW c \in Conn, HandshakeFails(c) PROVE Types'
    BY <1>2 DEF HandshakeFails, Goto, kick
<1>3. ASSUME NEW c \in Conn, StartReading(c) PROVE Types'
    BY <1>3 DEF StartReading, Goto, socket, kick, Status
<1>4. ASSUME NEW c \in Conn, LoadStatus(c) PROVE Types'
    BY <1>4 DEF LoadStatus, Goto, socket, kick
<1>5. ASSUME NEW c \in Conn, ReadPacket(c) PROVE Types'
    <2>1. PICK r \in Request : req' = [req EXCEPT ![c] = r]
        BY <1>5 DEF ReadPacket
    <2>2. sent' \in [Conn -> 0..MaxReq]
        BY SMTT(60), <1>5, ServerAssumption DEF ReadPacket
    <2> QED
        BY <1>5, <2>1, <2>2 DEF ReadPacket, Goto, kick
<1>6. ASSUME NEW c \in Conn, ReadFails(c) PROVE Types'
    BY <1>6 DEF ReadFails, Goto, socket, kick
<1>7. ASSUME NEW c \in Conn, StartDispatch(c) PROVE Types'
    BY <1>7 DEF StartDispatch, Goto, socket, kick, Status
<1>8. ASSUME NEW c \in Conn, InstallCancel(c) PROVE Types'
    BY <1>8 DEF InstallCancel, Goto, socket, kick
<1>9. ASSUME NEW c \in Conn, GetToken(c) PROVE Types'
    BY SMTT(60), <1>9 DEF GetToken, Goto, socket, kick
<1>10. ASSUME NEW c \in Conn, EndQuery(c) PROVE Types'
    <2>1. PICK p \in {"loop", "exit"} : Finish(c, p)
        BY <1>10 DEF EndQuery
    <2> QED
        BY SMTT(60), <1>10, <2>1 DEF EndQuery, Finish, Goto, socket, kick
<1>11. ASSUME NEW c \in Conn, Quit(c) PROVE Types'
    BY SMTT(60), <1>11 DEF Quit, Finish, Goto, socket, kick
<1>12. ASSUME NEW c \in Conn, Kill(c) PROVE Types'
    <2>1. status' \in [Conn -> Status]
        BY <1>12 DEF Kill, Status
    <2>2. killed' \in [Conn -> BOOLEAN] /\ cancelled' \in [Conn -> BOOLEAN]
        BY <1>12 DEF Kill
    <2> QED
        BY SMTT(60), <1>12, <2>1, <2>2 DEF Kill, Finish, Goto, socket, kick
<1>13. ASSUME NEW c \in Conn, Leave(c) PROVE Types'
    BY <1>13 DEF Leave, CloseConn, Goto, kick
<1>14. CASE Shutdown \/ CountClients \/ EndScan \/ EndRound
    BY <1>14 DEF Shutdown, CountClients, EndScan, EndRound, conns
<1>15. ASSUME NEW c \in Conn, TryShutdown(c) \/ Notify(c) PROVE Types'
    BY SMTT(60), <1>15 DEF TryShutdown, Notify, conns, Status
<1>16. ASSUME NEW c \in Conn, CloseKicked(c) PROVE Types'
    BY <1>16 DEF CloseKicked, CloseConn, conns
<1>17. CASE UNCHANGED vars
    BY <1>17 DEF vars, socket, kick
<1> QED
    BY <1>1, <1>2, <1>3, <1>4, <1>5, <1>6, <1>7, <1>8, <1>9, <1>10, <1>11, <1>12, <1>13, <1>14,
       <1>15, <1>16, <1>17 DEF Next, Client, Run, GracefulDown

\* A connection that takes a token joins the ones at work, one that finishes
\* leaves them, and everything else keeps tokens and work as they are.
LEMMA TokensStep == Types /\ TokensConserved /\ [Next]_vars => TokensConserved'
<1> SUFFICES ASSUME Types, TokensConserved, [Next]_vars PROVE TokensConserved'
    OBVIOUS
<1>1. IsFiniteSet(Working)
    BY FS_Subset, ServerAssumption DEF Working
<1>2. Cardinality(Working) \in Nat
    BY <1>1, FS_CardinalityType
<1>3. tokens \in Nat /\ TokenLimit \in Nat /\ tokens + Cardinality(Working) = TokenLimit
    BY ServerAssumption DEF Types, TokensConserved, Working
<1>4. ASSUME Working' = Working, tokens' = tokens PROVE TokensConserved'
    BY <1>3, <1>4 DEF TokensConserved, Working
<1>5. ASSUME NEW c \in Conn, NEW p \in {"loop", "exit"}, pc[c] = "work", Finish(c, p)
      PROVE TokensConserved'
    <2>1. Working' = Working \ {c} /\ c \in Working
        BY <1>5 DEF Finish, Goto, Working, Types
    <2>2. Cardinality(Working') = Cardinality(Working) - 1
        BY <2>1, <1>1, FS_RemoveElement
    <2>3. tokens' = tokens + 1
        BY <1>5 DEF Finish
    <2>4. tokens' + Cardinality(Working') = TokenLimit
        BY SMTT(60), <1>2, <1>3, <2>2, <2>3
    <2> QED
        BY <2>4 DEF TokensConserved, Working
<1>6. ASSUME NEW c \in Conn, GetToken(c) PROVE TokensConserved'
    <2>1. Working' = Working \cup {c} /\ c \notin Working
        BY <1>6 DEF GetToken, Goto, Working, Types
    <2>2. Cardinality(Working') = Cardinality(Working) + 1
        BY <2>1, <1>1, FS_AddElement
    <2>3. tokens' = tokens - 1
        BY <1>6 DEF GetToken
    <2>4. tokens' + Cardinality(Working') = TokenLimit
        BY SMTT(60), <1>2, <1>3, <2>2, <2>3
    <2> QED
        BY <2>4 DEF TokensConserved, Working
<1>7. ASSUME NEW c \in Conn, EndQuery(c) \/ Quit(c) \/ Kill(c) PROVE TokensConserved'
    BY <1>5, <1>7 DEF EndQuery, Quit, Kill
<1>8. ASSUME NEW c \in Conn, Client(c) PROVE TokensConserved'
    <2>1. Working' = Working
        BY <1>8 DEF Client, OnConn, HandshakeFails, ReadPacket, ReadFails, Goto, Working, Types
    <2>2. tokens' = tokens
        BY <1>8 DEF Client, OnConn, HandshakeFails, ReadPacket, ReadFails
    <2> QED
        BY <1>4, <2>1, <2>2
<1>9. ASSUME NEW c \in Conn,
             StartReading(c) \/ LoadStatus(c) \/ ReadFails(c) \/ StartDispatch(c)
                 \/ InstallCancel(c) \/ Leave(c)
      PROVE TokensConserved'
    <2>1. Working' = Working
        BY <1>9 DEF StartReading, LoadStatus, ReadFails, StartDispatch, InstallCancel, Leave, Goto,
                    Working, Types
    <2>2. tokens' = tokens
        BY <1>9 DEF StartReading, LoadStatus, ReadFails, StartDispatch, InstallCancel, Leave
    <2> QED
        BY <1>4, <2>1, <2>2
<1>10. CASE Shutdown \/ GracefulDown
    <2>1. pc' = pc /\ tokens' = tokens
        BY <1>10 DEF Shutdown, GracefulDown, CountClients, EndScan, EndRound, TryShutdown, Notify,
                     CloseKicked, conns
    <2> QED
        BY <1>4, <2>1 DEF Working
<1>11. CASE UNCHANGED vars
    BY <1>4, <1>11 DEF vars, Working
<1> QED
    BY <1>6, <1>7, <1>8, <1>9, <1>10, <1>11 DEF Next, Run

\* The table of clients loses a connection before it stops being Removed.
LEMMA RemovalStep == Types /\ Removal /\ [Next]_vars => Removal'
<1> SUFFICES ASSUME Types, Removal, [Next]_vars PROVE Removal'
    OBVIOUS
<1> USE DEF Types, Removal, Removed
<1>1. ASSUME NEW c \in Conn, OnConn(c) PROVE Removal'
    BY <1>1 DEF OnConn, Goto, socket, kick
<1>2. ASSUME NEW c \in Conn, HandshakeFails(c) PROVE Removal'
    BY <1>2 DEF HandshakeFails, Goto, kick
<1>3. ASSUME NEW c \in Conn, StartReading(c) PROVE Removal'
    BY SMTT(60), <1>3 DEF StartReading, Goto, socket, kick
<1>4. ASSUME NEW c \in Conn, LoadStatus(c) PROVE Removal'
    BY <1>4 DEF LoadStatus, Goto, socket, kick
<1>5. ASSUME NEW c \in Conn, ReadPacket(c) PROVE Removal'
    BY <1>5 DEF ReadPacket, Goto, kick
<1>6. ASSUME NEW c \in Conn, ReadFails(c) PROVE Removal'
    BY <1>6 DEF ReadFails, Goto, socket, kick
<1>7. ASSUME NEW c \in Conn, StartDispatch(c) PROVE Removal'
    BY SMTT(60), <1>7 DEF StartDispatch, Goto, socket, kick
<1>8. ASSUME NEW c \in Conn, InstallCancel(c) \/ GetToken(c) PROVE Removal'
    BY <1>8 DEF InstallCancel, GetToken, Goto, socket, kick
<1>9. ASSUME NEW c \in Conn, EndQuery(c) \/ Quit(c) PROVE Removal'
    BY SMTT(60), <1>9 DEF EndQuery, Quit, Finish, Goto, socket, kick
<1>10. ASSUME NEW c \in Conn, Kill(c) PROVE Removal'
    <2>1. \A x \in Conn : status'[x] = "shutdown" => status[x] = "shutdown"
        BY <1>10 DEF Kill
    <2> QED
        BY <1>10, <2>1 DEF Kill, Finish, Goto, socket, kick
<1>11. ASSUME NEW c \in Conn, Leave(c) PROVE Removal'
    <2>1. CASE outside[c]
        BY <1>11, <2>1 DEF Leave, Goto, kick
    <2>2. CASE ~outside[c]
        BY <1>11, <2>2 DEF Leave, CloseConn, Goto, kick
    <2> QED
        BY <2>1, <2>2
<1>12. CASE Shutdown \/ CountClients \/ EndScan \/ EndRound
    BY <1>12 DEF Shutdown, CountClients, EndScan, EndRound, conns
<1>13. ASSUME NEW c \in Conn, TryShutdown(c) PROVE Removal'
    BY SMTT(60), <1>13 DEF TryShutdown, conns
<1>14. ASSUME NEW c \in Conn, Notify(c) PROVE Removal'
    BY <1>14 DEF Notify, conns
<1>15. ASSUME NEW c \in Conn, CloseKicked(c) PROVE Removal'
    BY <1>15 DEF CloseKicked, CloseConn, conns
<1>16. CASE UNCHANGED vars
    BY <1>16 DEF vars, socket, kick
<1> QED
    BY <1>1, <1>2, <1>3, <1>4, <1>5, <1>6, <1>7, <1>8, <1>9, <1>10, <1>11, <1>12, <1>13, <1>14,
       <1>15, <1>16 DEF Next, Client, Run, GracefulDown

\* Neither swap of the goroutine succeeds on a killed connection, and nobody
\* stores anything but shutdown and waitshutdown.
LEMMA KilledStep == Types /\ KilledStatus /\ [Next]_vars => KilledStatus'
<1> SUFFICES ASSUME Types, KilledStatus, [Next]_vars PROVE KilledStatus'
    OBVIOUS
<1> USE DEF Types, KilledStatus
<1>1. ASSUME NEW c \in Conn, StartReading(c) \/ StartDispatch(c) PROVE KilledStatus'
    BY <1>1 DEF StartReading, StartDispatch
<1>2. ASSUME NEW c \in Conn, Kill(c) PROVE KilledStatus'
    BY <1>2 DEF Kill
<1>3. ASSUME NEW c \in Conn, TryShutdown(c) \/ Notify(c) PROVE KilledStatus'
    BY <1>3 DEF TryShutdown, Notify, conns
<1>4. ASSUME NEW c \in Conn,
             Client(c) \/ LoadStatus(c) \/ ReadFails(c) \/ InstallCancel(c) \/ GetToken(c)
                 \/ EndQuery(c) \/ Quit(c) \/ Leave(c) \/ CloseKicked(c)
      PROVE KilledStatus'
    BY <1>4 DEF Client, OnConn, HandshakeFails, ReadPacket, LoadStatus, ReadFails, InstallCancel,
                GetToken, EndQuery, Quit, Leave, CloseKicked, conns
<1>5. CASE Shutdown \/ CountClients \/ EndScan \/ EndRound
    BY <1>5 DEF Shutdown, CountClients, EndScan, EndRound, conns
<1>6. CASE UNCHANGED vars
    BY <1>6 DEF vars
<1> QED
    BY <1>1, <1>2, <1>3, <1>4, <1>5, <1>6 DEF Next, Run, GracefulDown

-----------------------------------------------------------------------------
\* The inductive invariant holds in every reachable state.
LEMMA Invariance == Spec => []IInv
<1>1. IInv /\ [Next]_vars => IInv'
    BY TypesStep, TokensStep, RemovalStep, KilledStep DEF IInv
<1> QED
    BY InitIInv, <1>1, PTL DEF Spec

\* dispatch gives back exactly the token it took, on every way out of it, so
\* that the token limiter is never exhausted by requests that have ended.
THEOREM TokenTheorem == Spec => []TokensConserved
<1>1. IInv => TokensConserved
    BY DEF IInv
<1> QED
    BY Invariance, <1>1, PTL

\* Type correctness of the connections; the limiter never holds more tokens
\* than its channel has room for (a release would block).
THEOREM TypeTheorem == Spec => []TypeOK
<1>1. IInv => TypeOK
    <2> SUFFICES ASSUME IInv PROVE TypeOK
        OBVIOUS
    <2>1. Cardinality(Working) \in Nat
        BY FS_Subset, FS_CardinalityType, ServerAssumption DEF Working
    <2>2. tokens \in Nat /\ tokens + Cardinality(Working) = TokenLimit /\ TokenLimit \in Nat
        BY ServerAssumption DEF IInv, Types, TokensConserved, Working
    <2>3. tokens \in 0..TokenLimit
        BY SMTT(60), <2>1, <2>2
    <2> QED
        BY <2>3 DEF IInv, Types, TypeOK
<1> QED
    BY Invariance, <1>1, PTL

\* Whichever way status, closedOutside and the list of kicked connections
\* interleave, a goroutine that has ended is not left in the table of clients,
\* where GracefulDown would wait for it for ever.
THEOREM LeakTheorem == Spec => []NoLeak
<1>1. IInv => NoLeak
    BY DEF IInv, Types, Removal, Removed, NoLeak
<1> QED
    BY Invariance, <1>1, PTL

\* After KILL a connection begins to serve no further request.
THEOREM KillTheorem == Spec => KilledServesNoMore
<1>1. IInv /\ [Next]_vars =>
          [\A c \in Conn : killed[c] => ~(pc[c] # "dispatch" /\ pc'[c] = "dispatch")]_vars
    <2> SUFFICES ASSUME IInv, Next, NEW c \in Conn, killed[c], pc[c] # "dispatch",
                        pc'[c] = "dispatch"
                 PROVE FALSE
        BY DEF vars
    <2>1. status[c] # "reading"
        BY DEF IInv, KilledStatus
    <2>2. PICK d \in Conn : Client(d) \/ Run(d)
        BY DEF Next, Shutdown, GracefulDown, CountClients, EndScan, EndRound, TryShutdown, Notify,
               CloseKicked, conns
    <2>3. ASSUME NEW p \in {"loop", "load", "read", "packet", "token", "work", "exit", "gone"},
                 Goto(d, p)
          PROVE FALSE
        BY <2>3 DEF Goto, IInv, Types
    <2>4. CASE StartDispatch(d)
        BY SMTT(60), <2>1, <2>3, <2>4 DEF StartDispatch, Goto, IInv, Types
    <2>5. CASE Client(d) \/ ReadFails(d) \/ StartReading(d) \/ LoadStatus(d)
        BY <2>3, <2>5 DEF Client, OnConn, HandshakeFails, ReadPacket, ReadFails, StartReading,
                          LoadStatus
    <2>6. CASE InstallCancel(d) \/ GetToken(d) \/ EndQuery(d) \/ Quit(d) \/ Kill(d) \/ Leave(d)
        BY <2>3, <2>6 DEF InstallCancel, GetToken, EndQuery, Quit, Kill, Finish, Leave
    <2> QED
        BY <2>2, <2>4, <2>5, <2>6 DEF Run
<1> QED
    BY Invariance, <1>1, PTL DEF Spec, KilledServesNoMore
=============================================================================
