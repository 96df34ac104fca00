----------------------------- MODULE ServerConn -----------------------------
(***************************************************************************)
(* The client connections of the server (server/conn.go, server/server.go, *)
(* server/tokenlimiter.go).  Every connection has a goroutine that reads a *)
(* packet, waits for a token and serves the request.  KILL, sent over      *)
(* another connection, cancels a request or ends a connection, and a       *)
(* graceful shutdown (GracefulDown) closes the connections that wait for a *)
(* packet and asks the others to leave.  All of them coordinate through    *)
(* the word "status", changed with compare-and-swap or plain stores, and   *)
(* through the lock of the table of clients.                               *)
(***************************************************************************)
EXTENDS Naturals, FiniteSets

CONSTANTS
    Conn,       \* connections
    TokenLimit, \* cfg.TokenLimit
    MaxReq      \* bound: requests each client sends

ASSUME ServerAssumption ==
    /\ IsFiniteSet(Conn)
    /\ TokenLimit \in Nat \ {0}
    /\ MaxReq \in Nat

\* A ticket or other statement, COM_QUIT, KILL c and KILL QUERY c.
Request == [op : {"query", "quit"}] \cup [op : {"kill"}, target : Conn, query : BOOLEAN]
NoReq == [op |-> "none"]

Status == {"dispatching", "reading", "shutdown", "waitshutdown"}

VARIABLES
    pc,        \* where the goroutine of a connection is
    status,    \* clientConn.status
    req,       \* the request at hand
    sent,      \* number of requests a client has sent
    open,      \* the socket is open
    outside,   \* closedOutside
    cancelled, \* the context of the request at hand is cancelled
    killed,    \* KILL c has reached the connection
    clients,   \* Server.clients
    tokens,    \* tokens in the channel of the limiter
    kpc,       \* where GracefulDown is
    todo,      \* clients kickIdleConnection has not looked at
    notify,    \* the client whose swap failed, about to be notified
    kicked     \* conns: connections it is going to close

socket == <<sent, open>>
kick == <<kpc, todo, notify, kicked>>
vars == <<pc, status, req, socket, outside, cancelled, killed, clients, tokens, kick>>

\* kickIdleConnection holds the read lock of the table while it goes through
\* it; everybody else takes the lock for one step.
Scanning == kpc = "scan"

Init ==
    /\ pc = [c \in Conn |-> "handshake"]
    /\ status = [c \in Conn |-> "dispatching"]
    /\ req = [c \in Conn |-> NoReq]
    /\ sent = [c \in Conn |-> 0]
    /\ open = [c \in Conn |-> TRUE]
    /\ outside = [c \in Conn |-> FALSE]
    /\ cancelled = [c \in Conn |-> FALSE]
    /\ killed = [c \in Conn |-> FALSE]
    /\ clients = {}
    /\ tokens = TokenLimit
    /\ kpc = "serving"
    /\ todo = {}
    /\ notify = {}
    /\ kicked = {}

Goto(c, p) == pc' = [pc EXCEPT ![c] = p]

-----------------------------------------------------------------------------
(***************************************************************************)
(* onConn and clientConn.Run.                                               *)
(***************************************************************************)

OnConn(c) ==
    /\ pc[c] = "handshake"
    /\ ~Scanning
    /\ clients' = clients \cup {c}
    /\ Goto(c, "loop")
    /\ UNCHANGED <<status, req, socket, outside, cancelled, killed, tokens, kick>>

HandshakeFails(c) ==
    /\ pc[c] = "handshake"
    /\ open' = [open EXCEPT ![c] = FALSE]
    /\ Goto(c, "gone")
    /\ UNCHANGED <<status, req, sent, outside, cancelled, killed, clients, tokens, kick>>

\* CompareAndSwap(dispatching, reading).
StartReading(c) ==
    /\ pc[c] = "loop"
    /\ IF status[c] = "dispatching"
       THEN Goto(c, "read") /\ status' = [status EXCEPT ![c] = "reading"]
       ELSE Goto(c, "load") /\ UNCHANGED status
    /\ UNCHANGED <<req, socket, outside, cancelled, killed, clients, tokens, kick>>

\* Mutant: whoever was told to leave is taken to be closed by the server.
LoadStatusAlways(c) ==
    /\ pc[c] = "load"
    /\ outside' = [outside EXCEPT ![c] = TRUE]
    /\ Goto(c, "exit")
    /\ UNCHANGED <<status, req, socket, cancelled, killed, clients, tokens, kick>>

\* The swap failed: somebody closes the connection, or asks it to leave.
LoadStatus(c) ==
    /\ pc[c] = "load"
    /\ outside' = [outside EXCEPT ![c] = status[c] = "shutdown"]
    /\ Goto(c, "exit")
    /\ UNCHANGED <<status, req, socket, cancelled, killed, clients, tokens, kick>>

\* readPacket returns with a packet of the client, at its end of file, or
\* because kickIdleConnection closed the socket.
ReadPacket(c) ==
    /\ pc[c] = "read"
    /\ open[c]
    /\ sent[c] < MaxReq
    /\ sent' = [sent EXCEPT ![c] = @ + 1]
    /\ \E r \in Request : req' = [req EXCEPT ![c] = r]
    /\ Goto(c, "packet")
    /\ UNCHANGED <<status, open, outside, cancelled, killed, clients, tokens, kick>>

ReadFails(c) ==
    /\ pc[c] = "read"
    /\ Goto(c, "exit")
    /\ UNCHANGED <<status, req, socket, outside, cancelled, killed, clients, tokens, kick>>

\* Mutant: the status is stored, not swapped.
StartDispatchStores(c) ==
    /\ pc[c] = "packet"
    /\ Goto(c, "dispatch")
    /\ status' = [status EXCEPT ![c] = "dispatching"]
    /\ UNCHANGED <<req, socket, outside, cancelled, killed, clients, tokens, kick>>

\* CompareAndSwap(reading, dispatching).
StartDispatch(c) ==
    /\ pc[c] = "packet"
    /\ IF status[c] = "reading"
       THEN Goto(c, "dispatch") /\ status' = [status EXCEPT ![c] = "dispatching"]
       ELSE Goto(c, "load") /\ UNCHANGED status
    /\ UNCHANGED <<req, socket, outside, cancelled, killed, clients, tokens, kick>>

-----------------------------------------------------------------------------
(***************************************************************************)
(* dispatch.                                                                *)
(***************************************************************************)

InstallCancel(c) ==
    /\ pc[c] = "dispatch"
    /\ Goto(c, "token")
    /\ UNCHANGED <<status, req, socket, outside, cancelled, killed, clients, tokens, kick>>

GetToken(c) ==
    /\ pc[c] = "token"
    /\ tokens > 0
    /\ tokens' = tokens - 1
    /\ Goto(c, "work")
    /\ UNCHANGED <<status, req, socket, outside, cancelled, killed, clients, kick>>

\* The deferred releaseToken, then on with the loop or out of it.
Finish(c, p) ==
    /\ tokens' = tokens + 1
    /\ req' = [req EXCEPT ![c] = NoReq]
    /\ Goto(c, p)

\* A statement ends with a result or an error; a critical error or a panic
\* ends the connection as well.
EndQuery(c) ==
    /\ pc[c] = "work"
    /\ req[c].op = "query"
    /\ \E p \in {"loop", "exit"} : Finish(c, p)
    /\ cancelled' = [cancelled EXCEPT ![c] = FALSE]
    /\ UNCHANGED <<status, socket, outside, killed, clients, kick>>

\* Mutant: the early return of COM_QUIT keeps the token.
QuitKeepsToken(c) ==
    /\ pc[c] = "work"
    /\ req[c].op = "quit"
    /\ req' = [req EXCEPT ![c] = NoReq]
    /\ Goto(c, "exit")
    /\ UNCHANGED <<status, socket, outside, cancelled, killed, clients, tokens, kick>>

Quit(c) ==
    /\ pc[c] = "work"
    /\ req[c].op = "quit"
    /\ Finish(c, "exit")
    /\ cancelled' = [cancelled EXCEPT ![c] = FALSE]
    /\ UNCHANGED <<status, socket, outside, killed, clients, kick>>

\* Server.Kill: cancel what the target executes; without QUERY, ask it to leave.
\* Before InstallCancel the target still has the cancelFunc of the request before.
Kill(c) ==
    /\ pc[c] = "work"
    /\ req[c].op = "kill"
    /\ ~Scanning
    /\ LET d == req[c].target
           found == d \in clients
           leave == found /\ ~req[c].query
       IN /\ cancelled' = [x \in Conn |-> x # c /\
                  (cancelled[x] \/ (x = d /\ found /\ pc[d] \in {"token", "work"}))]
          /\ status' = IF leave THEN [status EXCEPT ![d] = "waitshutdown"] ELSE status
          /\ killed' = [killed EXCEPT ![d] = @ \/ leave]
    /\ Finish(c, "loop")
    /\ UNCHANGED <<socket, outside, clients, kick>>

\* clientConn.Close: out of the table, socket closed, session closed.
CloseConn(c) ==
    /\ ~Scanning
    /\ clients' = clients \ {c}
    /\ open' = [open EXCEPT ![c] = FALSE]

\* The deferred function of Run.
Leave(c) ==
    /\ pc[c] = "exit"
    /\ IF outside[c] THEN UNCHANGED <<clients, open>> ELSE CloseConn(c)
    /\ Goto(c, "gone")
    /\ UNCHANGED <<status, req, sent, outside, cancelled, killed, tokens, kick>>

-----------------------------------------------------------------------------
(***************************************************************************)
(* GracefulDown, kickIdleConnection and ShutdownOrNotify.  Sessions do not  *)
(* stay in a transaction of the embedded engine between requests.           *)
(***************************************************************************)
conns == <<pc, req, sent, outside, cancelled, killed, tokens>>

Shutdown ==
    /\ kpc = "serving"
    /\ kpc' = "count"
    /\ UNCHANGED <<conns, status, clients, open, todo, notify, kicked>>

\* ConnectionCount, and another round if there are connections.  The pause before
\* a round is part of the step before it.
CountClients ==
    /\ kpc = "count"
    /\ IF clients = {}
       THEN kpc' = "down" /\ UNCHANGED todo
       ELSE kpc' = "scan" /\ todo' = clients
    /\ UNCHANGED <<conns, status, clients, open, notify, kicked>>

\* CompareAndSwap(reading, shutdown).
TryShutdown(c) ==
    /\ kpc = "scan"
    /\ notify = {}
    /\ c \in todo
    /\ todo' = todo \ {c}
    /\ IF status[c] = "reading"
       THEN /\ status' = [status EXCEPT ![c] = "shutdown"]
            /\ kicked' = kicked \cup {c}
            /\ UNCHANGED notify
       ELSE /\ notify' = {c}
            /\ UNCHANGED <<status, kicked>>
    /\ UNCHANGED <<conns, clients, open, kpc>>

\* The swap failed: Store(waitshutdown).
Notify(c) ==
    /\ kpc = "scan"
    /\ c \in notify
    /\ status' = [status EXCEPT ![c] = "waitshutdown"]
    /\ notify' = {}
    /\ UNCHANGED <<conns, clients, open, kpc, todo, kicked>>

EndScan ==
    /\ kpc = "scan"
    /\ todo = {}
    /\ notify = {}
    /\ kpc' = "close"
    /\ UNCHANGED <<conns, status, clients, open, todo, notify, kicked>>

CloseKicked(c) ==
    /\ kpc = "close"
    /\ c \in kicked
    /\ CloseConn(c)
    /\ kicked' = kicked \ {c}
    /\ UNCHANGED <<conns, status, kpc, todo, notify>>

EndRound ==
    /\ kpc = "close"
    /\ kicked = {}
    /\ kpc' = "count"
    /\ UNCHANGED <<conns, status, clients, open, todo, notify, kicked>>

-----------------------------------------------------------------------------
\* What depends on the client.
Client(c) == OnConn(c) \/ HandshakeFails(c) \/ ReadPacket(c) \/ (open[c] /\ ReadFails(c))

\* What the goroutine does by itself.
Run(c) ==
    \/ StartReading(c) \/ LoadStatus(c) \/ (~open[c] /\ ReadFails(c)) \/ StartDispatch(c)
    \/ InstallCancel(c) \/ GetToken(c) \/ EndQuery(c) \/ Quit(c) \/ Kill(c) \/ Leave(c)

GracefulDown ==
    \/ CountClients \/ EndScan \/ EndRound
    \/ \E c \in Conn : TryShutdown(c) \/ Notify(c) \/ CloseKicked(c)

Next == (\E c \in Conn : Client(c) \/ Run(c)) \/ Shutdown \/ GracefulDown

Spec == Init /\ [][Next]_vars

\* Goroutines are scheduled and requests end.  Strong fairness: a goroutine that
\* waits for the lock or for a token gets it, as sync.RWMutex lets a waiting
\* writer go before new readers and a channel serves its receivers in order.
\* Clients owe nothing: they may keep an idle connection open for ever.
FairSpec == Spec /\ (\A c \in Conn : SF_vars(Run(c))) /\ WF_vars(GracefulDown)

-----------------------------------------------------------------------------
\* Every variable stays within its type; there never are more tokens than the
\* channel of the limiter holds.
TypeOK ==
    /\ pc \in [Conn -> {"handshake", "loop", "load", "read", "packet", "dispatch", "token", "work",
                        "exit", "gone"}]
    /\ status \in [Conn -> Status]
    /\ req \in [Conn -> Request \cup {NoReq}]
    /\ sent \in [Conn -> 0..MaxReq]
    /\ open \in [Conn -> BOOLEAN]
    /\ outside \in [Conn -> BOOLEAN]
    /\ cancelled \in [Conn -> BOOLEAN]
    /\ killed \in [Conn -> BOOLEAN]
    /\ clients \subseteq Conn
    /\ tokens \in 0..TokenLimit
    /\ kpc \in {"serving", "count", "scan", "close", "down"}
    /\ todo \subseteq Conn
    /\ notify \subseteq Conn
    /\ kicked \subseteq Conn

\* No token is lost or made up, whichever way a request ends: the tokens in
\* the limiter and the requests being served add up to the limit.
TokensConserved == tokens + Cardinality({c \in Conn : pc[c] = "work"}) = TokenLimit

\* A goroutine that has ended leaves no entry in the table of clients, unless
\* kickIdleConnection is about to remove it: GracefulDown would wait for ever
\* for a connection nobody closes (closedOutside against status).
NoLeak == \A c \in Conn : pc[c] = "gone" => c \notin clients \/ c \in kicked

\* A connection takes up no further request after KILL, whatever swaps of its
\* own goroutine and of a shutdown run at the same time.
KilledServesNoMore ==
    [][\A c \in Conn : killed[c] => ~(pc[c] # "dispatch" /\ pc'[c] = "dispatch")]_vars

\* A connection that is asked to leave while it has a request, by KILL or by a
\* shutdown, leaves after it: the client need not do anything.
BusyLeaves ==
    \A c \in Conn :
        (status[c] = "waitshutdown" /\ pc[c] \in {"dispatch", "token", "work", "loop"})
            ~> (pc[c] = "gone" /\ c \notin clients)

\* GracefulDown comes to an end, also with clients that stay idle.
ShutdownCompletes == (kpc = "count") ~> (kpc = "down")
=============================================================================
