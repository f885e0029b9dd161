------------------------------- MODULE Server -------------------------------
(***************************************************************************)
(* The server's connections (internal/engine/server.go): acceptLoop, one   *)
(* handleConnection goroutine per connection, tunLoop, cleanupLoop, calls  *)
(* of SendToSession and Stop, over a TCP, KCP or raw UDP Inbound           *)
(* (internal/transport/inbound.go).  What a connection carries is modules  *)
(* Handshake and Tunnel; here it is who may use it, and who waits for whom.*)
(*                                                                         *)
(* Server.mu is held across other waits by two goroutines only: tunLoop    *)
(* keeps a read lock while it writes to every connection, and cleanupLoop  *)
(* the write lock while it closes idle ones.  Every other use is a single  *)
(* step.  UDPConn.Read keeps the connection's own lock until a datagram    *)
(* comes, and Write and Close need that lock.                              *)
(***************************************************************************)
EXTENDS Integers, FiniteSets

CONSTANTS
    Conns,      \* connections that clients open; each has its own session ID
    None        \* no connection

ASSUME ConnsAssumption == None \notin Conns

VARIABLES
    transport,    \* Config.Mode and ReliableUDP: "tcp", "kcp", "udp"
    acceptor,     \* acceptLoop: "accept", "ended"
    hpc,          \* where the goroutine of each connection is
    closed,       \* connections that were closed on this side
    gone,         \* connections whose client has vanished without a word
    connections,  \* Server.connections
    idle,         \* those with LastSeen over 10 minutes ago
    mu,           \* who holds Server.mu across a wait: "free", "tun", "cleanup"
    tun, tunTodo, \* tunLoop, and the connections its round has yet to write to
    cleanup, cleanupTodo,  \* cleanupLoop, and the connections it has yet to look at
    victim,                \* the one it found idle and is closing
    stop, stopTodo         \* Stop, and the connections it has yet to close

conn == <<hpc, closed, gone>>
registry == <<connections, idle>>
tunVars == <<tun, tunTodo>>
cleanupVars == <<cleanup, cleanupTodo, victim>>
stopVars == <<stop, stopTodo>>
vars == <<transport, acceptor, conn, registry, mu, tunVars, cleanupVars, stopVars>>

-----------------------------------------------------------------------------
(* Locks *)

StopClosed == stop # "none"                  \* stopChan is closed
InboundClosed == stop = "done"               \* Inbound.Stop has run

\* A goroutine waits for Server.mu as a writer: new readers queue behind it.
WriterWaits == cleanup = "lock" \/ \E c \in Conns : hpc[c] \in {"register", "deregister"}

ReadLock == mu # "cleanup" /\ ~WriterWaits
WriteLock == mu = "free"

\* Write and Close can have the connection's lock.
ConnFree(c) == ~(transport = "udp" /\ hpc[c] = "reading")

-----------------------------------------------------------------------------
(* Clients *)

Connect(c) ==
    /\ hpc[c] = "none" /\ ~InboundClosed
    /\ hpc' = [hpc EXCEPT ![c] = "pending"]
    /\ UNCHANGED <<transport, acceptor, closed, gone, registry, mu, tunVars, cleanupVars,
                   stopVars>>

\* A client vanishes without a word.  Before that point the handshake fails.  On TCP
\* this is also a client that closes, or says nothing for 30 seconds.
Vanish(c) ==
    /\ hpc[c] \in {"register", "loop", "reading"} /\ c \notin gone
    /\ gone' = gone \cup {c}
    /\ UNCHANGED <<transport, acceptor, hpc, closed, registry, mu, tunVars, cleanupVars, stopVars>>

-----------------------------------------------------------------------------
(* acceptLoop, and the accept loop that a TCP or KCP Inbound runs besides *)

\* Accept fails once the listener is closed; acceptUDP waits on.
AcceptError ==
    /\ acceptor = "accept" /\ InboundClosed /\ transport # "udp"
    /\ acceptor' = "ended"
    /\ UNCHANGED <<transport, conn, registry, mu, tunVars, cleanupVars, stopVars>>

\* The Accept that Stop finds under way may still succeed.
Accept(c) ==
    /\ acceptor = "accept" /\ ~InboundClosed
    /\ hpc[c] = "pending"
    /\ hpc' = [hpc EXCEPT ![c] = "handshake"]
    /\ acceptor' = IF StopClosed THEN "ended" ELSE "accept"
    /\ UNCHANGED <<transport, closed, gone, registry, mu, tunVars, cleanupVars, stopVars>>

\* Inbound's own loop: the connection is echoed, no handshake is performed.
InboundAccept(c) ==
    /\ transport # "udp" /\ ~InboundClosed
    /\ hpc[c] = "pending"
    /\ hpc' = [hpc EXCEPT ![c] = "echo"]
    /\ UNCHANGED <<transport, acceptor, closed, gone, registry, mu, tunVars, cleanupVars,
                   stopVars>>

-----------------------------------------------------------------------------
(* handleConnection *)

\* PerformServerHandshake fails or runs into its deadline.
HandshakeFail(c) ==
    /\ hpc[c] = "handshake"
    /\ hpc' = [hpc EXCEPT ![c] = "ended"]
    /\ closed' = closed \cup {c}
    /\ UNCHANGED <<transport, acceptor, gone, registry, mu, tunVars, cleanupVars, stopVars>>

\* It succeeds and CreateSessionWithConfig adds the session.
HandshakeDone(c) ==
    /\ hpc[c] = "handshake"
    /\ hpc' = [hpc EXCEPT ![c] = "register"]
    /\ UNCHANGED <<transport, acceptor, closed, gone, registry, mu, tunVars, cleanupVars,
                   stopVars>>

Register(c) ==
    /\ hpc[c] = "register" /\ WriteLock
    /\ connections' = connections \cup {c}
    /\ idle' = idle \ {c}
    /\ hpc' = [hpc EXCEPT ![c] = "loop"]
    /\ UNCHANGED <<transport, acceptor, closed, gone, mu, tunVars, cleanupVars, stopVars>>

\* Mutant of LoopTop: stopChan is looked at after the first read only.
LoopTopReads(c) ==
    /\ hpc[c] = "loop"
    /\ hpc' = [hpc EXCEPT ![c] = "reading"]
    /\ UNCHANGED <<transport, acceptor, closed, gone, registry, mu, tunVars, cleanupVars,
                   stopVars>>

\* The top of handleDataExchange: stopChan, a new read deadline, Read.
LoopTop(c) ==
    /\ hpc[c] = "loop"
    /\ hpc' = [hpc EXCEPT ![c] = IF StopClosed THEN "deregister" ELSE "reading"]
    /\ UNCHANGED <<transport, acceptor, closed, gone, registry, mu, tunVars, cleanupVars,
                   stopVars>>

\* Data: LastSeen, UpdateActivity (nothing if the session is gone), Unwrap, TUN.  On
\* TCP readFrame makes data of the stream wherever four bytes of it read as a length
\* up to maxFrameSize and so many more arrive.
Receive(c) ==
    /\ hpc[c] = "reading" /\ c \notin gone \cup closed
    /\ transport = "udp" => ~InboundClosed
    /\ idle' = idle \ {c}
    /\ hpc' = [hpc EXCEPT ![c] = "loop"]
    /\ UNCHANGED <<transport, acceptor, closed, gone, connections, mu, tunVars, cleanupVars,
                   stopVars>>

\* A FIN closes the connection at once.
ReceiveFin(c) ==
    /\ hpc[c] = "reading" /\ c \notin gone \cup closed
    /\ transport = "udp" => ~InboundClosed
    /\ closed' = closed \cup {c}
    /\ hpc' = [hpc EXCEPT ![c] = "deregister"]
    /\ UNCHANGED <<transport, acceptor, gone, registry, mu, tunVars, cleanupVars, stopVars>>

\* readFrame takes four bytes of a TCP connection for a length that is 0 or more than
\* maxFrameSize.  No client sends lengths (nothing calls writeFrame): the bytes are
\* those of a further copy of the SYN, whose magic number is too large, or of a
\* masked packet.
FrameTooLarge(c) ==
    /\ hpc[c] = "reading" /\ c \notin gone \cup closed /\ transport = "tcp"
    /\ hpc' = [hpc EXCEPT ![c] = "deregister"]
    /\ UNCHANGED <<transport, acceptor, closed, gone, registry, mu, tunVars, cleanupVars,
                   stopVars>>

\* Mutant of ReadTimeout: a KCP timeout counts as activity.
ReadTimeoutCounts(c) ==
    /\ hpc[c] = "reading" /\ transport # "udp"
    /\ hpc' = [hpc EXCEPT ![c] = IF transport = "kcp" THEN "loop" ELSE "deregister"]
    /\ idle' = idle \ {c}
    /\ UNCHANGED <<transport, acceptor, closed, gone, connections, mu, tunVars, cleanupVars,
                   stopVars>>

\* Mutant of ReadTimeout: a KCP timeout is an error as any other.
ReadTimeoutEnds(c) ==
    /\ hpc[c] = "reading" /\ transport # "udp"
    /\ hpc' = [hpc EXCEPT ![c] = "deregister"]
    /\ UNCHANGED <<transport, acceptor, closed, gone, registry, mu, tunVars, cleanupVars,
                   stopVars>>

\* 30 seconds without data: KCP goes on, readFrame's error ends a TCP connection,
\* UDPConn.SetReadDeadline does nothing.
ReadTimeout(c) ==
    /\ hpc[c] = "reading" /\ transport # "udp"
    /\ hpc' = [hpc EXCEPT ![c] = IF transport = "kcp" THEN "loop" ELSE "deregister"]
    /\ UNCHANGED <<transport, acceptor, closed, gone, registry, mu, tunVars, cleanupVars,
                   stopVars>>

\* Read fails: the connection was closed here, or Inbound.Stop closed readChan.
ReadError(c) ==
    /\ hpc[c] = "reading"
    /\ c \in closed \/ (transport = "udp" /\ InboundClosed)
    /\ hpc' = [hpc EXCEPT ![c] = "deregister"]
    /\ UNCHANGED <<transport, acceptor, closed, gone, registry, mu, tunVars, cleanupVars,
                   stopVars>>

\* The deferred calls of handleConnection.
Deregister(c) ==
    /\ hpc[c] = "deregister" /\ WriteLock
    /\ connections' = connections \ {c}
    /\ closed' = closed \cup {c}
    /\ hpc' = [hpc EXCEPT ![c] = "ended"]
    /\ gone' = gone \ {c} /\ idle' = idle \ {c}
    /\ UNCHANGED <<transport, acceptor, mu, tunVars, cleanupVars, stopVars>>

-----------------------------------------------------------------------------
(* tunLoop *)

\* A packet comes out of the TUN device.  It is written to every connection.
TunRead ==
    /\ tun = "read" /\ stop # "done" /\ ReadLock
    /\ mu' = "tun"
    /\ tun' = "write" /\ tunTodo' = connections
    /\ UNCHANGED <<transport, acceptor, conn, registry, cleanupVars, stopVars>>

\* The device is closed.
TunReadError ==
    /\ tun = "read" /\ stop = "done"
    /\ tun' = "ended"
    /\ UNCHANGED <<transport, acceptor, conn, registry, mu, tunTodo, cleanupVars, stopVars>>

\* Mutant of TunWrite: no write deadline is left on the connection, and the window of
\* a vanished TCP client is full.
TunWriteForever(c) ==
    /\ tun = "write" /\ c \in tunTodo /\ ConnFree(c)
    /\ ~(transport = "tcp" /\ c \in gone)
    /\ tunTodo' = tunTodo \ {c}
    /\ UNCHANGED <<transport, acceptor, conn, registry, mu, tun, cleanupVars, stopVars>>

\* A write to a UDPConn waits for its lock.  On TCP and KCP it always ends, with an
\* error if need be: PerformServerHandshake set a write deadline that nobody clears.
TunWrite(c) ==
    /\ tun = "write" /\ c \in tunTodo /\ ConnFree(c)
    /\ tunTodo' = tunTodo \ {c}
    /\ UNCHANGED <<transport, acceptor, conn, registry, mu, tun, cleanupVars, stopVars>>

\* The round ends and stopChan is looked at.
TunDone ==
    /\ tun = "write" /\ tunTodo = {}
    /\ mu' = "free"
    /\ tun' = IF StopClosed THEN "ended" ELSE "read"
    /\ UNCHANGED <<transport, acceptor, conn, registry, tunTodo, cleanupVars, stopVars>>

-----------------------------------------------------------------------------
(* cleanupLoop *)

\* Ten minutes without data.
Ages(c) ==
    /\ c \in connections \ idle
    /\ idle' = idle \cup {c}
    /\ UNCHANGED <<transport, acceptor, conn, connections, mu, tunVars, cleanupVars, stopVars>>

\* The ticker or stopChan.  SessionManager.Cleanup changes nothing that is read,
\* and a round that finds nothing idle is left out.
CleanupTick ==
    /\ cleanup = "idle"
    /\ StopClosed \/ connections \cap idle # {}
    /\ cleanup' = IF StopClosed THEN "ended" ELSE "lock"
    /\ UNCHANGED <<transport, acceptor, conn, registry, mu, tunVars, cleanupTodo, victim,
                   stopVars>>

\* A connection that turns idle during a round is left to the next one.
CleanupLock ==
    /\ cleanup = "lock" /\ WriteLock
    /\ mu' = "cleanup"
    /\ cleanup' = "close" /\ cleanupTodo' = connections \cap idle
    /\ UNCHANGED <<transport, acceptor, conn, registry, tunVars, victim, stopVars>>

\* LastSeen decides when the connection's turn comes.
CleanupVisit(c) ==
    /\ cleanup = "close" /\ victim = None
    /\ c \in cleanupTodo
    /\ cleanupTodo' = cleanupTodo \ {c}
    /\ victim' = IF c \in idle THEN c ELSE None
    /\ UNCHANGED <<transport, acceptor, conn, registry, mu, tunVars, cleanup, stopVars>>

\* Mutant of CleanupClose: forgets the connection without closing it.
CleanupCloseForgets(c) ==
    /\ victim = c /\ ConnFree(c)
    /\ connections' = connections \ {c}
    /\ victim' = None
    /\ UNCHANGED <<transport, acceptor, conn, idle, mu, tunVars, cleanup, cleanupTodo, stopVars>>

CleanupClose(c) ==
    /\ victim = c /\ ConnFree(c)
    /\ closed' = closed \cup {c}
    /\ connections' = connections \ {c}
    /\ victim' = None
    /\ UNCHANGED <<transport, acceptor, hpc, gone, idle, mu, tunVars, cleanup, cleanupTodo,
                   stopVars>>

CleanupDone ==
    /\ cleanup = "close" /\ cleanupTodo = {} /\ victim = None
    /\ mu' = "free"
    /\ cleanup' = "idle"
    /\ UNCHANGED <<transport, acceptor, conn, registry, tunVars, cleanupTodo, victim, stopVars>>

-----------------------------------------------------------------------------
(* SendToSession (Broadcast is one such call for each connection) *)

SendToSession(c) ==
    /\ ReadLock
    /\ c \in connections /\ ConnFree(c)
    /\ idle' = idle \ {c}
    /\ UNCHANGED <<transport, acceptor, conn, connections, mu, tunVars, cleanupVars, stopVars>>

-----------------------------------------------------------------------------
(* Stop, which cmd/server calls once *)

StopCall ==
    /\ stop = "none"
    /\ stop' = "snapshot"
    /\ UNCHANGED <<transport, acceptor, conn, registry, mu, tunVars, cleanupVars, stopTodo>>

StopSnapshot ==
    /\ stop = "snapshot" /\ ReadLock
    /\ stop' = "close" /\ stopTodo' = connections
    /\ UNCHANGED <<transport, acceptor, conn, registry, mu, tunVars, cleanupVars>>

StopClose(c) ==
    /\ stop = "close" /\ c \in stopTodo /\ ConnFree(c)
    /\ closed' = closed \cup {c}
    /\ stopTodo' = stopTodo \ {c}
    /\ UNCHANGED <<transport, acceptor, hpc, gone, registry, mu, tunVars, cleanupVars, stop>>

\* Inbound.Stop and TunDevice.Close.
StopInbound ==
    /\ stop = "close" /\ stopTodo = {}
    /\ stop' = "done"
    /\ UNCHANGED <<transport, acceptor, conn, registry, mu, tunVars, cleanupVars, stopTodo>>

-----------------------------------------------------------------------------
\* Start has returned.
Init ==
    /\ transport \in {"tcp", "kcp", "udp"}
    /\ acceptor = "accept"
    /\ hpc = [c \in Conns |-> "none"]
    /\ closed = {} /\ gone = {}
    /\ connections = {} /\ idle = {}
    /\ mu = "free"
    /\ tun = "read" /\ tunTodo = {}
    /\ cleanup = "idle" /\ cleanupTodo = {} /\ victim = None
    /\ stop = "none" /\ stopTodo = {}

Client(c) == Connect(c) \/ Vanish(c)

Handler(c) ==
    \/ HandshakeFail(c) \/ HandshakeDone(c) \/ Register(c) \/ LoopTop(c) \/ Receive(c)
    \/ ReceiveFin(c) \/ FrameTooLarge(c) \/ ReadTimeout(c) \/ ReadError(c) \/ Deregister(c)

TunStep == TunReadError \/ (\E c \in Conns : TunWrite(c)) \/ TunDone

CleanupStep ==
    \/ CleanupTick \/ CleanupLock \/ CleanupDone
    \/ \E c \in Conns : CleanupVisit(c) \/ CleanupClose(c)

StopStep == StopSnapshot \/ (\E c \in Conns : StopClose(c)) \/ StopInbound

Next ==
    \/ \E c \in Conns : Client(c) \/ Handler(c)
    \/ \E c \in Conns : Accept(c) \/ InboundAccept(c)
    \/ AcceptError
    \/ TunStep \/ TunRead
    \/ CleanupStep
    \/ \E c \in Conns : Ages(c) \/ SendToSession(c)
    \/ StopCall \/ StopStep

Spec == Init /\ [][Next]_vars

\* Steps that wait for Server.mu and for the lock of a connection.
RegistryStep == \E c \in Conns : Register(c) \/ Deregister(c)
ConnLockStep == \E c \in Conns : TunWrite(c) \/ CleanupClose(c) \/ StopClose(c)

\* A goroutine that can run does, deadlines fire, the cleanup ticker ticks and
\* time passes.  A goroutine that waits for a mutex gets it although others ask
\* for it again and again: Go's mutexes do not starve.  A client that has not
\* vanished is heard of again and again: it sends keep-alives.
Fairness ==
    /\ \A c \in Conns : WF_vars(Handler(c)) /\ WF_vars(Ages(c))
    /\ WF_vars(\E c \in Conns : Accept(c))
    /\ WF_vars(TunStep) /\ WF_vars(CleanupStep) /\ WF_vars(StopStep)
    /\ SF_vars(RegistryStep) /\ SF_vars(ConnLockStep)

FairSpec == Spec /\ Fairness

-----------------------------------------------------------------------------
(* Properties *)

Serving(c) == hpc[c] \in {"loop", "reading", "deregister"}

\* Whatever handlers, cleanupLoop and Stop do to it in whichever order, a
\* connection is registered only while a goroutine serves it, a goroutine serves
\* an unregistered one only until it notices that cleanupLoop closed it, and
\* nothing is left open or registered once the goroutine has ended.  What tunLoop
\* has yet to write to in its round and what cleanupLoop has yet to look at or is
\* closing is registered at that moment.
RegistryConsistent ==
    /\ \A c \in Conns :
         /\ c \in connections => Serving(c)
         /\ Serving(c) /\ c \notin connections => c \in closed
         /\ hpc[c] = "ended" => c \in closed
    /\ tunTodo \cup cleanupTodo \cup ({victim} \ {None}) \subseteq connections

\* A session over KCP or raw UDP outlives read deadlines, silence and failing writes:
\* its goroutine gives it up only once it is closed, by a FIN or by cleanupLoop, or
\* with the server.  TCP is not among them: readFrame gives a session up at the first
\* four bytes that are no length, and no client sends lengths, although
\* docs/architecture.md:24 has "Dual-mode (TCP + UDP)".
SessionsLast ==
    \A c \in Conns : transport # "tcp" /\ hpc[c] = "deregister" => c \in closed \/ StopClosed

\* The server waits for a client that will never be heard of again: its handler
\* sits in UDPConn.Read with the connection's lock.
Frozen == transport = "udp" /\ \E c \in gone : hpc[c] = "reading"

Active(c) == hpc[c] \in {"handshake", "register", "loop", "reading", "deregister"}

\* Stop goes through, and every handler ends with nothing left registered: those
\* that were in the handshake when Stop took its snapshot of the connections
\* too.  The exception is raw UDP with a vanished client: Close waits for Read.
StopDrains ==
    StopClosed ~> (Frozen \/ (stop = "done" /\ connections = {} /\ \A c \in Conns : ~Active(c)))

\* tunLoop's writes, also to clients that have vanished, and cleanupLoop's closing
\* come to an end and Server.mu is free again for the handlers, with the same
\* exception.
LockReleased == mu # "free" ~> (mu = "free" \/ Frozen)

\* Vanished clients do not stay registered for ever, with that exception, once
\* nobody sends to them any more: SendToSession counts as activity.
GoneAreCollected ==
    <>[][\A c \in Conns : ~SendToSession(c)]_vars =>
        (gone \cap connections # {} ~> (gone \cap connections = {} \/ Frozen))

\* README.md, the figure of the session's life cycle: the server answers a SYN.
SynAnswered ==
    \A c \in Conns : hpc[c] = "pending" ~> (hpc[c] \in {"register", "ended"} \/ StopClosed)
=============================================================================
