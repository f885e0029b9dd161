-------------------------- MODULE ClientLifecycle --------------------------
(***************************************************************************)
(* Start, Stop and the goroutines of a client (internal/engine/client.go,  *)
(* internal/engine/background.go, transport/outbound.go): callers of Start *)
(* and Stop, which hold Client.mu to their end; readLoop, which takes the  *)
(* same lock for its counters; the goroutines it starts to read from the   *)
(* socket, which it abandons after 500 ms; and the background goroutine.   *)
(*                                                                         *)
(* Start and Stop are the only long critical sections of Client.mu, so the *)
(* short ones are single steps that need it to be free.                    *)
(***************************************************************************)
EXTENDS Integers, FiniteSets

CONSTANTS
    Callers,      \* goroutines that call Start and Stop
    Free,         \* Client.mu is not held
    MaxPackets,   \* bound on packets read from the socket
    MaxTimeouts   \* bound on reads that readLoop gives up on after 500 ms

ASSUME BoundsAssumption ==
    /\ Free \notin Callers
    /\ MaxPackets \in Nat
    /\ MaxTimeouts \in Nat

VARIABLES
    mu,          \* Client.mu: the caller that holds it, or Free
    call,        \* where each caller is
    connected, handshakeDone,
    conn,        \* the connection of Client.outbound: "none", "open", "closed"
    reliable,    \* it is a KCP session, otherwise a UDP socket
    expired,     \* the read deadline that PerformClientHandshake set on it has passed
    routes,      \* setupRouting changed the routing table and no removeRoutes ran since
    stopClosed,  \* stopChan is closed
    onceDone,    \* stopOnce has run
    loop,        \* where readLoop is; "none" before it starts and after it ends
    reader,      \* this iteration's reader: "none", "reading", "done"
    abandoned,   \* readers of earlier iterations still blocked in Read
    bufOwn,      \* buf still holds what this iteration's reader put there
    data,        \* the copy readLoop took is "intact" or "damaged"; "none" otherwise
    bg, bgStop,  \* the background goroutine, and whether its stopChan is closed
    arrived,     \* history: packets read from the socket,
    processed, damaged, lost, dropped,   \* and what became of them
    timeouts     \* history: reads that readLoop gave up on

state == <<mu, call, connected, handshakeDone, conn, reliable, expired, routes,
           stopClosed, onceDone>>
loopVars == <<loop, reader, abandoned, bufOwn, data>>
bgVars == <<bg, bgStop>>
history == <<arrived, processed, damaged, lost, dropped, timeouts>>
vars == <<state, loopVars, bgVars, history>>

-----------------------------------------------------------------------------
(* Start *)

StartCall(u) ==
    /\ call[u] = "idle" /\ mu = Free /\ ~connected
    /\ mu' = u
    /\ call' = [call EXCEPT ![u] = "start"]
    /\ UNCHANGED <<connected, handshakeDone, conn, reliable, expired, routes, stopClosed, onceDone,
                   loopVars, bgVars, history>>

\* Mutant of StartFail: the connection is kept.
StartFailOpen(u) ==
    /\ call[u] = "start"
    /\ mu' = Free
    /\ call' = [call EXCEPT ![u] = "idle"]
    /\ conn' \in {"none", "open"}
    /\ UNCHANGED <<connected, handshakeDone, reliable, expired, routes, stopClosed, onceDone,
                   loopVars, bgVars, history>>

\* NewOutbound or Connect fails, or the handshake does and the outbound is closed.
StartFail(u) ==
    /\ call[u] = "start"
    /\ mu' = Free
    /\ call' = [call EXCEPT ![u] = "idle"]
    /\ conn' \in {"none", "closed"}
    /\ UNCHANGED <<connected, handshakeDone, reliable, expired, routes, stopClosed, onceDone,
                   loopVars, bgVars, history>>

\* Mutant of StartSpawn: a new stopChan, while stopOnce stays spent.
StartSpawnFreshStop(u) ==
    /\ call[u] = "start"
    /\ call' = [call EXCEPT ![u] = "spawned"]
    /\ conn' = "open" /\ expired' = FALSE
    /\ loop' = "top" /\ reader' = "none" /\ abandoned' = 0 /\ bufOwn' = FALSE
    /\ data' = "none"
    /\ stopClosed' = FALSE
    /\ UNCHANGED <<mu, connected, handshakeDone, reliable, routes, onceDone, bgVars, history>>

\* The handshake succeeds and readLoop is started, before connected is set.
StartSpawn(u) ==
    /\ call[u] = "start"
    /\ call' = [call EXCEPT ![u] = "spawned"]
    /\ conn' = "open" /\ expired' = FALSE
    /\ loop' = "top" /\ reader' = "none" /\ abandoned' = 0 /\ bufOwn' = FALSE
    /\ data' = "none"
    /\ UNCHANGED <<mu, connected, handshakeDone, reliable, routes, stopClosed, onceDone,
                   bgVars, history>>

\* An error of setupRouting is only logged, and on a system that it does not know
\* there always is one: the client is connected with or without routes.
StartFinish(u) ==
    /\ call[u] = "spawned"
    /\ connected' = TRUE /\ handshakeDone' = TRUE
    /\ routes' \in BOOLEAN
    /\ mu' = Free
    /\ call' = [call EXCEPT ![u] = "idle"]
    /\ UNCHANGED <<conn, reliable, expired, stopClosed, onceDone, loopVars, bgVars, history>>

-----------------------------------------------------------------------------
(* Stop *)

\* Mutant of StopCall: stopChan is not closed.
StopCallSilent(u) ==
    /\ call[u] = "idle" /\ mu = Free /\ connected /\ ~onceDone
    /\ mu' = u
    /\ call' = [call EXCEPT ![u] = "stop"]
    /\ onceDone' = TRUE
    /\ bgStop' = TRUE
    /\ UNCHANGED <<connected, handshakeDone, conn, reliable, expired, routes, stopClosed, loopVars, bg, history>>

\* Up to wg.Wait.  A client that is not connected, or whose stopOnce has run,
\* is left as it is.
StopCall(u) ==
    /\ call[u] = "idle" /\ mu = Free /\ connected /\ ~onceDone
    /\ mu' = u
    /\ call' = [call EXCEPT ![u] = "stop"]
    /\ onceDone' = TRUE
    /\ bgStop' = TRUE
    /\ stopClosed' = TRUE
    /\ UNCHANGED <<connected, handshakeDone, conn, reliable, expired, routes, loopVars, bg, history>>

\* Mutant of StopFinish: nobody waits for readLoop.
StopFinishEarly(u) ==
    /\ call[u] = "stop"
    /\ conn' = "closed" /\ abandoned' = 0
    /\ routes' = FALSE
    /\ connected' = FALSE /\ handshakeDone' = FALSE
    /\ mu' = Free
    /\ call' = [call EXCEPT ![u] = "idle"]
    /\ UNCHANGED <<reliable, expired, stopClosed, onceDone, loop, reader, bufOwn, data,
                   bgVars, history>>

\* wg.Wait returns; Outbound.Close wakes every reader with an error.  removeRoutes
\* runs whether or not there are routes, and looks at no command's result.
StopFinish(u) ==
    /\ call[u] = "stop" /\ loop = "none"
    /\ conn' = "closed" /\ abandoned' = 0
    /\ routes' = FALSE
    /\ connected' = FALSE /\ handshakeDone' = FALSE
    /\ mu' = Free
    /\ call' = [call EXCEPT ![u] = "idle"]
    /\ UNCHANGED <<reliable, expired, stopClosed, onceDone, loop, reader, bufOwn, data,
                   bgVars, history>>

-----------------------------------------------------------------------------
(* readLoop *)

\* The default case: a new reader.  While stopChan is open nothing else need be
\* ready.
LoopSpawn ==
    /\ \/ loop = "top" /\ ~stopClosed
       \/ loop = "spawn"
    /\ loop' = "read" /\ reader' = "reading"
    /\ UNCHANGED <<state, abandoned, bufOwn, data, bgVars, history>>

\* The keep-alive ticker is ready; select may prefer it to a closed stopChan.
LoopTicker ==
    /\ loop = "top"
    /\ loop' = "keepalive"
    /\ UNCHANGED <<state, reader, abandoned, bufOwn, data, bgVars, history>>

\* Mutant of LoopKeepAlive: it waits for an answer with a reader of its own.
LoopKeepAliveReads ==
    /\ loop = "keepalive" /\ mu = Free
    /\ abandoned < MaxTimeouts
    /\ abandoned' = abandoned + 1
    /\ loop' = "spawn"
    /\ UNCHANGED <<state, reader, bufOwn, data, bgVars, history>>

\* IsConnected needs Client.mu; the write itself changes nothing here.
LoopKeepAlive ==
    /\ loop = "keepalive" /\ mu = Free
    /\ loop' = "spawn"
    /\ UNCHANGED <<state, reader, abandoned, bufOwn, data, bgVars, history>>

\* Whether a packet that is there would reach readLoop.  Past the deadline a UDP
\* socket only returns the timeout; a KCP session still looks at its queue first.
Listening == conn = "open" /\ reader = "reading" /\ (reliable \/ ~expired)

\* stopChan is closed: at the top or during a read, whose result is given up; a
\* reader that is still waiting for a packet is left behind.
LoopExit ==
    /\ loop \in {"top", "read"} /\ stopClosed
    /\ loop' = "none"
    /\ dropped' = IF reader = "done" THEN dropped + 1 ELSE dropped
    /\ abandoned' = IF Listening THEN abandoned + 1 ELSE abandoned
    /\ timeouts' = IF Listening THEN timeouts + 1 ELSE timeouts
    /\ reader' = "none"
    /\ UNCHANGED <<state, bufOwn, data, bgVars, arrived, processed, damaged, lost>>

\* 500 ms have passed.  The reader goes on in the background, or has just
\* finished and nobody looks at its result.  Past its deadline no reader blocks.
LoopTimeout ==
    /\ loop = "read" /\ timeouts < MaxTimeouts
    /\ reader = "done" \/ ~expired
    /\ timeouts' = timeouts + 1
    /\ abandoned' = IF reader = "reading" THEN abandoned + 1 ELSE abandoned
    /\ lost' = IF reader = "done" THEN lost + 1 ELSE lost
    /\ loop' = "top" /\ reader' = "none"
    /\ UNCHANGED <<state, bufOwn, data, bgVars, arrived, processed, damaged, dropped>>

\* readDone: copy out of the shared buffer; before Start is through, drop it.
LoopGot ==
    /\ loop = "read" /\ reader = "done"
    /\ reader' = "none"
    /\ IF handshakeDone
       THEN /\ loop' = "stats"
            /\ data' = IF bufOwn THEN "intact" ELSE "damaged"
            /\ UNCHANGED dropped
       ELSE /\ loop' = "top"
            /\ dropped' = dropped + 1
            /\ UNCHANGED data
    /\ UNCHANGED <<state, abandoned, bufOwn, bgVars,
                   arrived, processed, damaged, lost, timeouts>>

\* Mutant of LoopStats: the lock is not released.
LoopStatsLocked ==
    /\ loop = "stats" /\ mu = Free
    /\ mu' = "readLoop"
    /\ loop' = "top"
    /\ processed' = IF data = "intact" THEN processed + 1 ELSE processed
    /\ damaged' = IF data = "damaged" THEN damaged + 1 ELSE damaged
    /\ data' = "none"
    /\ UNCHANGED <<call, connected, handshakeDone, conn, reliable, expired, routes, stopClosed,
                   onceDone, reader, abandoned, bufOwn, bgVars, arrived, lost, dropped, timeouts>>

\* The counters, under Client.mu, then processIncomingPacket on its own goroutine.
LoopStats ==
    /\ loop = "stats" /\ mu = Free
    /\ loop' = "top"
    /\ processed' = IF data = "intact" THEN processed + 1 ELSE processed
    /\ damaged' = IF data = "damaged" THEN damaged + 1 ELSE damaged
    /\ data' = "none"
    /\ UNCHANGED <<state, reader, abandoned, bufOwn, bgVars, arrived, lost, dropped, timeouts>>

\* Read fails: end of file or a closed connection ends the loop, other errors, a
\* deadline that has passed among them, do not.
LoopReadError ==
    /\ loop = "read" /\ reader = "reading"
    /\ reader' = "none"
    /\ loop' \in {"none", "top"}
    /\ UNCHANGED <<state, abandoned, bufOwn, data, bgVars, history>>

\* A packet reaches this iteration's reader.
Arrive ==
    /\ arrived < MaxPackets
    /\ Listening
    /\ arrived' = arrived + 1
    /\ reader' = "done" /\ bufOwn' = TRUE
    /\ UNCHANGED <<state, loop, abandoned, data, bgVars,
                   processed, damaged, lost, dropped, timeouts>>

\* Or an abandoned one, which writes it into the same buffer, over whatever
\* readLoop has not copied yet, and tells nobody.
ArriveAbandoned ==
    /\ conn = "open" /\ arrived < MaxPackets
    /\ abandoned > 0
    /\ arrived' = arrived + 1
    /\ abandoned' = abandoned - 1
    /\ lost' = lost + 1
    /\ bufOwn' = FALSE
    /\ UNCHANGED <<state, loop, reader, data, bgVars,
                   processed, damaged, dropped, timeouts>>

\* Nobody clears the handshake's deadline: it wakes every blocked reader.
DeadlinePasses ==
    /\ conn = "open" /\ ~expired
    /\ expired' = TRUE
    /\ abandoned' = 0
    /\ UNCHANGED <<mu, call, connected, handshakeDone, conn, reliable, routes, stopClosed,
                   onceDone, loop, reader, bufOwn, data, bgVars, history>>

-----------------------------------------------------------------------------
(* The background goroutine, which calls Send *)

BgTick ==
    /\ bg = "idle"
    /\ bg' = "check"
    /\ UNCHANGED <<state, loopVars, bgStop, history>>

\* IsConnected.
BgCheck ==
    /\ bg = "check" /\ mu = Free
    /\ bg' = IF connected THEN "stats" ELSE "idle"
    /\ UNCHANGED <<state, loopVars, bgStop, history>>

\* The counters, then the write, which fails if the connection is closed by now.
BgSend ==
    /\ bg = "stats" /\ mu = Free
    /\ bg' = "idle"
    /\ UNCHANGED <<state, loopVars, bgStop, history>>

BgEnd ==
    /\ bg = "idle" /\ bgStop
    /\ bg' = "ended"
    /\ UNCHANGED <<state, loopVars, bgStop, history>>

-----------------------------------------------------------------------------
\* NewClient, with background traffic enabled.
Init ==
    /\ mu = Free /\ call = [u \in Callers |-> "idle"]
    /\ connected = FALSE /\ handshakeDone = FALSE
    /\ conn = "none" /\ reliable \in BOOLEAN /\ expired = FALSE /\ routes = FALSE
    /\ stopClosed = FALSE /\ onceDone = FALSE
    /\ loop = "none" /\ reader = "none" /\ abandoned = 0 /\ bufOwn = FALSE
    /\ data = "none"
    /\ bg = "idle" /\ bgStop = FALSE
    /\ arrived = 0 /\ processed = 0 /\ damaged = 0 /\ lost = 0 /\ dropped = 0
    /\ timeouts = 0

StartStep(u) == StartFail(u) \/ StartSpawn(u) \/ StartFinish(u)

LoopStep ==
    \/ LoopSpawn \/ LoopTicker \/ LoopKeepAlive \/ LoopExit \/ LoopTimeout
    \/ LoopGot \/ LoopStats \/ LoopReadError

Next ==
    \/ \E u \in Callers : StartCall(u) \/ StartStep(u) \/ StopCall(u) \/ StopFinish(u)
    \/ LoopStep
    \/ Arrive \/ ArriveAbandoned \/ DeadlinePasses
    \/ BgTick \/ BgCheck \/ BgSend \/ BgEnd

Spec == Init /\ [][Next]_vars

\* Goroutines that can go on do.  A select that finds stopChan closed again and
\* again takes it some time: Go chooses at random among what is ready, and the
\* tickers are ready far more rarely.  A goroutine that waits for a mutex gets it
\* even if others ask for it again and again: Go's mutexes do not starve.
Fairness ==
    /\ \A u \in Callers : WF_vars(StartStep(u)) /\ WF_vars(StopFinish(u))
    /\ WF_vars(LoopStep) /\ SF_vars(LoopExit)
    /\ WF_vars(DeadlinePasses)
    /\ SF_vars(LoopKeepAlive) /\ SF_vars(LoopStats)
    /\ SF_vars(BgCheck) /\ SF_vars(BgSend) /\ SF_vars(BgEnd)

FairSpec == Spec /\ Fairness

-----------------------------------------------------------------------------
(* Properties *)

\* A client is started at most twice with success, and each readLoop may leave one
\* reader behind when it ends.
MaxGivenUp == MaxTimeouts + 2

\* Whenever Client.mu is free, what the client says of itself is so: it is
\* connected exactly when its connection is open and the handshake is done, and the
\* routing table is changed only while it is connected, though not always then.
\* Failed starts and stops in any order leave no connection and no routes behind.
RestConsistent ==
    mu = Free => /\ connected <=> conn = "open"
                 /\ connected <=> handshakeDone
                 /\ routes => connected

\* Packets that were read from the socket and never processed whole: one is lost
\* for each read that readLoop gave up on, at most, and one damaged for each of
\* those, at most.  All others are accounted for.
ReadLossBounded ==
    /\ lost + abandoned <= timeouts
    /\ damaged + (IF data = "damaged" \/ (reader = "done" /\ ~bufOwn) THEN 1 ELSE 0) <= lost
    /\ arrived = processed + damaged + lost + dropped
                 + (IF data # "none" THEN 1 ELSE 0) + (IF reader = "done" THEN 1 ELSE 0)

\* Stop returns, unless readLoop is waiting for the Client.mu that Stop holds
\* while it waits for readLoop; and the background goroutine ends once it is told
\* to, even if it is in the middle of a Send, unless Stop hangs.
StopEnds ==
    /\ \A u \in Callers :
         call[u] = "stop" ~> (call[u] = "idle" \/ loop \in {"keepalive", "stats"})
    /\ bgStop ~> (bg = "ended" \/ \E u \in Callers : call[u] = "stop")

\* Once a stop has gone through, readLoop of a client that is started again ends
\* by itself: nothing is read on the new connection although it is connected.
RestartIsDeaf ==
    (onceDone /\ mu = Free /\ connected) ~> (loop = "none" /\ connected)

\* A connected client whose readLoop lives listens again and again until it is
\* stopped, whatever readers were abandoned, unless the read deadline that the
\* handshake left behind has passed on a UDP or TCP connection.
TunnelListens ==
    (connected /\ loop # "none") ~>
        (Listening \/ loop = "none" \/ onceDone \/ (expired /\ ~reliable))

-----------------------------------------------------------------------------
(* What Start and Stop promise *)

\* Where the client is, read off Client.mu, connected and the connection.
Stage ==
    IF mu = Free THEN IF connected THEN "up" ELSE "down"
    ELSE IF connected THEN "falling"
    ELSE IF conn = "open" THEN "linked" ELSE "rising"

Abstract == INSTANCE Lifecycle WITH
    Once <- TRUE,
    stage <- Stage,
    reading <- loop # "none",
    spent <- onceDone

\* However Start and Stop are called, the client goes through the life cycle of
\* Lifecycle: a start that fails leads back down, readLoop lives only on a connection
\* that stands and never outlives the Stop that closes it, and the one Stop that
\* stopOnce allows is the only way down, so that a client that was stopped and has
\* come up again stays up.
ImplementsLifecycle == Abstract!Spec
=============================================================================
