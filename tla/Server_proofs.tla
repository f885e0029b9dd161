--------------------------- MODULE Server_proofs ---------------------------
(***************************************************************************)
(* The registry of the server is consistent, for any set of connections.   *)
(*                                                                         *)
(* What a connection's own goroutine does to the registry is in order by   *)
(* itself.  The rounds of tunLoop and cleanupLoop are several steps long   *)
(* and go through a copy of the registry; that the copy stays a part of it *)
(* is the work of Server.mu, so the invariant has to say at which steps    *)
(* who holds it.                                                           *)
(***************************************************************************)
EXTENDS Server, TLAPS

HandlerStates == {"none", "pending", "echo", "handshake", "register", "loop", "reading",
                  "deregister", "ended"}

\* The types that the steps rely on.
TypeOK ==
    /\ hpc \in [Conns -> HandlerStates]
    /\ closed \subseteq Conns
    /\ connections \subseteq Conns
    /\ mu \in {"free", "tun", "cleanup"}
    /\ tun \in {"read", "write", "ended"}
    /\ cleanup \in {"idle", "lock", "close", "ended"}
    /\ tunTodo \subseteq Conns /\ cleanupTodo \subseteq Conns
    /\ victim \in Conns \cup {None}

\* Server.mu is held across a wait exactly by the loop that is in its round, and
\* outside of its round cleanupLoop has nothing in hand.
LockOwned ==
    /\ mu = "tun" <=> tun = "write"
    /\ mu = "cleanup" <=> cleanup = "close"
    /\ tun # "write" => tunTodo = {}
    /\ cleanup # "close" => cleanupTodo = {} /\ victim = None
    /\ victim \notin cleanupTodo

IInv == TypeOK /\ LockOwned /\ RegistryConsistent

-----------------------------------------------------------------------------
LEMMA InitIInv == Init => IInv
  BY ConnsAssumption
  DEF Init, IInv, TypeOK, HandlerStates, LockOwned, RegistryConsistent, Serving

\* A step of the goroutine of c that leaves the registry and both rounds alone keeps
\* the invariant if it does not make c a served connection.
LEMMA HandlerMoves ==
  ASSUME IInv, NEW c \in Conns, NEW s \in HandlerStates,
         hpc' = [hpc EXCEPT ![c] = s],
         closed \subseteq closed', closed' \subseteq Conns,
         Serving(c) <=> s \in {"loop", "reading", "deregister"},
         s = "ended" => c \in closed',
         UNCHANGED <<connections, mu, tunVars, cleanupVars>>
  PROVE  IInv'
  <1>1. TypeOK'
    BY DEF IInv, TypeOK, tunVars, cleanupVars
  <1>2. LockOwned'
    BY DEF IInv, LockOwned, tunVars, cleanupVars
  <1>3. ASSUME NEW d \in Conns
        PROVE  /\ d \in connections' => Serving(d)'
               /\ Serving(d)' /\ d \notin connections' => d \in closed'
               /\ hpc'[d] = "ended" => d \in closed'
    BY <1>3 DEF IInv, TypeOK, RegistryConsistent, Serving
  <1>4. RegistryConsistent'
    BY <1>3 DEF IInv, RegistryConsistent, tunVars, cleanupVars
  <1> QED
    BY <1>1, <1>2, <1>4 DEF IInv

LEMMA HandlerIInv == ASSUME IInv, NEW c \in Conns, Handler(c) PROVE IInv'
  <1> USE DEF IInv, TypeOK, HandlerStates, Serving
  <1>1. CASE HandshakeFail(c)
    BY <1>1, HandlerMoves DEF HandshakeFail, registry
  <1>2. CASE HandshakeDone(c)
    BY <1>2, HandlerMoves DEF HandshakeDone, registry
  <1>3. CASE Register(c)
    <2>1. TypeOK' /\ LockOwned'
      BY <1>3 DEF Register, LockOwned, tunVars, cleanupVars
    <2>2. tunTodo \cup cleanupTodo = {} /\ victim = None
      BY <1>3 DEF Register, WriteLock, LockOwned
    <2>3. RegistryConsistent'
      BY <1>3, <2>2 DEF Register, RegistryConsistent, tunVars, cleanupVars
    <2> QED
      BY <2>1, <2>3
  <1>4. CASE LoopTop(c)
    BY <1>4, HandlerMoves DEF LoopTop, registry
  <1>5. CASE Receive(c)
    BY <1>5, HandlerMoves DEF Receive
  <1>6. CASE ReceiveFin(c)
    BY <1>6, HandlerMoves DEF ReceiveFin, registry
  <1>7. CASE FrameTooLarge(c)
    BY <1>7, HandlerMoves DEF FrameTooLarge, registry
  <1>8. CASE ReadTimeout(c)
    BY <1>8, HandlerMoves DEF ReadTimeout, registry
  <1>9. CASE ReadError(c)
    BY <1>9, HandlerMoves DEF ReadError, registry
  <1>10. CASE Deregister(c)
    <2>1. TypeOK' /\ LockOwned'
      BY <1>10 DEF Deregister, LockOwned, tunVars, cleanupVars
    <2>2. tunTodo \cup cleanupTodo = {} /\ victim = None
      BY <1>10 DEF Deregister, WriteLock, LockOwned
    <2>3. RegistryConsistent'
      BY <1>10, <2>2 DEF Deregister, RegistryConsistent, tunVars, cleanupVars
    <2> QED
      BY <2>1, <2>3
  <1> QED
    BY <1>1, <1>2, <1>3, <1>4, <1>5, <1>6, <1>7, <1>8, <1>9, <1>10 DEF Handler

\* Steps around the handlers: of clients, of the two accept loops and of time.
LEMMA OutsideIInv ==
  ASSUME IInv, NEW c \in Conns,
         Client(c) \/ Accept(c) \/ InboundAccept(c) \/ AcceptError \/ Ages(c) \/ SendToSession(c)
  PROVE  IInv'
  <1> USE DEF IInv, TypeOK, HandlerStates, Serving
  <1>1. CASE Connect(c)
    BY <1>1, HandlerMoves DEF Connect, registry
  <1>2. CASE Accept(c)
    BY <1>2, HandlerMoves DEF Accept, registry
  <1>3. CASE InboundAccept(c)
    BY <1>3, HandlerMoves DEF InboundAccept, registry
  <1>4. CASE Vanish(c) \/ AcceptError \/ Ages(c) \/ SendToSession(c)
    <2>1. UNCHANGED <<hpc, closed, connections, mu, tun, tunTodo, cleanup, cleanupTodo, victim>>
      BY <1>4 DEF Vanish, AcceptError, Ages, SendToSession, conn, registry, tunVars, cleanupVars
    <2> QED
      BY <2>1 DEF LockOwned, RegistryConsistent
  <1> QED
    BY <1>1, <1>2, <1>3, <1>4 DEF Client

\* A round of tunLoop starts with the registry as it is; while it lasts nobody can
\* have the write lock.
LEMMA TunIInv == ASSUME IInv, TunStep \/ TunRead PROVE IInv'
  <1> USE DEF IInv, TypeOK, HandlerStates, Serving, conn, registry, cleanupVars
  <1>1. CASE TunReadError
    BY <1>1 DEF TunReadError, LockOwned, RegistryConsistent
  <1>2. ASSUME NEW c \in Conns, TunWrite(c) PROVE IInv'
    BY <1>2 DEF TunWrite, LockOwned, RegistryConsistent
  <1>3. CASE TunDone
    BY <1>3 DEF TunDone, LockOwned, RegistryConsistent
  <1>4. CASE TunRead
    <2>1. mu = "free"
      BY <1>4 DEF TunRead, ReadLock, LockOwned
    <2> QED
      BY <1>4, <2>1 DEF TunRead, LockOwned, RegistryConsistent
  <1> QED
    BY <1>1, <1>2, <1>3, <1>4 DEF TunStep

LEMMA CleanupIInv == ASSUME IInv, CleanupStep PROVE IInv'
  <1> USE ConnsAssumption DEF IInv, TypeOK, HandlerStates, Serving, conn, registry, tunVars
  <1>1. CASE CleanupTick
    BY <1>1 DEF CleanupTick, LockOwned, RegistryConsistent
  <1>2. CASE CleanupLock
    <2>1. tunTodo = {} /\ victim = None /\ tun # "write"
      BY <1>2 DEF CleanupLock, WriteLock, LockOwned
    <2> QED
      BY <1>2, <2>1 DEF CleanupLock, LockOwned, RegistryConsistent
  <1>3. CASE CleanupDone
    BY <1>3 DEF CleanupDone, LockOwned, RegistryConsistent
  <1>4. ASSUME NEW c \in Conns, CleanupVisit(c) PROVE IInv'
    <2>1. TypeOK' /\ LockOwned'
      BY <1>4 DEF CleanupVisit, LockOwned
    <2>2. RegistryConsistent'
      BY <1>4 DEF CleanupVisit, RegistryConsistent
    <2> QED
      BY <2>1, <2>2
  <1>5. ASSUME NEW c \in Conns, CleanupClose(c) PROVE IInv'
    <2>1. cleanup = "close" /\ tunTodo = {} /\ c \notin cleanupTodo
      BY <1>5 DEF CleanupClose, LockOwned
    <2>2. TypeOK' /\ LockOwned'
      BY <1>5, <2>1 DEF CleanupClose, LockOwned
    <2>3. RegistryConsistent'
      BY <1>5, <2>1 DEF CleanupClose, RegistryConsistent
    <2> QED
      BY <2>2, <2>3
  <1> QED
    BY <1>1, <1>2, <1>3, <1>4, <1>5 DEF CleanupStep

\* Stop only ever closes.
LEMMA StopIInv == ASSUME IInv, StopCall \/ StopStep PROVE IInv'
  <1> USE DEF IInv, TypeOK, HandlerStates, Serving, LockOwned, RegistryConsistent,
              conn, registry, tunVars, cleanupVars
  <1>1. CASE StopCall \/ StopSnapshot \/ StopInbound
    BY <1>1 DEF StopCall, StopSnapshot, StopInbound
  <1>2. ASSUME NEW c \in Conns, StopClose(c) PROVE IInv'
    BY <1>2 DEF StopClose
  <1> QED
    BY <1>1, <1>2 DEF StopStep

LEMMA NextIInv == IInv /\ [Next]_vars => IInv'
  <1> SUFFICES ASSUME IInv, [Next]_vars PROVE IInv'
    OBVIOUS
  <1>1. CASE Next
    <2>1. CASE AcceptError
      <3>1. UNCHANGED <<hpc, closed, connections, mu, tun, tunTodo, cleanup, cleanupTodo, victim>>
        BY <2>1 DEF AcceptError, conn, registry, tunVars, cleanupVars
      <3> QED
        BY <3>1 DEF IInv, TypeOK, LockOwned, RegistryConsistent, Serving
    <2> QED
      BY <1>1, <2>1, HandlerIInv, OutsideIInv, TunIInv, CleanupIInv, StopIInv DEF Next
  <1>2. CASE UNCHANGED vars
    BY <1>2 DEF IInv, TypeOK, LockOwned, RegistryConsistent, Serving, vars, conn, registry,
                tunVars, cleanupVars
  <1> QED
    BY <1>1, <1>2

\* The inductive invariant holds in every reachable state.
THEOREM Invariant == Spec => []IInv
  BY InitIInv, NextIInv, PTL DEF Spec

\* The registry, the goroutines and the rounds of tunLoop and cleanupLoop agree,
\* whatever runs at the same time.
THEOREM Registry == Spec => []RegistryConsistent
  <1>1. IInv => RegistryConsistent
    BY DEF IInv
  <1> QED
    BY <1>1, Invariant, PTL

-----------------------------------------------------------------------------
\* There is no fourth transport, whose timeouts would be errors.
OneOfThree == transport \in {"tcp", "kcp", "udp"}

\* A closed connection stays closed and Stop is not taken back; only the steps of its own
\* goroutine make one leave.
LEMMA NextSessionsLast ==
    IInv /\ OneOfThree /\ SessionsLast /\ [Next]_vars => OneOfThree' /\ SessionsLast'
  <1> SUFFICES ASSUME IInv, OneOfThree, SessionsLast, [Next]_vars
               PROVE  OneOfThree' /\ SessionsLast'
    OBVIOUS
  <1> USE DEF StopClosed
  <1>1. transport' = transport /\ closed \subseteq closed' /\ (StopClosed => StopClosed')
    BY DEF Next, Client, Handler, TunStep, CleanupStep, StopStep, Connect, Vanish, HandshakeFail,
           HandshakeDone, Register, LoopTop, Receive, ReceiveFin, FrameTooLarge, ReadTimeout,
           ReadError, Deregister, Accept, InboundAccept, AcceptError, TunRead, TunReadError,
           TunWrite, TunDone, CleanupTick, CleanupLock, CleanupVisit, CleanupClose, CleanupDone,
           Ages, SendToSession, StopCall, StopSnapshot, StopClose, StopInbound, vars, conn,
           stopVars
  <1> SUFFICES ASSUME NEW c \in Conns, transport # "tcp", hpc'[c] = "deregister"
               PROVE  c \in closed' \/ StopClosed'
    BY <1>1 DEF OneOfThree, SessionsLast
  <1>2. CASE hpc[c] = "deregister"
    BY <1>1, <1>2 DEF SessionsLast
  <1>3. CASE hpc[c] # "deregister"
    <2>1. \/ \E d \in Conns : LoopTop(d) \/ ReceiveFin(d) \/ FrameTooLarge(d) \/ ReadTimeout(d)
                             \/ ReadError(d)
          \/ hpc'[c] # "deregister"
      BY <1>3
      DEF Next, Client, Handler, TunStep, CleanupStep, StopStep, Connect, Vanish, HandshakeFail,
          HandshakeDone, Register, Receive, Deregister, Accept, InboundAccept, AcceptError,
          TunRead, TunReadError, TunWrite, TunDone, CleanupTick, CleanupLock, CleanupVisit,
          CleanupClose, CleanupDone, Ages, SendToSession, StopCall, StopSnapshot, StopClose,
          StopInbound, vars, conn, IInv, TypeOK
    <2>2. PICK d \in Conns : LoopTop(d) \/ ReceiveFin(d) \/ FrameTooLarge(d) \/ ReadTimeout(d)
                            \/ ReadError(d)
      BY <2>1
    <2>3. d = c
      BY <1>3, <2>2
      DEF LoopTop, ReceiveFin, FrameTooLarge, ReadTimeout, ReadError, IInv, TypeOK
    <2> QED
      BY <1>1, <2>2, <2>3
      DEF OneOfThree, LoopTop, ReceiveFin, FrameTooLarge, ReadTimeout, ReadError, InboundClosed, stopVars,
          IInv, TypeOK
  <1> QED
    BY <1>2, <1>3

\* Over KCP and raw UDP a session is given up only when it is closed or the server stops.
THEOREM Lasting == Spec => []SessionsLast
  <1>1. Init => OneOfThree /\ SessionsLast
    BY DEF Init, OneOfThree, SessionsLast
  <1> QED
    BY <1>1, NextSessionsLast, Invariant, PTL DEF Spec

-----------------------------------------------------------------------------
\* While tunLoop or cleanupLoop is in its round nobody else registers a connection
\* or takes one out: cleanupLoop removes those that it closes and tunLoop none.
RoundsUndisturbed ==
    [][/\ tun = "write" => connections' = connections
       /\ cleanup = "close" => connections' \subseteq connections
                               /\ connections \ connections' \subseteq {victim}]_vars

\* Nobody but cleanupLoop itself changes the registry during its round, and nobody during
\* one of tunLoop.
THEOREM Exclusion == Spec => RoundsUndisturbed
  <1>1. ASSUME IInv, [Next]_vars
        PROVE  [/\ tun = "write" => connections' = connections
                /\ cleanup = "close" => connections' \subseteq connections
                                        /\ connections \ connections' \subseteq {victim}]_vars
    <2> DEFINE A == /\ tun = "write" => connections' = connections
                    /\ cleanup = "close" => connections' \subseteq connections
                                            /\ connections \ connections' \subseteq {victim}
    <2>1. ASSUME NEW c \in Conns, Register(c) \/ Deregister(c) PROVE A
      BY <1>1, <2>1 DEF Register, Deregister, WriteLock, IInv, LockOwned
    <2>2. ASSUME NEW c \in Conns, CleanupClose(c) PROVE A
      BY <1>1, <2>2, ConnsAssumption DEF CleanupClose, IInv, LockOwned
    <2>3. ASSUME connections' = connections PROVE A
      BY <2>3
    <2>4. ASSUME Next
          PROVE  \/ \E c \in Conns : Register(c) \/ Deregister(c) \/ CleanupClose(c)
                 \/ connections' = connections
      BY <2>4
      DEF Next, Client, Handler, TunStep, CleanupStep, StopStep, Connect, Vanish, HandshakeFail,
          HandshakeDone, LoopTop, Receive, ReceiveFin, FrameTooLarge, ReadTimeout, ReadError, Accept,
          InboundAccept, AcceptError, TunRead, TunReadError, TunWrite, TunDone, CleanupTick,
          CleanupLock, CleanupVisit, CleanupDone, Ages, SendToSession, StopCall, StopSnapshot,
          StopClose, StopInbound, registry
    <2> HIDE DEF A
    <2>5. ASSUME Next PROVE A
      <3>1. CASE \E c \in Conns : Register(c) \/ Deregister(c) \/ CleanupClose(c)
        <4>1. PICK c \in Conns : Register(c) \/ Deregister(c) \/ CleanupClose(c)
          BY <3>1
        <4> QED
          BY <2>1, <2>2, <4>1
      <3> QED
        BY <2>3, <2>4, <2>5, <3>1
    <2> QED
      BY <1>1, <2>5 DEF A
  <1>2. IInv /\ [Next]_vars =>
          [/\ tun = "write" => connections' = connections
           /\ cleanup = "close" => connections' \subseteq connections
                                   /\ connections \ connections' \subseteq {victim}]_vars
    BY <1>1
  <1> QED
    BY <1>2, Invariant, PTL DEF Spec, RoundsUndisturbed
=============================================================================
