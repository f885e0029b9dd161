----------------------- MODULE ClientLifecycle_proofs -----------------------
(***************************************************************************)
(* What the client says of itself is so whenever its lock is free, and the *)
(* packets that readLoop loses or damages are bounded by the reads it gave *)
(* up on: for any number of callers of Start and Stop.  And Start and Stop *)
(* implement the life cycle of Lifecycle.                                  *)
(***************************************************************************)
EXTENDS ClientLifecycle, TLAPS

TypeOK ==
    /\ mu \in Callers \cup {Free}
    /\ call \in [Callers -> {"idle", "start", "spawned", "stop"}]
    /\ connected \in BOOLEAN /\ handshakeDone \in BOOLEAN /\ routes \in BOOLEAN
    /\ conn \in {"none", "open", "closed"}
    /\ loop \in {"none", "top", "spawn", "read", "keepalive", "stats"}
    /\ reader \in {"none", "reading", "done"}
    /\ data \in {"none", "intact", "damaged"}
    /\ abandoned \in Nat /\ timeouts \in Nat
    /\ arrived \in Nat /\ processed \in Nat /\ damaged \in Nat /\ lost \in Nat
    /\ dropped \in Nat

\* Client.mu is with the caller that is in Start or Stop.
LockOwned == \A u \in Callers : call[u] # "idle" <=> mu = u

\* What the flags are when the lock is free and at each point of Start and Stop.
Connected == connected /\ handshakeDone /\ conn = "open"
Disconnected == ~connected /\ ~handshakeDone /\ ~routes

Phases ==
    /\ mu = Free => Connected \/ (Disconnected /\ conn # "open" /\ loop = "none")
    /\ \A u \in Callers :
         /\ call[u] = "start" => Disconnected /\ conn # "open" /\ loop = "none"
         /\ call[u] = "spawned" => Disconnected /\ conn = "open"
         /\ call[u] = "stop" => Connected

\* readLoop has a reader exactly while it waits for one, and a copy exactly while
\* it is about to count it.
LoopInv == (reader # "none" <=> loop = "read") /\ (data # "none" <=> loop = "stats")

IInv == TypeOK /\ LockOwned /\ Phases /\ LoopInv /\ ReadLossBounded

LEMMA InitIInv == Init => IInv
  <1> SUFFICES ASSUME Init PROVE IInv
    OBVIOUS
  <1>1. TypeOK
    BY DEF Init, TypeOK
  <1>2. LockOwned /\ Phases
    BY BoundsAssumption DEF Init, LockOwned, Phases, Connected, Disconnected
  <1>3. LoopInv /\ ReadLossBounded
    BY DEF Init, LoopInv, ReadLossBounded
  <1> QED
    BY <1>1, <1>2, <1>3 DEF IInv

-----------------------------------------------------------------------------
(* Start and Stop *)

LEMMA CallerIInv ==
    ASSUME IInv, NEW u \in Callers, StartCall(u) \/ StartStep(u) \/ StopCall(u) \/ StopFinish(u)
    PROVE  IInv'
  <1> USE BoundsAssumption DEF IInv, Connected, Disconnected
  <1>1. CASE StartCall(u)
    <2>1. TypeOK' /\ LockOwned'
      BY <1>1 DEF StartCall, TypeOK, LockOwned, loopVars, history
    <2>2. Phases'
      BY <1>1 DEF StartCall, TypeOK, LockOwned, Phases, loopVars
    <2>3. LoopInv' /\ ReadLossBounded'
      BY <1>1 DEF StartCall, LoopInv, ReadLossBounded, loopVars, history
    <2> QED
      BY <2>1, <2>2, <2>3
  <1>2. CASE StartFail(u)
    <2>1. TypeOK' /\ LockOwned'
      BY <1>2 DEF StartFail, TypeOK, LockOwned, loopVars, history
    <2>2. Phases'
      BY <1>2 DEF StartFail, TypeOK, LockOwned, Phases, loopVars
    <2>3. LoopInv' /\ ReadLossBounded'
      BY <1>2 DEF StartFail, LoopInv, ReadLossBounded, loopVars, history
    <2> QED
      BY <2>1, <2>2, <2>3
  <1>3. CASE StartSpawn(u)
    <2>1. TypeOK' /\ LockOwned'
      BY <1>3 DEF StartSpawn, TypeOK, LockOwned, history
    <2>2. Phases'
      BY <1>3 DEF StartSpawn, TypeOK, LockOwned, Phases
    <2>3. LoopInv' /\ ReadLossBounded'
      BY <1>3 DEF StartSpawn, TypeOK, Phases, LoopInv, ReadLossBounded, history
    <2> QED
      BY <2>1, <2>2, <2>3
  <1>4. CASE StartFinish(u)
    <2>1. TypeOK' /\ LockOwned'
      BY <1>4 DEF StartFinish, TypeOK, LockOwned, loopVars, history
    <2>2. Phases'
      BY <1>4 DEF StartFinish, TypeOK, LockOwned, Phases, loopVars
    <2>3. LoopInv' /\ ReadLossBounded'
      BY <1>4 DEF StartFinish, LoopInv, ReadLossBounded, loopVars, history
    <2> QED
      BY <2>1, <2>2, <2>3
  <1>5. CASE StopCall(u)
    <2>1. TypeOK' /\ LockOwned'
      BY <1>5 DEF StopCall, TypeOK, LockOwned, loopVars, history
    <2>2. Phases'
      BY <1>5 DEF StopCall, TypeOK, LockOwned, Phases, loopVars
    <2>3. LoopInv' /\ ReadLossBounded'
      BY <1>5 DEF StopCall, LoopInv, ReadLossBounded, loopVars, history
    <2> QED
      BY <2>1, <2>2, <2>3
  <1>6. CASE StopFinish(u)
    <2>1. TypeOK' /\ LockOwned'
      BY <1>6 DEF StopFinish, TypeOK, LockOwned, history
    <2>2. Phases'
      BY <1>6 DEF StopFinish, TypeOK, LockOwned, Phases
    <2>3. LoopInv' /\ ReadLossBounded'
      BY <1>6 DEF StopFinish, TypeOK, LoopInv, ReadLossBounded, history
    <2> QED
      BY <2>1, <2>2, <2>3
  <1> QED
    BY <1>1, <1>2, <1>3, <1>4, <1>5, <1>6 DEF StartStep

-----------------------------------------------------------------------------
(* readLoop and its readers *)

\* They leave the client's flags, its lock and the connection alone, and a loop
\* that has ended stays ended.
LEMMA LoopPhases ==
    ASSUME IInv, UNCHANGED <<mu, call, connected, handshakeDone, conn, routes>>,
           loop = "none" => loop' = "none"
    PROVE  LockOwned' /\ Phases'
  BY DEF IInv, LockOwned, Phases, Connected, Disconnected

LEMMA LoopIInv == ASSUME IInv, LoopStep PROVE IInv'
  <1> USE DEF IInv
  <1>1. UNCHANGED state /\ (loop = "none" => loop' = "none")
    BY DEF LoopStep, LoopSpawn, LoopTicker, LoopKeepAlive, LoopExit, LoopTimeout, LoopGot, LoopStats,
           LoopReadError
  <1>2. LockOwned' /\ Phases'
    BY <1>1, LoopPhases DEF state
  <1>3. TypeOK'
    BY <1>1
    DEF TypeOK, state, history, LoopStep, LoopSpawn, LoopTicker, LoopKeepAlive, LoopExit,
        LoopTimeout, LoopGot, LoopStats, LoopReadError
  <1>4. LoopInv'
    BY DEF TypeOK, LoopInv, LoopStep, LoopSpawn, LoopTicker, LoopKeepAlive, LoopExit,
           LoopTimeout, LoopGot, LoopStats, LoopReadError
  <1>5. ReadLossBounded'
    <2>1. CASE LoopSpawn \/ LoopTicker \/ LoopKeepAlive
      BY <2>1 DEF TypeOK, LoopInv, ReadLossBounded, LoopSpawn, LoopTicker, LoopKeepAlive, history
    <2>2. CASE LoopExit
      BY <2>2 DEF TypeOK, LoopInv, ReadLossBounded, LoopExit, Listening
    <2>3. CASE LoopTimeout
      BY <2>3 DEF TypeOK, LoopInv, ReadLossBounded, LoopTimeout
    <2>4. CASE LoopGot
      BY <2>4 DEF TypeOK, LoopInv, ReadLossBounded, LoopGot
    <2>5. CASE LoopStats
      BY <2>5 DEF TypeOK, LoopInv, ReadLossBounded, LoopStats
    <2>6. CASE LoopReadError
      BY <2>6 DEF TypeOK, LoopInv, ReadLossBounded, LoopReadError, history
    <2> QED
      BY <2>1, <2>2, <2>3, <2>4, <2>5, <2>6 DEF LoopStep
  <1> QED
    BY <1>2, <1>3, <1>4, <1>5

LEMMA SocketIInv == ASSUME IInv, Arrive \/ ArriveAbandoned \/ DeadlinePasses PROVE IInv'
  <1> USE DEF IInv
  <1>1. /\ UNCHANGED <<mu, call, connected, handshakeDone, conn, routes>>
        /\ UNCHANGED loop
    BY DEF Arrive, ArriveAbandoned, DeadlinePasses, state
  <1>2. LockOwned' /\ Phases'
    BY <1>1, LoopPhases
  <1>3. CASE Arrive
    BY <1>1, <1>2, <1>3 DEF Arrive, Listening, TypeOK, LoopInv, ReadLossBounded
  <1>4. CASE ArriveAbandoned
    BY <1>1, <1>2, <1>4 DEF ArriveAbandoned, TypeOK, LoopInv, ReadLossBounded
  <1>5. CASE DeadlinePasses
    BY <1>1, <1>2, <1>5 DEF DeadlinePasses, TypeOK, LoopInv, ReadLossBounded, history
  <1> QED
    BY <1>3, <1>4, <1>5

-----------------------------------------------------------------------------
LEMMA NextIInv == IInv /\ [Next]_vars => IInv'
  <1> SUFFICES ASSUME IInv, [Next]_vars PROVE IInv'
    OBVIOUS
  <1>1. CASE UNCHANGED <<state, loopVars, history>>
    BY <1>1
    DEF state, loopVars, history, IInv, TypeOK, LockOwned, Phases, Connected, Disconnected, LoopInv,
        ReadLossBounded
  <1>2. CASE BgTick \/ BgCheck \/ BgSend \/ BgEnd
    BY <1>1, <1>2 DEF BgTick, BgCheck, BgSend, BgEnd
  <1>3. CASE \E u \in Callers : StartCall(u) \/ StartStep(u) \/ StopCall(u) \/ StopFinish(u)
    BY <1>3, CallerIInv
  <1> QED
    BY <1>1, <1>2, <1>3, LoopIInv, SocketIInv DEF Next, vars

\* The inductive invariant holds in every reachable state.
THEOREM Invariant == Spec => []IInv
  BY InitIInv, NextIInv, PTL DEF Spec

\* Whatever starts and stops there were, failed ones too, a client whose lock is
\* free is connected, with an open connection and its handshake done, or has no
\* connection and no routes.
THEOREM Rest == Spec => []RestConsistent
  <1>1. IInv => RestConsistent
    BY DEF IInv, TypeOK, Phases, Connected, Disconnected, RestConsistent
  <1> QED
    BY <1>1, Invariant, PTL

\* Lost and damaged packets are bounded by the reads that were given up on.
THEOREM LossBounded == Spec => []ReadLossBounded
  <1>1. IInv => ReadLossBounded
    BY DEF IInv
  <1> QED
    BY <1>1, Invariant, PTL

-----------------------------------------------------------------------------
(* The life cycle *)

LEMMA RefineInit == Init => Abstract!Init
  BY DEF Init, Stage, Abstract!Init

\* The calls are the abstract moves.  Phases says that a client that is down has
\* neither a connection nor a readLoop, LockOwned that the caller has the lock.
LEMMA RefineCall ==
    ASSUME IInv, NEW u \in Callers, StartCall(u) \/ StartStep(u) \/ StopCall(u) \/ StopFinish(u)
    PROVE  Abstract!Next
  <1> USE BoundsAssumption DEF IInv, TypeOK, LockOwned, Phases, Connected, Disconnected, Stage,
          Abstract!Moves
  <1>1. CASE StartCall(u)
    <2>1. Abstract!Begin
      BY <1>1 DEF StartCall, loopVars, Abstract!Begin
    <2> QED
      BY <2>1 DEF Abstract!Next
  <1>2. CASE StartFail(u)
    <2>1. Abstract!Fail
      BY <1>2 DEF StartFail, loopVars, Abstract!Fail
    <2> QED
      BY <2>1 DEF Abstract!Next
  <1>3. CASE StartSpawn(u)
    <2>1. Abstract!Link
      BY <1>3 DEF StartSpawn, Abstract!Link
    <2> QED
      BY <2>1 DEF Abstract!Next
  <1>4. CASE StartFinish(u)
    <2>1. Abstract!Rise
      BY <1>4 DEF StartFinish, loopVars, Abstract!Rise
    <2> QED
      BY <2>1 DEF Abstract!Next
  <1>5. CASE StopCall(u)
    <2>1. Abstract!Halt
      BY <1>5 DEF StopCall, loopVars, Abstract!Halt
    <2> QED
      BY <2>1 DEF Abstract!Next
  <1>6. CASE StopFinish(u)
    <2>1. Abstract!Land
      BY <1>6 DEF StopFinish, Abstract!Land
    <2> QED
      BY <2>1 DEF Abstract!Next
  <1> QED
    BY <1>1, <1>2, <1>3, <1>4, <1>5, <1>6 DEF StartStep

\* Every other step leaves the client where it is; at most, readLoop ends.
LEMMA RefineRest ==
    ASSUME UNCHANGED <<mu, connected, conn, onceDone>>, loop = "none" => loop' = "none"
    PROVE  [Abstract!Next]_(Abstract!absVars)
  <1>1. Stage' = Stage
    BY DEF Stage
  <1>2. CASE (loop # "none") = (loop' # "none")
    BY <1>1, <1>2 DEF Abstract!absVars
  <1>3. CASE loop # "none" /\ loop' = "none"
    <2>1. Abstract!Deafen
      BY <1>1, <1>3 DEF Abstract!Deafen
    <2> QED
      BY <2>1 DEF Abstract!Next
  <1> QED
    BY <1>2, <1>3

LEMMA RefineStep == ASSUME IInv, [Next]_vars PROVE [Abstract!Next]_(Abstract!absVars)
  <1>1. CASE \E u \in Callers : StartCall(u) \/ StartStep(u) \/ StopCall(u) \/ StopFinish(u)
    BY <1>1, RefineCall
  <1>2. CASE LoopStep
    <2>1. UNCHANGED state /\ (loop = "none" => loop' = "none")
      BY <1>2 DEF LoopStep, LoopSpawn, LoopTicker, LoopKeepAlive, LoopExit, LoopTimeout, LoopGot,
                  LoopStats, LoopReadError
    <2> QED
      BY <2>1, RefineRest DEF state
  <1>3. CASE Arrive \/ ArriveAbandoned \/ DeadlinePasses
    <2>1. UNCHANGED <<mu, connected, conn, onceDone, loop>>
      BY <1>3 DEF Arrive, ArriveAbandoned, DeadlinePasses, state
    <2> QED
      BY <2>1, RefineRest
  <1>4. CASE BgTick \/ BgCheck \/ BgSend \/ BgEnd \/ UNCHANGED vars
    <2>1. UNCHANGED <<mu, connected, conn, onceDone, loop>>
      BY <1>4 DEF BgTick, BgCheck, BgSend, BgEnd, vars, state, loopVars
    <2> QED
      BY <2>1, RefineRest
  <1> QED
    BY <1>1, <1>2, <1>3, <1>4 DEF Next

\* However Start and Stop are called, and whatever readLoop and its readers do, the
\* client goes through the life cycle of Lifecycle, with one stop at most.
THEOREM Refinement == Spec => ImplementsLifecycle
  <1>1. IInv /\ [Next]_vars => [Abstract!Next]_(Abstract!absVars)
    BY RefineStep
  <1>2. Spec => Abstract!Init /\ [][Abstract!Next]_(Abstract!absVars)
    BY <1>1, RefineInit, Invariant, PTL DEF Spec
  <1> QED
    BY <1>2 DEF ImplementsLifecycle, Abstract!Spec
=============================================================================
