------------------------- MODULE VpnExports_proofs -------------------------
(***************************************************************************)
(* The four invariants of VpnExports for any number of starts, devices and *)
(* readers, and that StartVPN and StopVPN implement the life cycle of      *)
(* Lifecycle.                                                              *)
(***************************************************************************)
EXTENDS VpnExports, TLAPS

Ops ==
    {"idle", "device", "connect", "discard", "drop", "reader", "publish", "signal", "unsignal",
     "close", "unset", "await", "disconnect", "hung", "forget"}

ReaderPcs ==
    {"unborn", "wait", "ask", "top", "look", "take", "read", "have", "send", "ended"}

TypeOK ==
    /\ platform \in {"windows", "android"}
    /\ op \in Ops
    /\ isRunning \in BOOLEAN /\ isStopping \in BOOLEAN
    /\ stopChan \in {"nil", "open", "closed"}
    /\ tunDevice \in Nat /\ devices \in Nat
    /\ open \subseteq Nat \ {None}
    /\ client \in Nat /\ clients \in Nat
    /\ done \in Nat
    /\ reader \in [Readers -> [pc : ReaderPcs, dev : Nat]]
    /\ setTun \in [pc : {"idle", "assign", "setfd"}, dev : Nat]
    /\ writeTun \in {"idle", "ask", "send"}
    /\ onPacket \in {"idle", "write"}
    /\ fd \in Nat
    /\ overlapped \in BOOLEAN /\ torn \in BOOLEAN
    /\ crashed \in {"no", "reader", "settun", "writetun", "packet"}

\* Where StartVPN and StopVPN are, and what the globals they own are there.
Starting == op \in {"device", "connect", "discard", "drop", "reader", "publish"}
Stopping ==
    op \in {"signal", "unsignal", "close", "unset", "await", "disconnect", "hung", "forget"}
Running == op = "idle" /\ isRunning

Phase ==
    /\ isStopping <=> Stopping
    /\ Starting => ~isRunning
    /\ Stopping => isRunning
    /\ Starting => clients # 0
    /\ client = None <=> ~isRunning
    /\ connected = IF isRunning /\ op # "forget" THEN {client}
                   ELSE IF op \in {"reader", "publish"} THEN {clients} ELSE {}
    /\ stopChan = IF Running \/ op \in {"publish", "signal"} THEN "open"
                  ELSE IF op = "unsignal" THEN "closed" ELSE "nil"
    /\ done # None => Running \/ op \in {"publish", "signal", "unsignal", "close", "unset", "await"}

\* On Windows the reader is the one that StopVPN waits for; it has no business with
\* the client, and loses its device only while it is being waited for.
WindowsReader ==
    Windows => \A i \in Readers :
        /\ Live(i) => i = done /\ (tunDevice # None \/ op = "await")
        /\ reader[i].pc \notin {"wait", "ask", "look", "send"}

\* As long as SetTunFileDescriptor does not overlap, what is open is what the global
\* device reads from, or was replaced by it.
Owned ==
    /\ setTun.pc = "assign" => setTun.dev # None /\ (Windows \/ tunDevice = None)
    /\ ~overlapped =>
         /\ open \subseteq {Handle} \cup replaced
         /\ op \in {"unset", "drop"} => open \subseteq replaced
         /\ Windows => setTun.pc = "idle"
         /\ Windows /\ (op \in {"device", "await", "disconnect", "forget"}
                        \/ (op = "idle" /\ ~isRunning)) => tunDevice = None
    /\ op = "device" => Windows

\* Before the first teardown, what was looked at is still there when it is used.
Guarded ==
    ~torn =>
        /\ setTun.pc = "setfd" => tunDevice # None
        /\ onPacket = "write" => tunDevice # None
        /\ writeTun # "idle" => client # None
        /\ \A i \in Readers : Live(i) =>
             /\ Windows \/ reader[i].pc = "take" => tunDevice # None
             /\ ~Windows /\ reader[i].pc # "wait" => client # None

IInv == TypeOK /\ Phase /\ WindowsReader /\ Owned /\ Guarded /\ CrashNeedsTeardown

LEMMA InitIInv == Init => IInv
  <1> SUFFICES ASSUME Init PROVE IInv
    OBVIOUS
  <1>1. TypeOK
    BY DEF Init, TypeOK, Ops, ReaderPcs, At, None
  <1>2. Phase /\ Owned
    BY DEF Init, Phase, Starting, Stopping, Running, Owned, At, None
  <1>3. WindowsReader /\ Guarded /\ CrashNeedsTeardown
    BY DEF Init, WindowsReader, Guarded, CrashNeedsTeardown, Live, At
  <1> QED
    BY <1>1, <1>2, <1>3 DEF IInv

-----------------------------------------------------------------------------
(* StartVPN and StopVPN *)

Holder ==
    \/ StartCall \/ StartDevice \/ StartNoDevice \/ StartFail \/ StartDiscard \/ StartDrop
    \/ StartConnect \/ StartReader \/ StartPublish \/ StopCall \/ StopStep \/ StopHang

LEMMA HolderType == ASSUME IInv, Holder PROVE TypeOK'
  <1> USE DEF IInv, TypeOK, Ops, None
  <1>1. UNCHANGED outside
    BY DEF Holder, StartCall, StartDevice, StartNoDevice, StartFail, StartDiscard, StartDrop,
           StartConnect, StartReader, StartPublish, StopCall, StopStep, StopSignal, StopUnsignal,
           StopClose, StopUnset, StopAwait, StopDisconnect, StopHang, StopForget
  <1>2. reader' \in [Readers -> [pc : ReaderPcs, dev : Nat]] /\ done' \in Nat
    <2>1. CASE StartReader
      BY <2>1 DEF StartReader, readers, Unborn, At, Readers, ReaderPcs
    <2>2. CASE ~StartReader
      BY <2>2
      DEF Holder, StartCall, StartDevice, StartNoDevice, StartFail, StartDiscard, StartDrop,
          StartConnect, StartPublish, StopCall, StopStep, StopSignal, StopUnsignal, StopClose,
          StopUnset, StopAwait, StopDisconnect, StopHang, StopForget, readers
    <2> QED
      BY <2>1, <2>2
  <1>3. /\ op' \in Ops /\ stopChan' \in {"nil", "open", "closed"}
        /\ client' \in Nat /\ clients' \in Nat
    BY DEF Holder, StartCall, StartDevice, StartNoDevice, StartFail, StartDiscard, StartDrop,
           StartConnect, StartReader, StartPublish, StopCall, StopStep, StopSignal, StopUnsignal,
           StopClose, StopUnset, StopAwait, StopDisconnect, StopHang, StopForget, channels, clientVars
  <1>4. isRunning' \in BOOLEAN /\ isStopping' \in BOOLEAN /\ torn' \in BOOLEAN
    BY DEF Holder, StartCall, StartDevice, StartNoDevice, StartFail, StartDiscard, StartDrop,
           StartConnect, StartReader, StartPublish, StopCall, StopStep, StopSignal, StopUnsignal,
           StopClose, StopUnset, StopAwait, StopDisconnect, StopHang, StopForget, flags
  <1>5. tunDevice' \in Nat /\ devices' \in Nat
        /\ open' \in {open, open \cup {devices + 1}, open \ {Handle}}
    BY DEF Holder, StartCall, StartDevice, StartNoDevice, StartFail, StartDiscard, StartDrop,
           StartConnect, StartReader, StartPublish, StopCall, StopStep, StopSignal, StopUnsignal,
           StopClose, StopUnset, StopAwait, StopDisconnect, StopHang, StopForget, deviceVars
  <1> QED
    BY <1>1, <1>2, <1>3, <1>4, <1>5 DEF outside, hostVars, descriptors

LEMMA HolderPhase == ASSUME IInv, Holder PROVE Phase'
  BY BoundsAssumption
  DEF IInv, TypeOK, Phase, Starting, Stopping, Running, None, Ops,
      Holder, StartCall, StartDevice, StartNoDevice, StartFail, StartDiscard, StartDrop,
      StartConnect, StartReader, StartPublish, StopCall, StopStep, StopSignal, StopUnsignal,
      StopClose, StopUnset, StopAwait, StopDisconnect, StopHang, StopForget, flags, channels, deviceVars,
      clientVars, readers

\* Only StartReader starts a reader, when there is none, and only StopAwait lets go of it.
LEMMA HolderReader == ASSUME IInv, Holder PROVE WindowsReader'
  <1> USE DEF IInv, TypeOK, Phase, Running, WindowsReader, Live, None
  <1>1. CASE StartReader
    <2> SUFFICES ASSUME platform = "windows", NEW i \in Readers
                 PROVE  /\ Live(i)' => i = done' /\ (tunDevice' # None \/ op' = "await")
                        /\ reader'[i].pc \notin {"wait", "ask", "look", "send"}
      BY <1>1 DEF StartReader, outside, Windows
    <2>1. ~Live(i) /\ reader[i].pc \notin {"wait", "ask", "look", "send"}
      BY <1>1 DEF StartReader, Windows, Readers
    <2>2. CASE tunDevice # None
      <3>1. PICK j \in Unborn : reader' = [reader EXCEPT ![j] = At("top")] /\ done' = j
        BY <1>1, <2>2 DEF StartReader, Windows
      <3>2. tunDevice' = tunDevice
        BY <1>1 DEF StartReader, deviceVars
      <3> QED
        BY <2>1, <2>2, <3>1, <3>2 DEF Unborn, At
    <2>3. CASE tunDevice = None
      BY <1>1, <2>1, <2>3 DEF StartReader, readers
    <2> QED
      BY <2>2, <2>3
  <1>2. CASE StopAwait
    BY <1>2 DEF StopAwait, outside, deviceVars, Windows, Readers
  <1>3. CASE StartCall \/ StartDevice \/ StartNoDevice \/ StartFail \/ StartDiscard \/ StartDrop
    <2>1. done = None /\ UNCHANGED <<platform, reader>>
      BY <1>3
      DEF StartCall, StartDevice, StartNoDevice, StartFail, StartDiscard, StartDrop, readers, outside
    <2> QED
      BY <2>1 DEF Windows, Readers
  <1>4. CASE StartConnect \/ StartPublish \/ StopCall \/ StopSignal \/ StopUnsignal
    BY <1>4
    DEF StartConnect, StartPublish, StopCall, StopSignal, StopUnsignal, deviceVars, readers, outside,
        Windows, Readers
  <1>5. CASE StopClose \/ StopUnset \/ StopDisconnect \/ StopHang \/ StopForget
    BY <1>5
    DEF StopClose, StopUnset, StopDisconnect, StopHang, StopForget, deviceVars, readers, outside,
        Windows, Readers
  <1> QED
    BY <1>1, <1>2, <1>3, <1>4, <1>5 DEF Holder, StopStep

LEMMA HolderOwned == ASSUME IInv, Holder PROVE Owned'
  <1> USE DEF IInv, TypeOK, Phase, Starting, Stopping, Owned, Handle, None
  <1>1. CASE StartCall \/ StartNoDevice \/ StartFail \/ StartConnect \/ StartReader
             \/ StartPublish
    BY <1>1
    DEF StartCall, StartNoDevice, StartFail, StartConnect, StartReader, StartPublish,
        deviceVars, outside, hostVars, descriptors, flags, Windows
  <1>2. CASE StartDevice
    BY <1>2 DEF StartDevice, outside, hostVars, descriptors, flags, Windows
  <1>3. CASE StartDiscard \/ StartDrop
    BY <1>3 DEF StartDiscard, StartDrop, outside, hostVars, descriptors, flags, Windows
  <1>4. CASE StopCall \/ StopSignal \/ StopUnsignal \/ StopAwait \/ StopDisconnect
             \/ StopHang \/ StopForget
    BY <1>4
    DEF StopCall, StopSignal, StopUnsignal, StopAwait, StopDisconnect, StopHang, StopForget,
        deviceVars, outside, hostVars, descriptors, flags, Windows
  <1>5. CASE StopClose \/ StopUnset
    BY <1>5 DEF StopClose, StopUnset, outside, hostVars, descriptors, flags, Windows
  <1> QED
    BY <1>1, <1>2, <1>3, <1>4, <1>5 DEF Holder, StopStep

\* A global goes away only with a teardown.
LEMMA HolderGuarded == ASSUME IInv, Holder PROVE Guarded' /\ CrashNeedsTeardown'
  <1> USE DEF IInv, TypeOK, Guarded, CrashNeedsTeardown, None
  <1>1. crashed = "no" /\ UNCHANGED outside
    BY DEF Holder, StartCall, StartDevice, StartNoDevice, StartFail, StartDiscard, StartDrop,
           StartConnect, StartReader, StartPublish, StopCall, StopStep, StopSignal, StopUnsignal,
           StopClose, StopUnset, StopAwait, StopDisconnect, StopHang, StopForget, Alive
  <1>2. CrashNeedsTeardown'
    BY <1>1 DEF outside
  <1>3. CASE StartReader
    <2>1. ASSUME NEW i \in Readers, Live(i)'
          PROVE  reader'[i] = reader[i] \/ (Windows /\ tunDevice # None)
      BY <1>3, <2>1 DEF StartReader, readers, Unborn, At
    <2>2. ASSUME NEW i \in Readers, Live(i)', ~torn
          PROVE  /\ Windows \/ reader'[i].pc = "take" => tunDevice # None
                 /\ ~Windows /\ reader'[i].pc # "wait" => client # None
      BY <2>1, <2>2 DEF Live
    <2>3. UNCHANGED <<tunDevice, client, torn, platform, setTun, onPacket, writeTun>>
      BY <1>3, <1>1 DEF StartReader, deviceVars, clientVars, outside, hostVars, descriptors
    <2> QED
      BY <1>2, <2>2, <2>3 DEF Windows
  <1>4. CASE Holder /\ ~StartReader
    <2>1. UNCHANGED reader
      BY <1>4
      DEF Holder, StartCall, StartDevice, StartNoDevice, StartFail, StartDiscard, StartDrop,
          StartConnect, StartPublish, StopCall, StopStep, StopSignal, StopUnsignal, StopClose,
          StopUnset, StopAwait, StopDisconnect, StopHang, StopForget, readers
    <2>2. ~torn' => /\ ~torn
                    /\ tunDevice # None => tunDevice' # None
                    /\ client # None => client' # None
      BY <1>4
      DEF Holder, StartCall, StartDevice, StartNoDevice, StartFail, StartDiscard, StartDrop,
          StartConnect, StartPublish, StopCall, StopStep, StopSignal, StopUnsignal, StopClose,
          StopUnset, StopAwait, StopDisconnect, StopHang, StopForget, deviceVars, clientVars, Phase, Starting
    <2> QED
      BY <1>1, <1>2, <2>1, <2>2 DEF outside, hostVars, descriptors, Windows, Live
  <1> QED
    BY <1>3, <1>4

-----------------------------------------------------------------------------
(* The readers *)

LEMMA ReaderIInv ==
    ASSUME IInv, NEW i \in Readers,
           ReaderWait(i) \/ ReaderGiveUp(i) \/ ReaderGot(i) \/ ReaderRuns(i)
    PROVE  IInv'
  <1>1. UNCHANGED <<deviceVars, platform, lockVars, hostVars, torn>> /\ crashed = "no"
    BY DEF ReaderWait, ReaderGiveUp, ReaderGot, ReaderRuns, ReaderAsk, ReaderTop, ReaderLook,
           ReaderTake, ReaderError, ReaderHave, ReaderSend, ReaderOnly, Alive
  <1>2. Phase' /\ Owned'
    BY <1>1
    DEF IInv, Phase, Starting, Stopping, Running, Owned, Handle, deviceVars, lockVars, flags, channels,
        clientVars, hostVars, descriptors, Windows
  <1>3. CASE UNCHANGED crashed
    <2>1. PICK r \in [pc : ReaderPcs, dev : Nat] :
             /\ reader' = [reader EXCEPT ![i] = r]
             /\ Windows => r.pc \in {"top", "take", "read", "have", "ended"}
             /\ ~Windows /\ r.pc = "take" => tunDevice # None
             /\ ~Windows /\ reader[i].pc = "wait" /\ r.pc \notin {"wait", "ended"} => client # None
      <3> DEFINE OK(r) == /\ r \in [pc : ReaderPcs, dev : Nat]
                          /\ reader' = [reader EXCEPT ![i] = r]
                          /\ Windows => r.pc \in {"top", "take", "read", "have", "ended"}
                          /\ ~Windows /\ r.pc = "take" => tunDevice # None
                          /\ ~Windows /\ reader[i].pc = "wait" /\ r.pc \notin {"wait", "ended"}
                               => client # None
      <3>1. ASSUME NEW pc \in ReaderPcs, Moves(i, pc)
            PROVE  LET r == [reader[i] EXCEPT !.pc = pc]
                   IN  /\ r \in [pc : ReaderPcs, dev : Nat] /\ r.pc = pc
                       /\ reader' = [reader EXCEPT ![i] = r]
        BY <3>1 DEF Moves, IInv, TypeOK
      <3>2. CASE ReaderTake(i)
        <4>1. OK([pc |-> "read", dev |-> Handle])
          BY <1>3, <3>2 DEF ReaderTake, ReaderPcs, Crash, Alive, IInv, TypeOK, Handle
        <4> QED
          BY <4>1
      <3>3. CASE ReaderGot(i) \/ ReaderError(i)
        <4>1. PICK pc \in {"top", "have", "ended"} : reader' = [reader EXCEPT ![i] = At(pc)]
          BY <3>3 DEF ReaderGot, ReaderError
        <4>2. OK(At(pc))
          BY <3>3, <4>1 DEF ReaderGot, ReaderError, At, ReaderPcs, None
        <4> QED
          BY <4>2
      <3>4. CASE ReaderWait(i) \/ ReaderGiveUp(i)
        <4>1. PICK pc \in {"ask", "ended"} : Moves(i, pc) /\ (pc = "ask" => client # None)
          BY <3>4 DEF ReaderWait, ReaderGiveUp
        <4>2. reader[i].pc = "wait" /\ ~Windows
          BY <3>4 DEF ReaderWait, ReaderGiveUp, IInv, WindowsReader
        <4>3. OK([reader[i] EXCEPT !.pc = pc])
          BY <3>1, <4>1, <4>2 DEF ReaderPcs
        <4> QED
          BY <4>3
      <3>5. CASE ReaderAsk(i) \/ ReaderTop(i) \/ ReaderLook(i) \/ ReaderHave(i) \/ ReaderSend(i)
        <4>1. PICK pc \in {"top", "wait", "ended", "take", "look", "send"} :
                /\ Moves(i, pc)
                /\ Windows => pc \in {"top", "take", "ended"}
                /\ ~Windows /\ pc = "take" => tunDevice # None
          BY <1>3, <3>5
          DEF ReaderAsk, ReaderTop, ReaderLook, ReaderHave, ReaderSend, Crash, Alive, IInv,
              WindowsReader
        <4>2. reader[i].pc # "wait"
          BY <3>5 DEF ReaderAsk, ReaderTop, ReaderLook, ReaderHave, ReaderSend
        <4>3. OK([reader[i] EXCEPT !.pc = pc])
          BY <3>1, <4>1, <4>2 DEF ReaderPcs
        <4> QED
          BY <4>3
      <3> QED
        BY <3>2, <3>3, <3>4, <3>5 DEF ReaderRuns
    <2>2. Live(i)
      BY DEF Live, ReaderWait, ReaderGiveUp, ReaderGot, ReaderRuns, ReaderAsk, ReaderTop, ReaderLook,
             ReaderTake, ReaderError, ReaderHave, ReaderSend
    <2>3. TypeOK'
      BY <1>1, <1>3, <2>1
      DEF IInv, TypeOK, deviceVars, lockVars, flags, channels, clientVars, hostVars, descriptors
    <2>4. WindowsReader'
      BY <1>1, <2>1, <2>2
      DEF IInv, TypeOK, WindowsReader, Live, Windows, deviceVars, lockVars
    <2>5. Guarded'
      BY <1>1, <2>1, <2>2
      DEF IInv, TypeOK, Guarded, Live, Windows, deviceVars, lockVars, clientVars, hostVars, descriptors
    <2>6. CrashNeedsTeardown'
      BY <1>1, <1>3 DEF CrashNeedsTeardown
    <2> QED
      BY <1>2, <2>3, <2>4, <2>5, <2>6 DEF IInv
  <1>4. CASE ~UNCHANGED crashed
    <2>1. crashed' = "reader" /\ UNCHANGED reader
      BY <1>4 DEF ReaderWait, ReaderGiveUp, ReaderGot, ReaderRuns, ReaderAsk, ReaderTop, ReaderLook,
                  ReaderTake, ReaderError, ReaderHave, ReaderSend, Crash
    <2>2. \/ reader[i].pc = "take" /\ tunDevice = None
          \/ ~Windows /\ reader[i].pc \in {"ask", "have", "send"} /\ client = None
      BY <1>4
      DEF ReaderWait, ReaderGiveUp, ReaderGot, ReaderRuns, ReaderAsk, ReaderTop, ReaderLook,
          ReaderTake, ReaderError, ReaderHave, ReaderSend, IInv, WindowsReader
    <2>3. torn /\ (Windows => op = "await")
      BY <2>2 DEF IInv, TypeOK, Guarded, WindowsReader, Live
    <2> QED
      BY <1>1, <1>2, <2>1, <2>3
      DEF IInv, TypeOK, WindowsReader, Guarded, CrashNeedsTeardown, Live, Windows, deviceVars,
          lockVars, flags, channels, clientVars, hostVars, descriptors
  <1> QED
    BY <1>3, <1>4

-----------------------------------------------------------------------------
(* SetTunFileDescriptor, WriteTUN and the callback *)

LEMMA SetTunIInv ==
    ASSUME IInv, SetTunLook \/ SetTunAssign \/ SetTunFD PROVE IInv'
  <1>1. UNCHANGED <<platform, lockVars, writeTun, onPacket, torn>> /\ crashed = "no"
    BY DEF SetTunLook, SetTunAssign, SetTunFD, Alive
  <1>2. Phase'
    BY <1>1 DEF IInv, Phase, Starting, Stopping, Running, lockVars, flags, channels, clientVars
  <1>3. /\ tunDevice \in Nat /\ devices \in Nat /\ open \subseteq Nat \ {0}
        /\ reader \in [Readers -> [pc : ReaderPcs, dev : Nat]]
        /\ setTun \in [pc : {"idle", "assign", "setfd"}, dev : Nat]
        /\ overlapped \in BOOLEAN /\ fd \in Nat
    BY DEF IInv, TypeOK, None
  <1>4. ASSUME tunDevice' \in Nat, devices' \in Nat, open' \subseteq Nat \ {0},
               reader' \in [Readers -> [pc : ReaderPcs, dev : Nat]],
               setTun' \in [pc : {"idle", "assign", "setfd"}, dev : Nat],
               fd' \in Nat, overlapped' \in BOOLEAN, crashed' \in {"no", "settun"}
        PROVE  TypeOK'
    BY <1>1, <1>4 DEF IInv, TypeOK, None, lockVars, flags, channels, clientVars
  <1>5. CASE SetTunLook
    <2>1. /\ overlapped' \in BOOLEAN /\ (overlapped' <=> overlapped \/ Windows)
          /\ UNCHANGED <<tunDevice, fd, replaced, reader, crashed>>
      BY <1>5 DEF SetTunLook, descriptors
    <2>2. CASE tunDevice # None
      <3>1. setTun' = [pc |-> "setfd", dev |-> 0] /\ UNCHANGED <<devices, open>>
        BY <1>5, <2>2 DEF SetTunLook, None
      <3>2. TypeOK'
        BY <1>1, <1>3, <1>4, <2>1, <3>1
      <3>3. Owned'
        BY <1>1, <2>1, <3>1 DEF IInv, Owned, Handle, lockVars, flags, Windows
      <3>4. WindowsReader' /\ Guarded' /\ CrashNeedsTeardown'
        BY <1>1, <2>1, <2>2, <3>1
        DEF IInv, WindowsReader, Guarded, CrashNeedsTeardown, Live, Windows, lockVars, clientVars
      <3> QED
        BY <1>2, <3>2, <3>3, <3>4 DEF IInv
    <2>3. CASE tunDevice = None
      <3>1. /\ devices' = devices + 1
            /\ open' = IF Windows THEN open \cup {devices + 1} ELSE open
            /\ setTun' = [pc |-> "assign", dev |-> devices + 1]
        BY <1>5, <2>3 DEF SetTunLook
      <3>2. open' \subseteq Nat \ {0}
        BY <1>3, <3>1
      <3>3. TypeOK'
        BY <1>1, <1>3, <1>4, <2>1, <3>1, <3>2
      <3>4. Owned'
        BY <1>1, <1>3, <2>1, <2>3, <3>1 DEF IInv, Owned, Handle, None, lockVars, flags, Windows
      <3>5. WindowsReader' /\ Guarded' /\ CrashNeedsTeardown'
        BY <1>1, <2>1, <3>1
        DEF IInv, WindowsReader, Guarded, CrashNeedsTeardown, Live, Windows, lockVars, clientVars
      <3> QED
        BY <1>2, <3>3, <3>4, <3>5 DEF IInv
    <2> QED
      BY <2>2, <2>3
  <1>6. CASE SetTunAssign
    <2>1. /\ setTun.pc = "assign" /\ tunDevice' = setTun.dev
          /\ setTun' = [pc |-> "setfd", dev |-> 0]
          /\ fd' = 0 /\ UNCHANGED <<open, devices, reader, replaced, overlapped, crashed>>
      BY <1>6 DEF SetTunAssign, At, None
    <2>2. TypeOK'
      BY <1>1, <1>3, <1>4, <2>1
    <2>3. Owned'
      BY <1>1, <1>3, <2>1 DEF IInv, Owned, Handle, None, lockVars, flags, Windows
    <2>4. WindowsReader' /\ Guarded' /\ CrashNeedsTeardown'
      BY <1>1, <2>1
      DEF IInv, Owned, Handle, WindowsReader, Guarded, CrashNeedsTeardown, Live, Windows, lockVars, clientVars
    <2> QED
      BY <1>2, <2>2, <2>3, <2>4 DEF IInv
  <1>7. CASE SetTunFD
    <2>1. /\ setTun.pc = "setfd" /\ setTun' = [pc |-> "idle", dev |-> 0]
          /\ overlapped' \in BOOLEAN /\ (overlapped' <=> overlapped \/ op # "idle")
          /\ UNCHANGED <<tunDevice, devices>>
      BY <1>7 DEF SetTunFD, At, None
    <2>2. \/ UNCHANGED <<open, fd, replaced, reader, crashed>>
          \/ /\ ~Windows /\ tunDevice = None /\ crashed' = "settun"
             /\ UNCHANGED <<open, fd, replaced, reader>>
          \/ /\ ~Windows /\ tunDevice # None /\ replaced' = replaced \cup (open \cap {fd})
             /\ \E i \in Readers : /\ fd' = i /\ open' = open \cup {i}
                                   /\ reader' = [reader EXCEPT ![i] = At("wait")]
             /\ UNCHANGED crashed
      BY <1>7 DEF SetTunFD, Crash, Unborn, descriptors
    <2>3. CASE UNCHANGED <<open, fd, replaced, reader>>
      <3>1. TypeOK'
        <4>1. open' \subseteq Nat \ {0} /\ fd' \in Nat
          BY <1>3, <2>3
        <4> QED
          BY <1>1, <1>3, <1>4, <2>1, <2>2, <2>3, <4>1
      <3>2. Owned'
        BY <1>1, <2>1, <2>2 DEF IInv, Owned, Handle, lockVars, flags, Windows
      <3>3. WindowsReader' /\ Guarded'
        BY <1>1, <2>1, <2>3
        DEF IInv, WindowsReader, Guarded, Live, Windows, lockVars, clientVars
      <3>4. CrashNeedsTeardown'
        BY <1>1, <2>1, <2>2 DEF IInv, Guarded, CrashNeedsTeardown
      <3> QED
        BY <1>2, <3>1, <3>2, <3>3, <3>4 DEF IInv
    <2>4. CASE ~UNCHANGED <<open, fd, replaced, reader>>
      <3>1. PICK i \in Readers : /\ fd' = i /\ open' = open \cup {i}
                                /\ reader' = [reader EXCEPT ![i] = [pc |-> "wait", dev |-> 0]]
        BY <2>2, <2>4 DEF At, None
      <3>2. /\ ~Windows /\ tunDevice # None /\ replaced' = replaced \cup (open \cap {fd})
            /\ UNCHANGED crashed
        BY <2>2, <2>4
      <3>i. i \in Nat \ {0}
        BY DEF Readers
      <3>3. TypeOK'
        <4>1. open' \subseteq Nat \ {0} /\ fd' \in Nat
          BY <1>3, <3>1, <3>i
        <4>2. reader' \in [Readers -> [pc : ReaderPcs, dev : Nat]]
          BY <1>3, <3>1 DEF ReaderPcs
        <4> QED
          BY <1>1, <1>3, <1>4, <2>1, <3>2, <4>1, <4>2
      <3>4. Owned'
        BY <1>1, <2>1, <3>1, <3>2 DEF IInv, Owned, Handle, lockVars, flags, Windows
      <3>5. WindowsReader'
        BY <1>1, <3>2 DEF WindowsReader, Windows
      <3>6. Guarded'
        BY <1>1, <1>3, <2>1, <3>1, <3>2 DEF IInv, Guarded, Live, Windows, lockVars, clientVars
      <3>7. CrashNeedsTeardown'
        BY <1>1, <3>2 DEF CrashNeedsTeardown
      <3> QED
        BY <1>2, <3>3, <3>4, <3>5, <3>6, <3>7 DEF IInv
    <2> QED
      BY <2>3, <2>4
  <1> QED
    BY <1>5, <1>6, <1>7

LEMMA AppIInv ==
    ASSUME IInv, WriteLook \/ WriteCall \/ PacketLook \/ PacketWrite PROVE IInv'
  <1>1. UNCHANGED <<deviceVars, platform, lockVars, reader, setTun, overlapped, fd, replaced, torn>>
    BY DEF WriteLook, WriteCall, PacketLook, PacketWrite, descriptors
  <1>2. Phase' /\ WindowsReader' /\ Owned'
    BY <1>1
    DEF IInv, Phase, Starting, Stopping, Running, WindowsReader, Live, Owned, Handle, Windows, deviceVars,
        lockVars, flags, channels, clientVars
  <1>3. TypeOK'
    BY <1>1
    DEF IInv, TypeOK, WriteLook, WriteCall, PacketLook, PacketWrite, Crash, deviceVars, lockVars,
        flags, channels, clientVars
  <1>4. Guarded' /\ CrashNeedsTeardown'
    BY <1>1
    DEF IInv, TypeOK, WriteLook, WriteCall, PacketLook, PacketWrite, Crash, Alive, Guarded,
        CrashNeedsTeardown, Live, Windows, deviceVars, lockVars, clientVars
  <1> QED
    BY <1>2, <1>3, <1>4 DEF IInv

-----------------------------------------------------------------------------
(* The theorems *)

LEMMA NextIInv == IInv /\ [Next]_vars => IInv'
  <1> SUFFICES ASSUME IInv, [Next]_vars PROVE IInv'
    OBVIOUS
  <1>1. CASE Holder
    BY <1>1, HolderType, HolderPhase, HolderReader, HolderOwned, HolderGuarded DEF IInv
  <1>2. ASSUME NEW i \in Readers,
               ReaderWait(i) \/ ReaderGiveUp(i) \/ ReaderGot(i) \/ ReaderRuns(i)
        PROVE  IInv'
    BY <1>2, ReaderIInv
  <1>3. CASE UNCHANGED vars
    BY <1>3
    DEF IInv, TypeOK, Phase, Starting, Stopping, Running, WindowsReader, Live, Owned, Handle, Guarded,
        CrashNeedsTeardown, Windows, vars, outside, hostVars, descriptors, deviceVars, lockVars, flags, channels,
        clientVars
  <1> QED
    BY <1>1, <1>2, <1>3, SetTunIInv, AppIInv DEF Next, Holder

\* The inductive invariant holds in every reachable state.
THEOREM Invariant == Spec => []IInv
  BY InitIInv, NextIInv, PTL DEF Spec

\* Whoever gets clientMutex finds no stop under way and globals that agree.
THEOREM Rest == Spec => []AtRest
  <1>1. IInv => AtRest
    BY DEF IInv, TypeOK, Phase, Starting, Stopping, Running, AtRest
  <1> QED
    BY <1>1, Invariant, PTL

\* On Windows two readers never share a device, and none outlives its VPN.
THEOREM OneReader == Spec => []ReadersAwaited
  <1>1. IInv => ReadersAwaited
    BY DEF IInv, TypeOK, Phase, Starting, Stopping, Running, WindowsReader, ReadersAwaited, Readers,
           None
  <1> QED
    BY <1>1, Invariant, PTL

\* What is open is what the global device reads from, or a descriptor that a second
\* SetTunFileDescriptor replaced, as long as no such call overlaps a start or a stop.
THEOREM NoDeviceLeaks == Spec => []DevicesOwned
  <1>1. IInv => DevicesOwned
    BY DEF IInv, Owned, Handle, DevicesOwned
  <1> QED
    BY <1>1, Invariant, PTL

\* A call through a nil pointer needs a teardown, and on Windows a reader meets one
\* only while StopVPN waits for it.
THEOREM CrashesOnlyAfterTeardown == Spec => []CrashNeedsTeardown
  <1>1. IInv => CrashNeedsTeardown
    BY DEF IInv
  <1> QED
    BY <1>1, Invariant, PTL

-----------------------------------------------------------------------------
(* The life cycle *)

Reading == Windows /\ \E i \in Readers : Live(i)

\* Where the VPN is, read off the mutex, the flags and the client's connection.
Stage ==
    IF op = "idle" THEN IF isRunning THEN "up" ELSE "down"
    ELSE IF isStopping THEN "falling"
    ELSE IF connected # {} THEN "linked" ELSE "rising"

Abstract == INSTANCE Lifecycle WITH
    Once <- FALSE,
    stage <- Stage,
    reading <- Reading,
    spent <- FALSE

\* Whatever the app and the readers do with the globals meanwhile, the VPN goes through
\* the life cycle of Lifecycle: only a start that has not connected fails, on Windows
\* the reader is started on a connection that stands and is gone when StopVPN
\* returns, and there may be any number of stops.
ImplementsLifecycle == Abstract!Spec

LEMMA RefineInit == Init => Abstract!Init
  <1> SUFFICES ASSUME Init PROVE Abstract!Init
    OBVIOUS
  <1>1. Stage = "down"
    BY DEF Init, Stage
  <1>2. ~Reading
    BY DEF Init, Reading, Live, At
  <1> QED
    BY <1>1, <1>2 DEF Abstract!Init, Reading

\* A step that leaves the stage and the reader alone, or ends the reader.
LEMMA RefineStutter ==
    ASSUME Stage' = Stage, Reading' => Reading
    PROVE  [Abstract!Next]_(Abstract!absVars)
  <1>1. CASE Reading' = Reading
    BY <1>1 DEF Abstract!absVars, Reading
  <1>2. CASE Reading /\ ~Reading'
    <2>1. Abstract!Deafen
      BY <1>2 DEF Abstract!Deafen, Reading
    <2> QED
      BY <2>1 DEF Abstract!Next
  <1> QED
    BY <1>1, <1>2 DEF Reading

\* The steps with the mutex.  Those within a start or a stop are not seen, but for the
\* connection and the reader.  No reader is left when StopVPN is past "await".
LEMMA RefineHolder == ASSUME IInv, Holder PROVE [Abstract!Next]_(Abstract!absVars)
  <1> USE DEF IInv, TypeOK, Phase, Starting, Stopping, Running, None
  <1>1. CASE StartReader
    <2>1. Stage = "linked" /\ Stage' = "linked"
      BY <1>1 DEF StartReader, Stage, flags, clientVars
    <2>2. CASE Reading' => Reading
      BY <2>1, <2>2, RefineStutter
    <2>3. CASE Reading' /\ ~Reading
      <3>1. Abstract!Listen
        BY <2>1, <2>3 DEF Abstract!Listen, Reading
      <3> QED
        BY <3>1 DEF Abstract!Next
    <2> QED
      BY <2>2, <2>3
  <1>2. CASE Holder /\ ~StartReader
    <2>1. UNCHANGED <<platform, reader>>
      BY <1>2
      DEF Holder, StartCall, StartDevice, StartNoDevice, StartFail, StartDiscard, StartDrop,
          StartConnect, StartPublish, StopCall, StopStep, StopSignal, StopUnsignal, StopClose,
          StopUnset, StopAwait, StopDisconnect, StopHang, StopForget, readers, outside
    <2>2. UNCHANGED Reading
      BY <2>1 DEF Reading, Live, Windows
    <2>3. CASE StartCall
      <3>1. Abstract!Begin
        BY <2>2, <2>3 DEF StartCall, Stage, flags, Reading, Abstract!Begin, Abstract!Moves
      <3> QED
        BY <3>1 DEF Abstract!Next
    <2>4. CASE StartDevice \/ StartFail \/ StartDrop
      <3>1. Stage' = Stage
        BY <2>4 DEF StartDevice, StartFail, StartDrop, Stage, flags, clientVars
      <3> QED
        BY <2>2, <3>1, RefineStutter
    <2>5. CASE StartNoDevice
      <3>1. Abstract!Fail
        BY <2>2, <2>5
        DEF StartNoDevice, Stage, flags, Reading, clientVars, Abstract!Fail, Abstract!Moves
      <3> QED
        BY <3>1 DEF Abstract!Next
    <2>6. CASE StartDiscard /\ tunDevice # None
      <3>1. Stage' = Stage
        BY <2>6 DEF StartDiscard, Stage, flags, clientVars
      <3> QED
        BY <2>2, <3>1, RefineStutter
    <2>7. CASE StartDiscard /\ tunDevice = None
      <3>1. Abstract!Fail
        BY <2>2, <2>7
        DEF StartDiscard, Stage, flags, Reading, clientVars, Abstract!Fail, Abstract!Moves
      <3> QED
        BY <3>1 DEF Abstract!Next
    <2>8. CASE StartConnect
      <3>1. Abstract!Link
        BY <2>2, <2>8 DEF StartConnect, Stage, flags, Reading, Abstract!Link, Abstract!Moves
      <3> QED
        BY <3>1 DEF Abstract!Next
    <2>9. CASE StartPublish
      <3>1. Abstract!Rise
        BY <2>2, <2>9 DEF StartPublish, Stage, Reading, Abstract!Rise, Abstract!Moves
      <3> QED
        BY <3>1 DEF Abstract!Next
    <2>10. CASE StopCall
      <3>1. Abstract!Halt
        BY <2>2, <2>10 DEF StopCall, Stage, Reading, Abstract!Halt, Abstract!Moves
      <3> QED
        BY <3>1 DEF Abstract!Next
    <2>11. CASE (StopStep \/ StopHang) /\ ~StopForget
      <3>1. Stage' = Stage
        BY <2>11
        DEF StopStep, StopSignal, StopUnsignal, StopClose, StopUnset, StopAwait, StopDisconnect,
            StopHang, Stage, flags
      <3> QED
        BY <2>2, <3>1, RefineStutter
    <2>12. CASE StopForget
      <3>1. ~Reading
        BY <2>12 DEF StopForget, WindowsReader, Reading, Readers
      <3>2. Abstract!Land
        BY <2>2, <2>12, <3>1 DEF StopForget, Stage, Reading, Abstract!Land, Abstract!Moves
      <3> QED
        BY <3>2 DEF Abstract!Next
    <2> QED
      BY <1>2, <2>3, <2>4, <2>5, <2>6, <2>7, <2>8, <2>9, <2>10, <2>11, <2>12 DEF Holder
  <1> QED
    BY <1>1, <1>2

\* Without the mutex nobody changes the stage, and nobody starts a reader on Windows.
LEMMA RefineStep == ASSUME IInv, [Next]_vars PROVE [Abstract!Next]_(Abstract!absVars)
  <1>1. CASE Holder
    BY <1>1, RefineHolder
  <1>2. ASSUME NEW i \in Readers,
               ReaderWait(i) \/ ReaderGiveUp(i) \/ ReaderGot(i) \/ ReaderRuns(i)
        PROVE  [Abstract!Next]_(Abstract!absVars)
    <2>1. UNCHANGED <<platform, lockVars>>
      BY <1>2
      DEF ReaderWait, ReaderGiveUp, ReaderGot, ReaderRuns, ReaderAsk, ReaderTop, ReaderLook,
          ReaderTake, ReaderError, ReaderHave, ReaderSend, ReaderOnly
    <2>2. Live(i) /\ \A j \in Readers : j # i => reader'[j] = reader[j]
      BY <1>2
      DEF Live, ReaderWait, ReaderGiveUp, ReaderGot, ReaderRuns, ReaderAsk, ReaderTop, ReaderLook,
          ReaderTake, ReaderError, ReaderHave, ReaderSend, Moves, IInv, TypeOK
    <2>3. Stage' = Stage
      BY <2>1 DEF Stage, lockVars, flags, clientVars
    <2>4. Reading' => Reading
      BY <2>1, <2>2 DEF Reading, Windows
    <2> QED
      BY <2>3, <2>4, RefineStutter
  <1>3. CASE SetTunLook \/ SetTunAssign \/ SetTunFD
    <2>1. UNCHANGED <<platform, lockVars>> /\ (Windows => UNCHANGED reader)
      BY <1>3 DEF SetTunLook, SetTunAssign, SetTunFD
    <2>2. Stage' = Stage
      BY <2>1 DEF Stage, lockVars, flags, clientVars
    <2>3. Reading' => Reading
      BY <2>1 DEF Reading, Windows, Live
    <2> QED
      BY <2>2, <2>3, RefineStutter
  <1>4. CASE WriteLook \/ WriteCall \/ PacketLook \/ PacketWrite \/ UNCHANGED vars
    <2>1. UNCHANGED <<platform, lockVars, reader>>
      BY <1>4 DEF WriteLook, WriteCall, PacketLook, PacketWrite, vars, outside
    <2>2. Stage' = Stage
      BY <2>1 DEF Stage, lockVars, flags, clientVars
    <2>3. Reading' => Reading
      BY <2>1 DEF Reading, Windows, Live
    <2> QED
      BY <2>2, <2>3, RefineStutter
  <1> QED
    BY <1>1, <1>2, <1>3, <1>4 DEF Next, Holder

\* Whatever the app, the readers and the packets do with the globals, StartVPN and
\* StopVPN go through the life cycle of Lifecycle.
THEOREM Refinement == Spec => ImplementsLifecycle
  <1>1. IInv /\ [Next]_vars => [Abstract!Next]_(Abstract!absVars)
    BY RefineStep
  <1>2. Spec => Abstract!Init /\ [][Abstract!Next]_(Abstract!absVars)
    BY <1>1, RefineInit, Invariant, PTL DEF Spec
  <1> QED
    BY <1>2 DEF ImplementsLifecycle, Abstract!Spec
=============================================================================
