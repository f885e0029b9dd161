----------------------------- MODULE VpnExports -----------------------------
(***************************************************************************)
(* The bindings a mobile or desktop app calls (exports.go): StartVPN and   *)
(* StopVPN, which hold clientMutex from end to end, and everything that    *)
(* reads the same globals without it: SetTunFileDescriptor, the TUN        *)
(* readers, the callback for incoming packets and WriteTUN.                *)
(*                                                                         *)
(* Every read and every write of a shared pointer outside the mutex is a   *)
(* step of its own; a call through a nil pointer ends the process.  The    *)
(* branches on isStopping are left out: AtRest shows that no caller ever   *)
(* gets the mutex with isStopping set.  GetStats and SetConfig change      *)
(* nothing that anybody reads.                                             *)
(***************************************************************************)
EXTENDS Integers

CONSTANTS
    MaxClients,    \* bound on calls of StartVPN that create a client
    MaxDevices,    \* bound on TUN devices
    MaxReaders     \* bound on TUN readers

ASSUME BoundsAssumption ==
    /\ MaxClients \in Nat \ {0}
    /\ MaxDevices \in Nat \ {0}
    /\ MaxReaders \in Nat \ {0}

None == 0
Clients == 1..MaxClients
Devices == 1..MaxDevices
Readers == 1..MaxReaders

VARIABLES
    platform,     \* runtime.GOOS
    op,           \* where the holder of clientMutex is; "idle": nobody holds it
    isRunning,
    isStopping,
    stopChan,     \* "nil", "open" or "closed"
    tunDevice,    \* the global, None for nil
    open,         \* adapters (Windows) and descriptors (Android) that are open
    devices,      \* number of devices created so far
    client,       \* clientInstance
    connected,    \* clients that are connected
    clients,      \* number of clients created so far
    done,         \* tunReaderDone: the reader that closes it
    callback,     \* some client has had its callback set
    reader,       \* the readers: where each is and which device it reads
    setTun,       \* where SetTunFileDescriptor is and the device it made
    writeTun,     \* where WriteTUN is
    onPacket,     \* where the callback for an incoming packet is
    fd,           \* Android: the descriptor of the last device made, None if it has none
    replaced,     \* descriptors that SetFD put another one over while they were open
    overlapped,   \* SetTunFileDescriptor ran on Windows, or during a StartVPN or StopVPN
    torn,         \* StopVPN or a failed StartVPN cleared a global
    crashed       \* "no" or who went through a nil pointer

flags == <<isRunning, isStopping>>
channels == <<stopChan, callback>>
deviceVars == <<tunDevice, open, devices>>
clientVars == <<client, connected, clients>>
readers == <<done, reader>>
lockVars == <<op, flags, channels, clientVars, done>>
descriptors == <<fd, replaced>>
hostVars == <<setTun, writeTun, onPacket, overlapped, descriptors>>
outside == <<platform, hostVars, crashed>>    \* what no holder of the mutex changes
vars == <<outside, lockVars, deviceVars, reader, torn>>

Alive == crashed = "no"
Windows == platform = "windows"

\* What the global device reads from and what its Close closes: on Windows an adapter of
\* its own, on Android the descriptor it was given last.
Handle == IF Windows \/ tunDevice = None THEN tunDevice ELSE fd

\* A call through a pointer: pc goes on when it is set, the process dies when it is nil.
Crash(who) == crashed' = who

-----------------------------------------------------------------------------
(* StartVPN *)

\* A configuration that is refused returns before anything changes.
StartCall ==
    /\ Alive /\ op = "idle" /\ ~isRunning /\ clients < MaxClients
    /\ clients' = clients + 1
    /\ op' = IF Windows THEN "device" ELSE "connect"
    /\ UNCHANGED <<flags, channels, deviceVars, readers, outside, client, connected, torn>>

StartDevice ==
    /\ Alive /\ op = "device" /\ devices < MaxDevices
    /\ devices' = devices + 1
    /\ tunDevice' = devices' /\ open' = open \cup {devices'}
    /\ op' = "connect"
    /\ UNCHANGED <<flags, channels, clientVars, readers, outside, torn>>

\* The adapter cannot be created; a global that was set before stays as it is.
StartNoDevice ==
    /\ Alive /\ op = "device"
    /\ op' = "idle"
    /\ UNCHANGED <<flags, channels, deviceVars, clientVars, readers, outside, torn>>

\* SetupIP or Client.Start fails.
StartFail ==
    /\ Alive /\ op = "connect"
    /\ op' = "discard"
    /\ UNCHANGED <<flags, channels, deviceVars, clientVars, readers, outside, torn>>

\* Mutant of StartDiscard: the device is forgotten and not closed.
StartDiscardForgets ==
    /\ Alive /\ op = "discard"
    /\ op' = IF tunDevice = None THEN "idle" ELSE "drop"
    /\ UNCHANGED <<flags, channels, deviceVars, clientVars, readers, outside, torn>>

\* The device goes, whoever set it: StartVPN closes it and cleanupResources looks once
\* more.  What else that looks at is nil whenever no VPN runs.
StartDiscard ==
    /\ Alive /\ op = "discard"
    /\ open' = open \ {Handle}
    /\ op' = IF tunDevice = None THEN "idle" ELSE "drop"
    /\ UNCHANGED <<flags, channels, clientVars, readers, outside, tunDevice, devices, torn>>

StartDrop ==
    /\ Alive /\ op = "drop"
    /\ tunDevice' = None /\ torn' = TRUE
    /\ op' = "discard"
    /\ UNCHANGED <<flags, channels, clientVars, readers, outside, open, devices>>

StartConnect ==
    /\ Alive /\ op = "connect"
    /\ connected' = connected \cup {clients}
    /\ op' = "reader"
    /\ UNCHANGED <<flags, channels, deviceVars, readers, outside, client, clients, torn>>

Unborn == {i \in Readers : reader[i].pc = "unborn"}
At(pc) == [pc |-> pc, dev |-> None]

StartReader ==
    /\ Alive /\ op = "reader"
    /\ stopChan' = "open" /\ callback' = TRUE
    /\ IF Windows /\ tunDevice # None
       THEN \E i \in Unborn : reader' = [reader EXCEPT ![i] = At("top")] /\ done' = i
       ELSE UNCHANGED <<readers>>
    /\ op' = "publish"
    /\ UNCHANGED <<flags, deviceVars, clientVars, outside, torn>>

StartPublish ==
    /\ Alive /\ op = "publish"
    /\ client' = clients
    /\ isRunning' = TRUE /\ isStopping' = FALSE
    /\ op' = "idle"
    /\ UNCHANGED <<channels, deviceVars, readers, outside, connected, clients, torn>>

-----------------------------------------------------------------------------
(* StopVPN *)

\* Up to and including the three FIN packets.
StopCall ==
    /\ Alive /\ op = "idle" /\ isRunning
    /\ isStopping' = TRUE
    /\ op' = "signal"
    /\ UNCHANGED <<channels, deviceVars, clientVars, readers, outside, isRunning, torn>>

StopSignal ==
    /\ Alive /\ op = "signal"
    /\ stopChan' = "closed"
    /\ op' = "unsignal"
    /\ UNCHANGED <<flags, deviceVars, clientVars, readers, outside, callback, torn>>

\* A receive from a nil channel is never ready: the signal is gone again.
StopUnsignal ==
    /\ Alive /\ op = "unsignal"
    /\ stopChan' = "nil"
    /\ op' = "close"
    /\ UNCHANGED <<flags, deviceVars, clientVars, readers, outside, callback, torn>>

\* Mutant of StopClose: the device is left open.
StopCloseNothing ==
    /\ Alive /\ op = "close"
    /\ op' = "unset"
    /\ UNCHANGED <<flags, channels, deviceVars, clientVars, readers, outside, torn>>

StopClose ==
    /\ Alive /\ op = "close"
    /\ open' = open \ {Handle}
    /\ op' = IF tunDevice = None THEN "await" ELSE "unset"
    /\ UNCHANGED <<flags, channels, clientVars, readers, outside, tunDevice, devices, torn>>

StopUnset ==
    /\ Alive /\ op = "unset"
    /\ tunDevice' = None /\ torn' = TRUE
    /\ op' = "await"
    /\ UNCHANGED <<flags, channels, clientVars, readers, outside, open, devices>>

\* Mutant of StopAwait: as in cleanupResources, nobody waits for the reader.
StopAwaitNobody ==
    /\ Alive /\ op = "await"
    /\ done' = None
    /\ op' = "disconnect"
    /\ UNCHANGED <<flags, channels, deviceVars, clientVars, outside, reader, torn>>

StopAwait ==
    /\ Alive /\ op = "await"
    /\ done # None => reader[done].pc = "ended"
    /\ done' = None
    /\ op' = "disconnect"
    /\ UNCHANGED <<flags, channels, deviceVars, clientVars, outside, reader, torn>>

\* Client.Stop returns ...
StopDisconnect ==
    /\ Alive /\ op = "disconnect"
    /\ connected' = connected \ {client}
    /\ op' = "forget"
    /\ UNCHANGED <<flags, channels, deviceVars, readers, outside, client, clients, torn>>

\* ... or waits for a readLoop that waits for Client.mu, which Stop keeps (StopEnds of
\* ClientLifecycle says when): StopVPN hangs with clientMutex.
StopHang ==
    /\ Alive /\ op = "disconnect"
    /\ op' = "hung"
    /\ UNCHANGED <<flags, channels, deviceVars, clientVars, readers, outside, torn>>

\* IsConnected and Send wait for Client.mu.
ClientAnswers == op # "hung"

\* Mutant of StopForget: isStopping stays set.
StopForgetStopping ==
    /\ Alive /\ op = "forget"
    /\ client' = None /\ isRunning' = FALSE /\ torn' = TRUE
    /\ op' = "idle"
    /\ UNCHANGED <<channels, deviceVars, readers, outside, isStopping, connected, clients>>

StopForget ==
    /\ Alive /\ op = "forget"
    /\ client' = None /\ isRunning' = FALSE /\ isStopping' = FALSE /\ torn' = TRUE
    /\ op' = "idle"
    /\ UNCHANGED <<channels, deviceVars, readers, outside, connected, clients>>

StopStep ==
    \/ StopSignal \/ StopUnsignal \/ StopClose \/ StopUnset \/ StopAwait \/ StopDisconnect
    \/ StopForget

-----------------------------------------------------------------------------
(* The TUN readers.  On Windows StartVPN starts one, on Android every call of *)
(* SetTunFileDescriptor does, which first waits for a client.                 *)

Moves(i, pc) == reader' = [reader EXCEPT ![i].pc = pc]

ReaderOnly ==
    UNCHANGED <<deviceVars, platform, lockVars, hostVars, torn>>

\* Android: clientInstance is there at the first look; at the second it is called.
ReaderWait(i) ==
    /\ Alive /\ reader[i].pc = "wait" /\ client # None
    /\ Moves(i, "ask") /\ ReaderOnly /\ UNCHANGED crashed

ReaderAsk(i) ==
    /\ Alive /\ reader[i].pc = "ask" /\ ClientAnswers
    /\ IF client = None THEN Crash("reader") /\ UNCHANGED reader
       ELSE Moves(i, IF client \in connected THEN "top" ELSE "wait") /\ UNCHANGED crashed
    /\ ReaderOnly

\* Mutant of ReaderGiveUp: it reads on although there is no client.
ReaderGiveUpReads(i) ==
    /\ Alive /\ reader[i].pc = "wait"
    /\ Moves(i, "top") /\ ReaderOnly /\ UNCHANGED crashed

\* After thirty looks.
ReaderGiveUp(i) ==
    /\ Alive /\ reader[i].pc = "wait"
    /\ Moves(i, "ended") /\ ReaderOnly /\ UNCHANGED crashed

\* The head of the loop: the signal to stop is seen while stopChan is closed, not nil.
ReaderTop(i) ==
    /\ Alive /\ reader[i].pc = "top"
    /\ Moves(i, IF stopChan = "closed" THEN "ended" ELSE IF Windows THEN "take" ELSE "look")
    /\ ReaderOnly /\ UNCHANGED crashed

\* Android looks whether there is a device before it takes it.
ReaderLook(i) ==
    /\ Alive /\ reader[i].pc = "look"
    /\ Moves(i, IF tunDevice = None THEN "top" ELSE "take")
    /\ ReaderOnly /\ UNCHANGED crashed

ReaderTake(i) ==
    /\ Alive /\ reader[i].pc = "take"
    /\ IF tunDevice = None THEN Crash("reader") /\ UNCHANGED reader
       ELSE /\ reader' = [reader EXCEPT ![i] = [pc |-> "read", dev |-> Handle]]
            /\ UNCHANGED crashed
    /\ ReaderOnly

\* Read returns a packet, no packet, or, once what it reads from is closed or when there
\* is no descriptor, an error, which ends a reader on Windows only.
ReaderGot(i) ==
    /\ Alive /\ reader[i].pc = "read" /\ reader[i].dev \in open
    /\ \E pc \in {"top", "have"} : reader' = [reader EXCEPT ![i] = At(pc)]
    /\ ReaderOnly /\ UNCHANGED crashed

ReaderError(i) ==
    /\ Alive /\ reader[i].pc = "read" /\ reader[i].dev \notin open
    /\ reader' = [reader EXCEPT ![i] = At(IF Windows THEN "ended" ELSE "top")]
    /\ ReaderOnly /\ UNCHANGED crashed

\* On Windows the packet goes to the client the reader was started for; on Android
\* to clientInstance, which is asked and then called.
ReaderHave(i) ==
    /\ Alive /\ reader[i].pc = "have" /\ ClientAnswers
    /\ IF ~Windows /\ client = None THEN Crash("reader") /\ UNCHANGED reader
       ELSE /\ Moves(i, IF ~Windows /\ client \in connected THEN "send" ELSE "top")
            /\ UNCHANGED crashed
    /\ ReaderOnly

ReaderSend(i) ==
    /\ Alive /\ reader[i].pc = "send" /\ ClientAnswers
    /\ IF client = None THEN Crash("reader") /\ UNCHANGED reader
       ELSE Moves(i, "top") /\ UNCHANGED crashed
    /\ ReaderOnly

\* What a reader does without waiting for anybody.
ReaderRuns(i) ==
    \/ ReaderAsk(i) \/ ReaderTop(i) \/ ReaderLook(i) \/ ReaderTake(i) \/ ReaderError(i)
    \/ ReaderHave(i) \/ ReaderSend(i)

-----------------------------------------------------------------------------
(* What the app calls without the mutex *)

\* SetTunFileDescriptor makes a device when there is none ...
SetTunLook ==
    /\ Alive /\ setTun.pc = "idle"
    /\ overlapped' = (overlapped \/ Windows)
    /\ IF tunDevice # None
       THEN /\ setTun' = [pc |-> "setfd", dev |-> None]
            /\ UNCHANGED <<devices, open>>
       ELSE /\ devices < MaxDevices
            /\ devices' = devices + 1
            /\ open' = IF Windows THEN open \cup {devices'} ELSE open
            /\ setTun' = [pc |-> "assign", dev |-> devices']
    /\ UNCHANGED <<platform, lockVars, tunDevice, reader, writeTun, onPacket, descriptors,
                   torn, crashed>>

SetTunAssign ==
    /\ Alive /\ setTun.pc = "assign"
    /\ tunDevice' = setTun.dev
    /\ fd' = None
    /\ setTun' = At("setfd")
    /\ UNCHANGED <<platform, lockVars, open, devices, reader, writeTun, onPacket,
                   overlapped, replaced, torn, crashed>>

\* ... and on Android gives it the descriptor, if it is one, and starts a reader.  The
\* descriptor, which has the number of that reader, takes the place of the last one,
\* which nobody closes.
SetTunFD ==
    /\ Alive /\ setTun.pc = "setfd"
    /\ setTun' = At("idle")
    /\ overlapped' = (overlapped \/ op # "idle")
    /\ \/ Windows /\ UNCHANGED <<open, descriptors, reader, crashed>>
       \/ ~Windows /\ tunDevice # None /\ UNCHANGED <<open, descriptors, reader, crashed>>
       \/ ~Windows /\ tunDevice = None /\ Crash("settun")
                   /\ UNCHANGED <<open, descriptors, reader>>
       \/ /\ ~Windows /\ tunDevice # None
          /\ \E i \in Unborn : /\ fd' = i /\ open' = open \cup {i}
                               /\ reader' = [reader EXCEPT ![i] = At("wait")]
          /\ replaced' = replaced \cup (open \cap {fd})
          /\ UNCHANGED crashed
    /\ UNCHANGED <<platform, lockVars, tunDevice, devices, writeTun, onPacket, torn>>

\* WriteTUN looks whether there is a client, asks it and calls it.
WriteLook ==
    /\ Alive /\ writeTun = "idle" /\ client # None
    /\ writeTun' = "ask"
    /\ UNCHANGED <<deviceVars, platform, lockVars, reader, setTun, onPacket, overlapped,
                   descriptors, torn, crashed>>

WriteCall ==
    /\ Alive /\ writeTun \in {"ask", "send"} /\ ClientAnswers
    /\ IF client = None THEN Crash("writetun") /\ UNCHANGED writeTun
       ELSE /\ writeTun' = IF writeTun = "ask" /\ client \in connected THEN "send" ELSE "idle"
            /\ UNCHANGED crashed
    /\ UNCHANGED <<deviceVars, platform, lockVars, reader, setTun, onPacket, overlapped,
                   descriptors, torn>>

\* A packet came in: the callback looks whether there is a device and writes to it.
\* Client.Stop does not wait for the goroutine that calls it, which may come late.
PacketLook ==
    /\ Alive /\ onPacket = "idle"
    /\ callback /\ tunDevice # None
    /\ onPacket' = "write"
    /\ UNCHANGED <<deviceVars, platform, lockVars, reader, setTun, writeTun, overlapped,
                   descriptors, torn, crashed>>

PacketWrite ==
    /\ Alive /\ onPacket = "write"
    /\ IF tunDevice = None THEN Crash("packet") /\ UNCHANGED onPacket
       ELSE onPacket' = "idle" /\ UNCHANGED crashed
    /\ UNCHANGED <<deviceVars, platform, lockVars, reader, setTun, writeTun, overlapped,
                   descriptors, torn>>

-----------------------------------------------------------------------------
Init ==
    /\ platform \in {"windows", "android"}
    /\ op = "idle" /\ isRunning = FALSE /\ isStopping = FALSE
    /\ stopChan = "nil" /\ tunDevice = None /\ open = {} /\ devices = 0
    /\ client = None /\ connected = {} /\ clients = 0 /\ done = None
    /\ callback = FALSE
    /\ reader = [i \in Readers |-> At("unborn")]
    /\ setTun = At("idle") /\ writeTun = "idle" /\ onPacket = "idle"
    /\ fd = None /\ replaced = {} /\ overlapped = FALSE /\ torn = FALSE /\ crashed = "no"

Next ==
    \/ StartCall \/ StartDevice \/ StartNoDevice \/ StartFail \/ StartDiscard \/ StartDrop
    \/ StartConnect \/ StartReader \/ StartPublish \/ StopCall \/ StopStep \/ StopHang
    \/ \E i \in Readers : ReaderWait(i) \/ ReaderGiveUp(i) \/ ReaderGot(i) \/ ReaderRuns(i)
    \/ SetTunLook \/ SetTunAssign \/ SetTunFD \/ WriteLook \/ WriteCall \/ PacketLook
    \/ PacketWrite

\* Goroutines that can run do; Read of a closed device returns.  Nothing makes the
\* app call, a device deliver or a server answer.
Fairness == WF_vars(StopStep) /\ \A i \in Readers : WF_vars(ReaderRuns(i))

Spec == Init /\ [][Next]_vars /\ Fairness

-----------------------------------------------------------------------------
(* Properties *)

Live(i) == reader[i].pc \notin {"unborn", "ended"}

\* Whoever gets clientMutex finds isStopping unset, so that the branch of StopVPN that
\* unlocks the mutex twice and the one of StartVPN that goes on without looking at
\* isRunning again are never taken; and a VPN that runs with its client connected
\* and stopChan open, or one that does not, with no client, no stopChan and no reader
\* to wait for.
AtRest ==
    op = "idle" =>
        /\ ~isStopping
        /\ IF isRunning THEN client \in connected /\ stopChan = "open"
           ELSE client = None /\ connected = {} /\ stopChan = "nil" /\ done = None

\* On Windows there is never more than one reader, and none when no VPN runs: the next
\* StartVPN does not share the device with a reader of the last one.
ReadersAwaited ==
    Windows => /\ \A i, j \in Readers : Live(i) /\ Live(j) => i = j
               /\ op = "idle" /\ ~isRunning => \A i \in Readers : ~Live(i)

\* No adapter and no descriptor is left open behind the globals, through failed starts
\* and stops in any order, but the descriptors that a second SetTunFileDescriptor
\* replaced (SetFD does not close them), unless the app calls SetTunFileDescriptor on
\* Windows, where StartVPN puts a second adapter over the first, or lets it overlap
\* with a StopVPN or a StartVPN that fails, which may close the device before it has
\* its descriptor.
DevicesOwned ==
    op = "idle" /\ setTun.pc = "idle" /\ ~overlapped => open \subseteq {Handle} \cup replaced

\* A call through a nil pointer needs a StopVPN or a failed StartVPN; a reader on
\* Windows can meet one only while StopVPN is waiting for it.
CrashNeedsTeardown ==
    /\ crashed # "no" => torn
    /\ crashed = "reader" /\ Windows => op = "await"

\* StopVPN returns, whatever the reader was doing, unless the process crashes,
\* SetTunFileDescriptor gives the reader it waits for another device to read, or
\* Client.Stop hangs.
StopReturns == isStopping ~> (~isStopping \/ crashed # "no" \/ overlapped \/ op = "hung")
=============================================================================
