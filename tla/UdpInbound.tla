----------------------------- MODULE UdpInbound -----------------------------
(***************************************************************************)
(* The raw UDP side of internal/transport/inbound.go: packetLoop reads     *)
(* every datagram into one buffer and starts a handlePacket goroutine with *)
(* a slice of it; handlePacket finds or makes the sender's UDPConnWrapper  *)
(* and puts the slice into its readChan; Server.acceptLoop, through        *)
(* acceptUDP, and the Read calls of the UDPConns take slices out again.    *)
(*                                                                         *)
(* A datagram is the number of its arrival.  It names its goroutine, the   *)
(* wrapper that goroutine makes if it makes one, and the UDPConn that      *)
(* acceptUDP makes if it takes it.  Every use of udpMu is one step.        *)
(***************************************************************************)
EXTENDS Integers, Sequences, Functions

CONSTANTS
    Addrs,          \* client addresses; src starts with an arbitrary one
    MaxDatagrams,   \* bound on the datagrams that arrive
    Capacity        \* of a readChan; 5000 in the code

ASSUME BoundsAssumption ==
    /\ Addrs # {}
    /\ MaxDatagrams \in Nat
    /\ Capacity \in Nat

Datagrams == 1..MaxDatagrams

VARIABLES
    arrived,     \* number of datagrams read so far
    buf,         \* packetLoop's buffer: the datagram whose bytes are in it (0: none)
    src,         \* sender of each datagram
    where,       \* what has become of each datagram
    wrapper,     \* wrapper its goroutine has found or made (0: none yet)
    udpConns,    \* Inbound.udpConns (0: no entry)
    readChan,    \* readChan of each wrapper
    chanClosed,  \* wrappers whose readChan is closed
    conn,        \* state of each UDPConn
    connWrapper, \* its wrapper
    acceptor,    \* Server.acceptLoop: "accept", "ended"
    stop,        \* Server.Stop: "none", "signalled", "closing", "done"
    panicked,    \* the goroutine that sent on a closed channel (0: none)
    overlap,     \* history: a datagram arrived while an earlier one was still a slice
    garbled,     \* history: datagrams of which a reader got other bytes
    raced,       \* history: addresses whose wrapper was replaced by a second one
    early        \* history: goroutines between lookup and send when Stop closed readChans

history == <<overlap, garbled, raced, early>>
conns == <<conn, connWrapper>>
vars == <<arrived, buf, src, where, wrapper, udpConns, readChan, chanClosed, conns, acceptor, stop,
          panicked, history>>

-----------------------------------------------------------------------------
\* A slice of the buffer is still around: in a goroutine, a readChan or a UDPConn.
Outstanding(d) == where[d] \in {"lookup", "store", "send", "queued", "held"}

\* Mutant of Receive: the buffer is cleared once the goroutine has been started.
ReceiveClears(a) ==
    /\ stop \in {"none", "signalled"} /\ arrived < MaxDatagrams
    /\ arrived' = arrived + 1 /\ buf' = 0
    /\ src' = [src EXCEPT ![arrived + 1] = a]
    /\ where' = [where EXCEPT ![arrived + 1] = "lookup"]
    /\ overlap' = (overlap \/ \E d \in Datagrams : Outstanding(d))
    /\ UNCHANGED <<wrapper, udpConns, readChan, chanClosed, conns, acceptor, stop, panicked,
                   garbled, raced, early>>

\* packetLoop: the datagram overwrites the one before it in the buffer.
Receive(a) ==
    /\ stop \in {"none", "signalled"} /\ arrived < MaxDatagrams
    /\ arrived' = arrived + 1 /\ buf' = arrived + 1
    /\ src' = [src EXCEPT ![arrived + 1] = a]
    /\ where' = [where EXCEPT ![arrived + 1] = "lookup"]
    /\ overlap' = (overlap \/ \E d \in Datagrams : Outstanding(d))
    /\ UNCHANGED <<wrapper, udpConns, readChan, chanClosed, conns, acceptor, stop, panicked,
                   garbled, raced, early>>

-----------------------------------------------------------------------------
(* handlePacket *)

\* The lookup under the read lock.
Lookup(d) ==
    /\ where[d] = "lookup"
    /\ wrapper' = [wrapper EXCEPT ![d] = udpConns[src[d]]]
    /\ where' = [where EXCEPT ![d] = IF udpConns[src[d]] = 0 THEN "store" ELSE "send"]
    /\ UNCHANGED <<arrived, buf, src, udpConns, readChan, chanClosed, conns, acceptor, stop,
                   panicked,
                   history>>

\* A new wrapper is stored under the write lock, whatever is there by now.
Store(d) ==
    /\ where[d] = "store"
    /\ wrapper' = [wrapper EXCEPT ![d] = d]
    /\ udpConns' = [udpConns EXCEPT ![src[d]] = d]
    /\ raced' = IF udpConns[src[d]] = 0 THEN raced ELSE raced \cup {src[d]}
    /\ where' = [where EXCEPT ![d] = "send"]
    /\ UNCHANGED <<arrived, buf, src, readChan, chanClosed, conns, acceptor, stop, panicked,
                   overlap,
                   garbled, early>>

\* The slice is queued, or dropped when the channel is full.
Send(d) ==
    /\ where[d] = "send" /\ wrapper[d] \notin chanClosed
    /\ IF Len(readChan[wrapper[d]]) < Capacity
       THEN /\ readChan' = [readChan EXCEPT ![wrapper[d]] = Append(@, d)]
            /\ where' = [where EXCEPT ![d] = "queued"]
       ELSE /\ where' = [where EXCEPT ![d] = "dropped"]
            /\ UNCHANGED readChan
    /\ UNCHANGED <<arrived, buf, src, wrapper, udpConns, chanClosed, conns, acceptor, stop,
                   panicked,
                   history>>

\* Send on a closed channel: the process is gone.
SendPanics(d) ==
    /\ where[d] = "send" /\ wrapper[d] \in chanClosed
    /\ panicked' = d
    /\ UNCHANGED <<arrived, buf, src, where, wrapper, udpConns, readChan, chanClosed, conns,
                   acceptor,
                   stop, history>>

-----------------------------------------------------------------------------
(* acceptUDP, called by Server.acceptLoop *)

\* Mutants of Accept: it looks at the datagram and leaves it in the channel; it
\* passes over wrappers that have a connection already.
AcceptPeeks(w) ==
    /\ acceptor = "accept" /\ w \in Range(udpConns) /\ readChan[w] # <<>>
    /\ where' = [where EXCEPT ![Head(readChan[w])] = "held"]
    /\ conn' = [conn EXCEPT ![Head(readChan[w])] = "open"]
    /\ connWrapper' = [connWrapper EXCEPT ![Head(readChan[w])] = w]
    /\ acceptor' = IF stop = "none" THEN "accept" ELSE "ended"
    /\ UNCHANGED <<arrived, buf, src, wrapper, udpConns, readChan, chanClosed, stop, panicked,
                   history>>

AcceptNewOnly(w) ==
    /\ acceptor = "accept" /\ w \in Range(udpConns) /\ readChan[w] # <<>>
    /\ w \notin Range(connWrapper)
    /\ where' = [where EXCEPT ![Head(readChan[w])] = "held"]
    /\ conn' = [conn EXCEPT ![Head(readChan[w])] = "open"]
    /\ connWrapper' = [connWrapper EXCEPT ![Head(readChan[w])] = w]
    /\ readChan' = [readChan EXCEPT ![w] = Tail(@)]
    /\ acceptor' = IF stop = "none" THEN "accept" ELSE "ended"
    /\ UNCHANGED <<arrived, buf, src, wrapper, udpConns, chanClosed, stop, panicked, history>>

\* It polls every wrapper in the map, those with a connection too, and makes a
\* UDPConn of whatever it finds.  acceptLoop looks at stopChan between two calls.
Accept(w) ==
    /\ acceptor = "accept" /\ w \in Range(udpConns) /\ readChan[w] # <<>>
    /\ where' = [where EXCEPT ![Head(readChan[w])] = "held"]
    /\ conn' = [conn EXCEPT ![Head(readChan[w])] = "open"]
    /\ connWrapper' = [connWrapper EXCEPT ![Head(readChan[w])] = w]
    /\ readChan' = [readChan EXCEPT ![w] = Tail(@)]
    /\ acceptor' = IF stop = "none" THEN "accept" ELSE "ended"
    /\ UNCHANGED <<arrived, buf, src, wrapper, udpConns, chanClosed, stop, panicked, history>>

-----------------------------------------------------------------------------
(* UDPConn, used by the goroutine of handleConnection *)

\* What a reader copies is what the buffer holds by then.  A copy that races with
\* the arrival of a datagram counts as made after it.
Garbled(d) == IF d = buf THEN garbled ELSE garbled \cup {d}

\* Read with readData set: the first Read of every connection.
ReadHeld(c) ==
    /\ conn[c] = "open" /\ where[c] = "held"
    /\ where' = [where EXCEPT ![c] = "read"]
    /\ garbled' = Garbled(c)
    /\ UNCHANGED <<arrived, buf, src, wrapper, udpConns, readChan, chanClosed, conns, acceptor,
                   stop,
                   panicked, overlap, raced, early>>

\* Any other Read waits for readChan with the connection's lock.
ReadWait(c) ==
    /\ conn[c] = "open" /\ where[c] # "held"
    /\ conn' = [conn EXCEPT ![c] = "reading"]
    /\ UNCHANGED <<arrived, buf, src, where, wrapper, udpConns, readChan, chanClosed, connWrapper,
                   acceptor, stop, panicked, history>>

ReadTake(c) ==
    /\ conn[c] = "reading" /\ readChan[connWrapper[c]] # <<>>
    /\ LET d == Head(readChan[connWrapper[c]])
       IN  /\ where' = [where EXCEPT ![d] = "read"]
           /\ garbled' = Garbled(d)
    /\ readChan' = [readChan EXCEPT ![connWrapper[c]] = Tail(@)]
    /\ conn' = [conn EXCEPT ![c] = "open"]
    /\ UNCHANGED <<arrived, buf, src, wrapper, udpConns, chanClosed, connWrapper, acceptor, stop,
                   panicked, overlap, raced, early>>

\* A closed channel that is empty: ErrClosed.
ReadClosed(c) ==
    /\ conn[c] = "reading" /\ readChan[connWrapper[c]] = <<>>
    /\ connWrapper[c] \in chanClosed
    /\ conn' = [conn EXCEPT ![c] = "closed"]
    /\ UNCHANGED <<arrived, buf, src, where, wrapper, udpConns, readChan, chanClosed, connWrapper,
                   acceptor, stop, panicked, history>>

\* Mutant of Close: it closes the channel of the wrapper too.
CloseChannel(c) ==
    /\ conn[c] = "open" /\ where[c] # "held"
    /\ conn' = [conn EXCEPT ![c] = "closed"]
    /\ chanClosed' = chanClosed \cup {connWrapper[c]}
    /\ UNCHANGED <<arrived, buf, src, where, wrapper, udpConns, readChan, connWrapper, acceptor,
                   stop,
                   panicked, history>>

\* The handshake failed, a FIN came, the session was idle or the server stops.
\* The wrapper stays in the map.
Close(c) ==
    /\ conn[c] = "open" /\ where[c] # "held"
    /\ conn' = [conn EXCEPT ![c] = "closed"]
    /\ UNCHANGED <<arrived, buf, src, where, wrapper, udpConns, readChan, chanClosed, connWrapper,
                   acceptor, stop, panicked, history>>

-----------------------------------------------------------------------------
(* Server.Stop and Inbound.Stop *)

StopSignal ==
    /\ stop = "none"
    /\ stop' = "signalled"
    /\ UNCHANGED <<arrived, buf, src, where, wrapper, udpConns, readChan, chanClosed, conns,
                   acceptor,
                   panicked, history>>

\* packetConn is closed, and packetLoop ends.
StopPacketConn ==
    /\ stop = "signalled"
    /\ stop' = "closing"
    /\ UNCHANGED <<arrived, buf, src, where, wrapper, udpConns, readChan, chanClosed, conns,
                   acceptor,
                   panicked, history>>

\* Every readChan in the map is closed and the map replaced, under udpMu.
StopChannels ==
    /\ stop = "closing"
    /\ stop' = "done"
    /\ chanClosed' = Range(udpConns) \ {0}
    /\ udpConns' = [a \in Addrs |-> 0]
    /\ early' = {d \in Datagrams : where[d] = "send"}
    /\ UNCHANGED <<arrived, buf, src, where, wrapper, readChan, conns, acceptor, panicked, overlap,
                   garbled, raced>>

-----------------------------------------------------------------------------
Init ==
    /\ arrived = 0 /\ buf = 0
    /\ src = [d \in Datagrams |-> CHOOSE a \in Addrs : TRUE]
    /\ where = [d \in Datagrams |-> "none"]
    /\ wrapper = [d \in Datagrams |-> 0]
    /\ udpConns = [a \in Addrs |-> 0]
    /\ readChan = [w \in Datagrams |-> <<>>]
    /\ chanClosed = {}
    /\ conn = [c \in Datagrams |-> "none"]
    /\ connWrapper = [c \in Datagrams |-> 0]
    /\ acceptor = "accept"
    /\ stop = "none"
    /\ panicked = 0
    /\ overlap = FALSE
    /\ garbled = {}
    /\ raced = {}
    /\ early = {}

HandlePacket(d) == Lookup(d) \/ Store(d) \/ Send(d) \/ SendPanics(d)

Connection(c) == ReadHeld(c) \/ ReadWait(c) \/ ReadTake(c) \/ ReadClosed(c) \/ Close(c)

Next ==
    /\ panicked = 0
    /\ \/ \E a \in Addrs : Receive(a)
       \/ \E d \in Datagrams : HandlePacket(d)
       \/ \E w \in Datagrams : Accept(w)
       \/ \E c \in Datagrams : Connection(c)
       \/ StopSignal \/ StopPacketConn \/ StopChannels

Spec == Init /\ [][Next]_vars

\* Goroutines run, and acceptUDP polls for ever.  Nothing is assumed of what
\* the connections' goroutines do, nor of clients.
Fairness ==
    /\ \A d \in Datagrams : WF_vars(panicked = 0 /\ HandlePacket(d))
    /\ WF_vars(panicked = 0 /\ \E w \in Datagrams : Accept(w))

FairSpec == Spec /\ Fairness

-----------------------------------------------------------------------------
(* Properties *)

Queued(w) == Range(readChan[w])

\* Every datagram is in one place: at most one goroutine, one position of one
\* readChan or one connection holds its slice, and a readChan and the connections
\* made from it hold datagrams of one address only, however often acceptUDP and
\* several connections take from the same channel.
Accounted ==
    /\ \A w \in Datagrams :
         /\ Len(readChan[w]) <= Capacity
         /\ \A i, j \in 1..Len(readChan[w]) : readChan[w][i] = readChan[w][j] => i = j
         /\ \A d \in Queued(w) : where[d] = "queued" /\ wrapper[d] = w /\ src[d] = src[w]
    /\ \A d \in Datagrams : where[d] = "queued" => d \in Queued(wrapper[d])
    /\ \A c \in Datagrams : conn[c] # "none" =>
         /\ where[c] \in {"held", "read"}
         /\ connWrapper[c] = wrapper[c] /\ src[connWrapper[c]] = src[c]
    /\ \A c \in Datagrams : where[c] = "held" => conn[c] = "open"

\* The slices share packetLoop's buffer: as long as no datagram comes in while an
\* earlier one is on its way to a reader, every reader gets the bytes that were
\* sent.
PacedIntact == ~overlap => garbled = {}

\* Only a handlePacket goroutine that had its wrapper already when Inbound.Stop
\* closed the channels panics: closing connections never makes one, and those
\* that look for their wrapper after Stop do not either.
PanicNeedsStop == panicked # 0 => stop = "done" /\ panicked \in early

\* A datagram of the address that is queued is taken out again while the server
\* runs, also when all connections of the address are closed, unless a second
\* goroutine has replaced the wrapper of the address.
QueueDrains ==
    \A d \in Datagrams :
        where[d] = "queued" ~> (where[d] # "queued" \/ src[d] \in raced \/ stop # "none")
=============================================================================
