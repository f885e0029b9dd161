-------------------------- MODULE UdpInbound_proofs --------------------------
(***************************************************************************)
(* Every datagram is in one place, readers get the bytes that were sent as *)
(* long as datagrams do not overlap, and only a goroutine that Inbound.    *)
(* Stop overtook panics: for any number of addresses and datagrams and any *)
(* capacity of the channels.                                               *)
(***************************************************************************)
EXTENDS UdpInbound, TLAPS

Unique(s) == \A i, j \in 1..Len(s) : s[i] = s[j] => i = j

Places == {"none", "lookup", "store", "send", "queued", "held", "read", "dropped"}

TypeOK ==
    /\ arrived \in 0..MaxDatagrams /\ buf \in 0..MaxDatagrams
    /\ src \in [Datagrams -> Addrs]
    /\ where \in [Datagrams -> Places]
    /\ wrapper \in [Datagrams -> 0..MaxDatagrams]
    /\ udpConns \in [Addrs -> 0..MaxDatagrams]
    /\ readChan \in [Datagrams -> Seq(Datagrams)]
    /\ chanClosed \subseteq Datagrams
    /\ conn \in [Datagrams -> {"none", "open", "reading", "closed"}]
    /\ connWrapper \in [Datagrams -> 0..MaxDatagrams]
    /\ stop \in {"none", "signalled", "closing", "done"}
    /\ overlap \in BOOLEAN

\* A datagram that has not arrived is nowhere; one whose goroutine is past the map
\* has a wrapper, which a datagram of the same address made.
Wrapped ==
    \A d \in Datagrams :
        /\ where[d] = "none" <=> d > arrived
        /\ where[d] \in {"send", "queued", "held", "read", "dropped"} =>
             /\ wrapper[d] \in Datagrams
             /\ where[wrapper[d]] \notin {"none", "lookup", "store"}
             /\ src[wrapper[d]] = src[d]

\* udpConns holds, for an address, a wrapper that a goroutine has stored for it.
Stored ==
    \A a \in Addrs : udpConns[a] # 0 =>
        /\ where[udpConns[a]] \notin {"none", "lookup", "store"}
        /\ src[udpConns[a]] = a

\* What is in a readChan.
Queues ==
    \A w \in Datagrams :
        /\ Len(readChan[w]) <= Capacity
        /\ Unique(readChan[w])
        /\ \A d \in Queued(w) : where[d] = "queued" /\ wrapper[d] = w

InQueue == \A d \in Datagrams : where[d] = "queued" => d \in Queued(wrapper[d])

\* What a UDPConn is made from.
Made ==
    \A c \in Datagrams :
        /\ conn[c] # "none" => where[c] \in {"held", "read"} /\ connWrapper[c] = wrapper[c]
        /\ where[c] = "held" => conn[c] = "open"

\* Without an overlap only the datagram in the buffer has a slice of it.
Paced == ~overlap => garbled = {} /\ \A d \in Datagrams : Outstanding(d) => d = buf

\* The closed channels are those of wrappers that are no longer in the map, and
\* who still wants to send to one had found it before.
Closed ==
    /\ chanClosed # {} => stop = "done"
    /\ \A w \in chanClosed : where[w] \notin {"none", "lookup", "store"}
    /\ \A a \in Addrs : udpConns[a] \notin chanClosed
    /\ \A d \in Datagrams : where[d] = "send" /\ wrapper[d] \in chanClosed => d \in early

IInv ==
    TypeOK /\ Wrapped /\ Stored /\ Queues /\ InQueue /\ Made /\ Paced /\ Closed /\ PanicNeedsStop

-----------------------------------------------------------------------------
(* Channels *)

LEMMA RangeSeq ==
    ASSUME NEW S, NEW s \in Seq(S)
    PROVE  Range(s) = {s[i] : i \in 1..Len(s)} /\ Range(s) \subseteq S
  BY DEF Range

LEMMA AppendUnique ==
    ASSUME NEW S, NEW s \in Seq(S), NEW x \in S, x \notin Range(s), Unique(s)
    PROVE  /\ Append(s, x) \in Seq(S)
           /\ Len(Append(s, x)) = Len(s) + 1
           /\ Range(Append(s, x)) = Range(s) \cup {x}
           /\ Unique(Append(s, x))
  <1> DEFINE t == Append(s, x)
  <1>1. t \in Seq(S) /\ Len(t) = Len(s) + 1 /\ t[Len(t)] = x
    OBVIOUS
  <1>2. \A i \in 1..Len(s) : t[i] = s[i]
    OBVIOUS
  <1>3. Range(s) = {s[i] : i \in 1..Len(s)} /\ Range(t) = {t[i] : i \in 1..Len(t)}
    BY <1>1, RangeSeq
  <1>4. Len(s) \in Nat
    OBVIOUS
  <1> HIDE DEF t
  <1>5. Range(t) = Range(s) \cup {x}
    BY <1>1, <1>2, <1>3, <1>4
  <1>6. Unique(t)
    BY <1>1, <1>2, <1>3, <1>4 DEF Unique
  <1> QED
    BY <1>1, <1>5, <1>6 DEF t

LEMMA TailUnique ==
    ASSUME NEW S, NEW s \in Seq(S), s # <<>>, Unique(s)
    PROVE  /\ Head(s) \in Range(s)
           /\ Tail(s) \in Seq(S)
           /\ Len(Tail(s)) <= Len(s)
           /\ Range(Tail(s)) = Range(s) \ {Head(s)}
           /\ Unique(Tail(s))
  <1> DEFINE t == Tail(s)
  <1>1. t \in Seq(S) /\ Len(t) = Len(s) - 1 /\ Head(s) = s[1] /\ Len(s) \in Nat /\ Len(s) > 0
    OBVIOUS
  <1>2. \A i \in 1..Len(t) : t[i] = s[i + 1]
    OBVIOUS
  <1>3. Range(s) = {s[i] : i \in 1..Len(s)} /\ Range(t) = {t[i] : i \in 1..Len(t)}
    BY <1>1, RangeSeq
  <1> HIDE DEF t
  <1>4. Range(t) \subseteq Range(s) \ {s[1]}
    BY <1>1, <1>2, <1>3 DEF Unique
  <1>5. ASSUME NEW x \in Range(s) \ {s[1]} PROVE x \in Range(t)
    <2>1. PICK i \in 1..Len(s) : x = s[i]
      BY <1>3, <1>5
    <2>2. i # 1 /\ i - 1 \in 1..Len(t)
      BY <1>1, <1>5, <2>1
    <2>3. t[i - 1] = s[i]
      BY <1>1, <1>2, <2>2
    <2> QED
      BY <1>3, <2>1, <2>2, <2>3
  <1>6. Unique(t)
    BY <1>1, <1>2 DEF Unique
  <1> QED
    BY <1>1, <1>3, <1>4, <1>5, <1>6 DEF t

-----------------------------------------------------------------------------
LEMMA InitIInv == Init => IInv
  <1> SUFFICES ASSUME Init PROVE IInv
    OBVIOUS
  <1>1. TypeOK
    <2>1. (CHOOSE a \in Addrs : TRUE) \in Addrs
      BY BoundsAssumption
    <2>2. readChan \in [Datagrams -> Seq(Datagrams)]
      <3>1. <<>> \in Seq(Datagrams)
        OBVIOUS
      <3> QED
        BY <3>1 DEF Init
    <2>3. src \in [Datagrams -> Addrs]
      BY <2>1 DEF Init
    <2>4. 0 \in 0..MaxDatagrams
      BY BoundsAssumption
    <2>5. /\ where \in [Datagrams -> Places]
          /\ wrapper \in [Datagrams -> 0..MaxDatagrams]
          /\ udpConns \in [Addrs -> 0..MaxDatagrams]
          /\ conn \in [Datagrams -> {"none", "open", "reading", "closed"}]
          /\ connWrapper \in [Datagrams -> 0..MaxDatagrams]
      BY <2>4 DEF Init, Places
    <2> QED
      BY <2>2, <2>3, <2>4, <2>5 DEF Init, TypeOK
  <1>2. ASSUME NEW w \in Datagrams PROVE readChan[w] = <<>> /\ Queued(w) = {}
    <2>1. readChan[w] = <<>>
      BY DEF Init
    <2> QED
      BY <2>1 DEF Queued, Range
  <1>3. Queues /\ InQueue
    BY <1>2, BoundsAssumption DEF Init, Queues, InQueue, Unique
  <1>4. Wrapped /\ Stored /\ Made /\ Paced /\ Closed /\ PanicNeedsStop
    BY BoundsAssumption
    DEF Init, Datagrams, Wrapped, Stored, Made, Paced, Outstanding, Closed, PanicNeedsStop
  <1> QED
    BY <1>1, <1>3, <1>4 DEF IInv

-----------------------------------------------------------------------------
(* packetLoop and handlePacket *)

LEMMA ReceiveIInv ==
    ASSUME IInv, NEW a \in Addrs, Receive(a) PROVE IInv'
  <1> DEFINE n == arrived + 1
  <1>1. n \in Datagrams /\ where[n] = "none" /\ \A d \in Datagrams : d > n <=> d > arrived /\ d # n
    BY BoundsAssumption DEF Receive, IInv, TypeOK, Wrapped, Datagrams
  <1> HIDE DEF n
  <1>3. /\ where' = [where EXCEPT ![n] = "lookup"]
        /\ src' = [src EXCEPT ![n] = a]
        /\ arrived' = n /\ buf' = n
        /\ UNCHANGED <<wrapper, udpConns, readChan, chanClosed, conn, connWrapper, stop,
                       panicked, garbled, early>>
    BY DEF Receive, conns, n
  <1>2. TypeOK'
    <2>1. overlap' \in BOOLEAN
      BY DEF Receive, IInv, TypeOK
    <2> QED
      BY <1>1, <1>3, <2>1 DEF IInv, TypeOK, Places, Datagrams
  <1>4. Wrapped'
    <2>1. ASSUME NEW d \in Datagrams PROVE where'[d] = "none" <=> d > arrived'
      BY <1>1, <1>3 DEF IInv, TypeOK, Wrapped
    <2>2. ASSUME NEW d \in Datagrams,
                 where'[d] \in {"send", "queued", "held", "read", "dropped"}
          PROVE  /\ wrapper'[d] \in Datagrams
                 /\ where'[wrapper'[d]] \notin {"none", "lookup", "store"}
                 /\ src'[wrapper'[d]] = src'[d]
      BY <1>1, <1>3, <2>2 DEF IInv, TypeOK, Wrapped
    <2> QED
      BY <2>1, <2>2 DEF Wrapped
  <1>5. Stored'
    BY <1>1, <1>3 DEF IInv, TypeOK, Stored, Datagrams
  <1>6. Queues' /\ InQueue' /\ Made'
    BY <1>1, <1>3 DEF IInv, TypeOK, Queues, InQueue, Made, Queued
  <1>7. Paced'
    BY <1>1, <1>3 DEF Receive, IInv, TypeOK, Paced, Outstanding
  <1>8. Closed' /\ PanicNeedsStop'
    BY <1>1, <1>3 DEF IInv, TypeOK, Closed, PanicNeedsStop
  <1> QED
    BY <1>2, <1>4, <1>5, <1>6, <1>7, <1>8 DEF IInv

LEMMA LookupIInv ==
    ASSUME IInv, NEW d \in Datagrams, Lookup(d) PROVE IInv'
  <1>1. TypeOK'
    BY DEF Lookup, IInv, TypeOK, Places, conns, history
  <1>2. Wrapped'
    BY DEF Lookup, IInv, TypeOK, Wrapped, Stored, Datagrams
  <1>3. Stored'
    BY DEF Lookup, IInv, TypeOK, Stored, Datagrams
  <1>4. Queues' /\ InQueue'
    BY DEF Lookup, IInv, TypeOK, Queues, InQueue, Queued
  <1>5. Made'
    BY DEF Lookup, IInv, TypeOK, Made, conns
  <1>6. Paced'
    BY DEF Lookup, IInv, TypeOK, Paced, Outstanding, history
  <1>7. Closed' /\ PanicNeedsStop'
    BY DEF Lookup, IInv, TypeOK, Closed, PanicNeedsStop, history
  <1> QED
    BY <1>1, <1>2, <1>3, <1>4, <1>5, <1>6, <1>7 DEF IInv

LEMMA StoreIInv ==
    ASSUME IInv, NEW d \in Datagrams, Store(d) PROVE IInv'
  <1>1. TypeOK'
    BY DEF Store, IInv, TypeOK, Places, conns, Datagrams
  <1>2. Wrapped'
    BY DEF Store, IInv, TypeOK, Wrapped, Datagrams
  <1>3. Stored'
    <2> SUFFICES ASSUME NEW a \in Addrs, udpConns'[a] # 0
                 PROVE  where'[udpConns'[a]] \notin {"none", "lookup", "store"} /\ src'[udpConns'[a]] = a
      BY DEF Stored
    <2>1. CASE a = src[d]
      BY <2>1 DEF Store, IInv, TypeOK
    <2>2. CASE a # src[d]
      BY <2>2 DEF Store, IInv, TypeOK, Stored, Datagrams
    <2> QED
      BY <2>1, <2>2
  <1>4. Queues' /\ InQueue'
    BY DEF Store, IInv, TypeOK, Queues, InQueue, Queued
  <1>5. Made'
    BY DEF Store, IInv, TypeOK, Made, conns
  <1>6. Paced'
    BY DEF Store, IInv, TypeOK, Paced, Outstanding
  <1>7. Closed' /\ PanicNeedsStop'
    BY DEF Store, IInv, TypeOK, Closed, PanicNeedsStop
  <1> QED
    BY <1>1, <1>2, <1>3, <1>4, <1>5, <1>6, <1>7 DEF IInv

LEMMA SendIInv ==
    ASSUME IInv, NEW d \in Datagrams, Send(d) PROVE IInv'
  <1> DEFINE w == wrapper[d]
  <1>1. w \in Datagrams /\ readChan[w] \in Seq(Datagrams) /\ Unique(readChan[w])
    BY DEF Send, IInv, TypeOK, Wrapped, Queues
  <1>2. \A v \in Datagrams : d \notin Range(readChan[v])
    BY DEF Send, IInv, Queues, Queued
  <1>3. /\ UNCHANGED <<arrived, buf, src, wrapper, udpConns, chanClosed, conn, connWrapper, stop,
                       panicked, overlap, garbled, early>>
        /\ where[d] = "send" /\ w \notin chanClosed
    BY DEF Send, conns, history
  <1>4. where' = [where EXCEPT ![d] = "queued"] \/ where' = [where EXCEPT ![d] = "dropped"]
    BY DEF Send
  <1>5. /\ readChan' \in [Datagrams -> Seq(Datagrams)]
        /\ Queues' /\ InQueue'
    <2>1. CASE Len(readChan[w]) < Capacity
      <3> DEFINE q == Append(readChan[w], d)
      <3>1. /\ readChan' = [readChan EXCEPT ![w] = q]
            /\ where' = [where EXCEPT ![d] = "queued"]
        BY <2>1 DEF Send
      <3>2. /\ q \in Seq(Datagrams) /\ Len(q) = Len(readChan[w]) + 1
            /\ Range(q) = Range(readChan[w]) \cup {d} /\ Unique(q)
        BY <1>1, <1>2, AppendUnique
      <3> HIDE DEF q, w
      <3>3. ASSUME NEW v \in Datagrams
            PROVE  Range(readChan'[v]) = IF v = w THEN Range(readChan[w]) \cup {d}
                                                  ELSE Range(readChan[v])
        BY <1>1, <3>1, <3>2 DEF IInv, TypeOK
      <3>4. Len(q) <= Capacity
        BY <2>1, <1>1, <3>2, BoundsAssumption
      <3>5. readChan' \in [Datagrams -> Seq(Datagrams)]
        BY <1>1, <3>1, <3>2 DEF IInv, TypeOK
      <3>6. ASSUME NEW v \in Datagrams
            PROVE  /\ Len(readChan'[v]) <= Capacity
                   /\ Unique(readChan'[v])
        <4>1. Len(readChan[v]) <= Capacity /\ Unique(readChan[v])
          BY DEF IInv, Queues
        <4>2. readChan'[v] = IF v = w THEN q ELSE readChan[v]
          BY <1>1, <3>1 DEF IInv, TypeOK
        <4> QED
          BY <3>2, <3>4, <4>1, <4>2
      <3>7. ASSUME NEW v \in Datagrams, NEW e \in Range(readChan'[v])
            PROVE  where'[e] = "queued" /\ wrapper'[e] = v
        <4>1. CASE e = d
          BY <4>1, <1>1, <1>2, <1>3, <3>1, <3>3 DEF IInv, TypeOK, w
        <4>2. CASE e # d
          <5>1. e \in Range(readChan[v])
            BY <4>2, <3>3, <3>7
          <5> QED
            BY <5>1, <4>2, <1>3, <3>1 DEF IInv, TypeOK, Queues, Queued
        <4> QED
          BY <4>1, <4>2
      <3>8. Queues'
        BY <3>6, <3>7 DEF Queues, Queued
      <3>9. InQueue'
        <4> SUFFICES ASSUME NEW e \in Datagrams, where'[e] = "queued"
                     PROVE  e \in Range(readChan'[wrapper[e]])
          BY <1>3 DEF InQueue, Queued
        <4>1. CASE e = d
          BY <4>1, <1>1, <3>3 DEF w
        <4>2. CASE e # d
          <5>1. where[e] = "queued" /\ wrapper[e] \in Datagrams /\ e \in Range(readChan[wrapper[e]])
            BY <4>2, <3>1 DEF IInv, TypeOK, InQueue, Wrapped, Queued
          <5> QED
            BY <5>1, <3>3
        <4> QED
          BY <4>1, <4>2
      <3> QED
        BY <3>5, <3>8, <3>9
    <2>2. CASE ~(Len(readChan[w]) < Capacity)
      <3>1. readChan' = readChan /\ where' = [where EXCEPT ![d] = "dropped"]
        BY <2>2 DEF Send
      <3> QED
        BY <1>2, <1>3, <3>1 DEF IInv, TypeOK, Queues, InQueue, Queued
    <2> QED
      BY <2>1, <2>2
  <1> HIDE DEF w
  <1>6. TypeOK'
    BY <1>3, <1>4, <1>5 DEF IInv, TypeOK, Places
  <1>7. Wrapped' /\ Stored'
    <2>1. \A e \in Datagrams : /\ where'[e] # where[e] => e = d
                               /\ where'[d] \in {"queued", "dropped"}
      BY <1>4 DEF IInv, TypeOK
    <2>2. Wrapped'
      BY <1>3, <2>1 DEF IInv, TypeOK, Wrapped
    <2>3. Stored'
      <3>1. ASSUME NEW a \in Addrs, udpConns[a] # 0
            PROVE  udpConns[a] \in Datagrams
        BY <3>1, BoundsAssumption DEF IInv, TypeOK, Datagrams
      <3> QED
        BY <1>3, <2>1, <3>1 DEF IInv, TypeOK, Stored
    <2> QED
      BY <2>2, <2>3
  <1>8. Made'
    BY <1>3, <1>4 DEF IInv, TypeOK, Made
  <1>9. Paced'
    BY <1>3, <1>4 DEF IInv, TypeOK, Paced, Outstanding
  <1>10. Closed' /\ PanicNeedsStop'
    BY <1>3, <1>4 DEF IInv, TypeOK, Closed, PanicNeedsStop
  <1> QED
    BY <1>5, <1>6, <1>7, <1>8, <1>9, <1>10 DEF IInv

LEMMA SendPanicsIInv ==
    ASSUME IInv, NEW d \in Datagrams, SendPanics(d) PROVE IInv'
  <1>1. /\ UNCHANGED <<arrived, buf, src, where, wrapper, udpConns, readChan, chanClosed, conn,
                       connWrapper, stop, overlap, garbled, early>>
        /\ panicked' = d /\ where[d] = "send" /\ wrapper[d] \in chanClosed
    BY DEF SendPanics, conns, history
  <1>2. PanicNeedsStop'
    BY <1>1 DEF IInv, Closed, PanicNeedsStop
  <1> QED
    BY <1>1, <1>2
    DEF IInv, TypeOK, Wrapped, Stored, Queues, InQueue, Queued, Made, Paced, Outstanding, Closed
-----------------------------------------------------------------------------
(* Taking from a readChan: acceptUDP and the Read of a UDPConn *)

\* What both do: the datagram at the head of a channel leaves it.
LEMMA TakeQueues ==
    ASSUME IInv, NEW w \in Datagrams, readChan[w] # <<>>, NEW p \in {"held", "read"},
           where' = [where EXCEPT ![Head(readChan[w])] = p],
           readChan' = [readChan EXCEPT ![w] = Tail(@)],
           UNCHANGED <<wrapper, src>>
    PROVE  LET d == Head(readChan[w])
           IN  /\ d \in Datagrams /\ where[d] = "queued" /\ wrapper[d] = w
               /\ readChan' \in [Datagrams -> Seq(Datagrams)]
               /\ Queues' /\ InQueue'
  <1> DEFINE d == Head(readChan[w])
             q == Tail(readChan[w])
  <1>1. readChan[w] \in Seq(Datagrams) /\ Unique(readChan[w])
    BY DEF IInv, TypeOK, Queues
  <1>2. /\ d \in Range(readChan[w]) /\ q \in Seq(Datagrams)
        /\ Len(q) <= Len(readChan[w])
        /\ Range(q) = Range(readChan[w]) \ {d} /\ Unique(q)
    BY <1>1, TailUnique
  <1>3. d \in Datagrams /\ where[d] = "queued" /\ wrapper[d] = w
    BY <1>1, <1>2, RangeSeq DEF IInv, Queues, Queued
  <1>4. where' = [where EXCEPT ![d] = p] /\ readChan' = [readChan EXCEPT ![w] = q]
    OBVIOUS
  <1>5. Len(readChan[w]) \in Nat /\ Len(q) \in Nat
    BY <1>1, <1>2
  <1> HIDE DEF d, q
  <1>6. readChan' \in [Datagrams -> Seq(Datagrams)]
    BY <1>2, <1>4 DEF IInv, TypeOK
  <1>7. ASSUME NEW v \in Datagrams
        PROVE  Range(readChan'[v]) = Range(readChan[v]) \ {d}
    <2>1. CASE v = w
      BY <2>1, <1>2, <1>4 DEF IInv, TypeOK
    <2>2. CASE v # w
      <3>1. readChan'[v] = readChan[v]
        BY <2>2, <1>4 DEF IInv, TypeOK
      <3>2. d \notin Range(readChan[v])
        BY <2>2, <1>3 DEF IInv, Queues, Queued
      <3> QED
        BY <3>1, <3>2
    <2> QED
      BY <2>1, <2>2
  <1>8. Queues'
    <2>1. ASSUME NEW v \in Datagrams
          PROVE  Len(readChan'[v]) <= Capacity /\ Unique(readChan'[v])
      <3>1. Len(readChan[v]) <= Capacity /\ Unique(readChan[v])
        BY DEF IInv, Queues
      <3>2. CASE v = w
        <4>1. readChan'[v] = q
          BY <3>2, <1>4 DEF IInv, TypeOK
        <4>2. Len(q) <= Capacity
          BY <3>1, <3>2, <1>2, <1>5, BoundsAssumption
        <4> QED
          BY <4>1, <4>2, <1>2
      <3>3. CASE v # w
        <4>1. readChan'[v] = readChan[v]
          BY <3>3, <1>4 DEF IInv, TypeOK
        <4> QED
          BY <3>1, <4>1
      <3> QED
        BY <3>2, <3>3
    <2>2. ASSUME NEW v \in Datagrams, NEW e \in Range(readChan'[v])
          PROVE  where'[e] = "queued" /\ wrapper'[e] = v
      <3>1. e \in Range(readChan[v]) /\ e # d
        BY <1>7, <2>2
      <3>2. where[e] = "queued" /\ wrapper[e] = v
        BY <3>1 DEF IInv, Queues, Queued
      <3>3. where \in [Datagrams -> Places] /\ readChan[v] \in Seq(Datagrams)
        BY DEF IInv, TypeOK
      <3>4. e \in Datagrams
        BY <3>1, <3>3, RangeSeq
      <3>5. where'[e] = where[e]
        BY <1>4, <3>1, <3>3, <3>4
      <3> QED
        BY <3>2, <3>5
    <2> QED
      BY <2>1, <2>2 DEF Queues, Queued
  <1>9. InQueue'
    <2> SUFFICES ASSUME NEW e \in Datagrams, where'[e] = "queued"
                 PROVE  e \in Range(readChan'[wrapper[e]])
      BY DEF InQueue, Queued
    <2>1. e # d /\ where[e] = "queued"
      BY <1>3, <1>4 DEF IInv, TypeOK
    <2>2. wrapper[e] \in Datagrams /\ e \in Range(readChan[wrapper[e]])
      BY <2>1 DEF IInv, Wrapped, InQueue, Queued
    <2> QED
      BY <2>1, <2>2, <1>7
  <1> QED
    BY <1>3, <1>6, <1>8, <1>9 DEF d

LEMMA AcceptIInv ==
    ASSUME IInv, NEW w \in Datagrams, Accept(w) PROVE IInv'
  <1> DEFINE d == Head(readChan[w])
  <1>1. /\ d \in Datagrams /\ where[d] = "queued" /\ wrapper[d] = w
        /\ readChan' \in [Datagrams -> Seq(Datagrams)]
        /\ Queues' /\ InQueue'
    BY TakeQueues DEF Accept
  <1>2. /\ where' = [where EXCEPT ![d] = "held"]
        /\ conn' = [conn EXCEPT ![d] = "open"]
        /\ connWrapper' = [connWrapper EXCEPT ![d] = w]
        /\ UNCHANGED <<arrived, buf, src, wrapper, udpConns, chanClosed, stop, panicked, overlap,
                       garbled, early>>
    BY DEF Accept, history
  <1> HIDE DEF d
  <1>3. TypeOK'
    BY <1>1, <1>2 DEF IInv, TypeOK, Places, Datagrams
  <1>4. Wrapped'
    BY <1>1, <1>2 DEF IInv, TypeOK, Wrapped
  <1>5. Stored'
    BY <1>1, <1>2 DEF IInv, TypeOK, Stored, Datagrams
  <1>6. Made'
    BY <1>1, <1>2 DEF IInv, TypeOK, Made
  <1>7. Paced'
    BY <1>1, <1>2 DEF IInv, TypeOK, Paced, Outstanding
  <1>8. Closed' /\ PanicNeedsStop'
    BY <1>1, <1>2 DEF IInv, TypeOK, Closed, PanicNeedsStop
  <1> QED
    BY <1>1, <1>3, <1>4, <1>5, <1>6, <1>7, <1>8 DEF IInv

LEMMA ReadTakeIInv ==
    ASSUME IInv, NEW c \in Datagrams, ReadTake(c) PROVE IInv'
  <1> DEFINE w == connWrapper[c]
             d == Head(readChan[w])
  <1>1. w \in Datagrams /\ where[c] \in {"held", "read"}
    BY DEF ReadTake, IInv, TypeOK, Made, Wrapped
  <1>2. /\ readChan[w] # <<>>
        /\ where' = [where EXCEPT ![d] = "read"]
        /\ readChan' = [readChan EXCEPT ![w] = Tail(@)]
        /\ garbled' = IF d = buf THEN garbled ELSE garbled \cup {d}
        /\ conn[c] = "reading" /\ conn' = [conn EXCEPT ![c] = "open"]
        /\ UNCHANGED <<arrived, buf, src, wrapper, udpConns, chanClosed, connWrapper, stop, panicked,
                       overlap, early>>
    BY DEF ReadTake, Garbled
  <1>3. /\ d \in Datagrams /\ where[d] = "queued" /\ wrapper[d] = w
        /\ readChan' \in [Datagrams -> Seq(Datagrams)]
        /\ Queues' /\ InQueue'
    <2> HIDE DEF w
    <2> QED
      BY <1>1, <1>2, TakeQueues
  <1> HIDE DEF d, w
  <1>4. TypeOK'
    BY <1>2, <1>3 DEF IInv, TypeOK, Places
  <1>5. Wrapped'
    BY <1>2, <1>3 DEF IInv, TypeOK, Wrapped
  <1>6. Stored'
    BY <1>2, <1>3 DEF IInv, TypeOK, Stored, Datagrams
  <1>7. Made'
    BY <1>2, <1>3 DEF IInv, TypeOK, Made
  <1>8. Paced'
    BY <1>2, <1>3 DEF IInv, TypeOK, Paced, Outstanding
  <1>9. Closed' /\ PanicNeedsStop'
    BY <1>2, <1>3 DEF IInv, TypeOK, Closed, PanicNeedsStop
  <1> QED
    BY <1>3, <1>4, <1>5, <1>6, <1>7, <1>8, <1>9 DEF IInv

LEMMA ReadHeldIInv ==
    ASSUME IInv, NEW c \in Datagrams, ReadHeld(c) PROVE IInv'
  <1>1. /\ where[c] = "held" /\ where' = [where EXCEPT ![c] = "read"]
        /\ garbled' = IF c = buf THEN garbled ELSE garbled \cup {c}
        /\ UNCHANGED <<arrived, buf, src, wrapper, udpConns, readChan, chanClosed, conn,
                       connWrapper, stop, panicked, overlap, early>>
    BY DEF ReadHeld, Garbled, conns
  <1>2. TypeOK'
    BY <1>1 DEF IInv, TypeOK, Places
  <1>3. Wrapped'
    BY <1>1 DEF IInv, TypeOK, Wrapped
  <1>4. Stored'
    BY <1>1 DEF IInv, TypeOK, Stored, Datagrams
  <1>5. Queues' /\ InQueue'
    BY <1>1 DEF IInv, TypeOK, Queues, InQueue, Queued
  <1>6. Made'
    BY <1>1 DEF IInv, TypeOK, Made
  <1>7. Paced'
    BY <1>1 DEF IInv, TypeOK, Paced, Outstanding
  <1>8. Closed' /\ PanicNeedsStop'
    BY <1>1 DEF IInv, TypeOK, Closed, PanicNeedsStop
  <1> QED
    BY <1>2, <1>3, <1>4, <1>5, <1>6, <1>7, <1>8 DEF IInv

\* The steps of a connection that leave the channels alone.
LEMMA ConnIInv ==
    ASSUME IInv, NEW c \in Datagrams, ReadWait(c) \/ ReadClosed(c) \/ Close(c) PROVE IInv'
  <1>1. /\ conn[c] # "none" /\ where[c] # "held"
        /\ \E s \in {"reading", "closed"} : conn' = [conn EXCEPT ![c] = s]
        /\ UNCHANGED <<arrived, buf, src, where, wrapper, udpConns, readChan, chanClosed,
                       connWrapper, stop, panicked, overlap, garbled, early>>
    BY DEF ReadWait, ReadClosed, Close, history, IInv, Made
  <1>2. TypeOK'
    BY <1>1 DEF IInv, TypeOK
  <1>3. Made'
    BY <1>1 DEF IInv, TypeOK, Made
  <1> QED
    BY <1>1, <1>2, <1>3
    DEF IInv, Wrapped, Stored, Queues, InQueue, Queued, Paced, Outstanding, Closed, PanicNeedsStop

-----------------------------------------------------------------------------
LEMMA StopIInv ==
    ASSUME IInv, panicked = 0, StopSignal \/ StopPacketConn \/ StopChannels PROVE IInv'
  <1>1. CASE StopSignal \/ StopPacketConn
    BY <1>1
    DEF StopSignal, StopPacketConn, conns, history, IInv, TypeOK, Wrapped, Stored, Queues, InQueue,
        Queued, Made, Paced, Outstanding, Closed, PanicNeedsStop
  <1>2. CASE StopChannels
    <2>1. /\ stop' = "done" /\ chanClosed = {}
          /\ udpConns' = [a \in Addrs |-> 0]
          /\ early' = {d \in Datagrams : where[d] = "send"}
          /\ UNCHANGED <<arrived, buf, src, where, wrapper, readChan, conn, connWrapper, panicked,
                         overlap, garbled>>
      BY <1>2 DEF StopChannels, conns, IInv, Closed
    <2>2. ASSUME NEW w \in chanClosed'
          PROVE  w \in Datagrams /\ where[w] \notin {"none", "lookup", "store"}
      <3>1. PICK a \in Addrs : w = udpConns[a] /\ w # 0
        BY <1>2, <2>2 DEF StopChannels, Range, IInv, TypeOK
      <3> QED
        BY <3>1, BoundsAssumption DEF IInv, TypeOK, Stored, Datagrams
    <2>3. TypeOK'
      BY <2>1, <2>2, BoundsAssumption DEF IInv, TypeOK
    <2>4. Stored'
      BY <2>1 DEF Stored
    <2>5. Closed' /\ PanicNeedsStop'
      BY <2>1, <2>2, panicked = 0 DEF Closed, PanicNeedsStop, Datagrams
    <2> QED
      BY <2>1, <2>3, <2>4, <2>5
      DEF IInv, Wrapped, Queues, InQueue, Queued, Made, Paced, Outstanding
  <1> QED
    BY <1>1, <1>2

LEMMA NextIInv == IInv /\ [Next]_vars => IInv'
  <1> SUFFICES ASSUME IInv, [Next]_vars PROVE IInv'
    OBVIOUS
  <1>1. CASE Next
    <2>1. ASSUME NEW a \in Addrs, Receive(a) PROVE IInv'
      BY <2>1, ReceiveIInv
    <2>2. ASSUME NEW d \in Datagrams, HandlePacket(d) PROVE IInv'
      BY <2>2, LookupIInv, StoreIInv, SendIInv, SendPanicsIInv DEF HandlePacket
    <2>3. ASSUME NEW w \in Datagrams, Accept(w) PROVE IInv'
      BY <2>3, AcceptIInv
    <2>4. ASSUME NEW c \in Datagrams, Connection(c) PROVE IInv'
      BY <2>4, ReadHeldIInv, ReadTakeIInv, ConnIInv DEF Connection
    <2>5. ASSUME panicked = 0, StopSignal \/ StopPacketConn \/ StopChannels PROVE IInv'
      BY <2>5, StopIInv
    <2> QED
      BY <1>1, <2>1, <2>2, <2>3, <2>4, <2>5 DEF Next
  <1>2. CASE UNCHANGED vars
    BY <1>2
    DEF vars, conns, history, IInv, TypeOK, Wrapped, Stored, Queues, InQueue, Queued, Made, Paced,
        Outstanding, Closed, PanicNeedsStop
  <1> QED
    BY <1>1, <1>2

\* The inductive invariant holds in every reachable state.
THEOREM Invariant == Spec => []IInv
  BY InitIInv, NextIInv, PTL DEF Spec

\* Every datagram is in one place, and no channel mixes two addresses.
THEOREM OnePlace == Spec => []Accounted
  <1>1. IInv => Accounted
    <2> SUFFICES ASSUME IInv PROVE Accounted
      OBVIOUS
    <2>1. ASSUME NEW w \in Datagrams
          PROVE  /\ Len(readChan[w]) <= Capacity
                 /\ \A i, j \in 1..Len(readChan[w]) : readChan[w][i] = readChan[w][j] => i = j
      BY DEF IInv, Queues, Unique
    <2>2. ASSUME NEW w \in Datagrams, NEW d \in Queued(w)
          PROVE  where[d] = "queued" /\ wrapper[d] = w /\ src[d] = src[w]
      <3>1. d \in Datagrams
        BY <2>2, RangeSeq DEF IInv, TypeOK, Queued
      <3> QED
        BY <2>2, <3>1 DEF IInv, Queues, Wrapped
    <2>3. ASSUME NEW c \in Datagrams, conn[c] # "none"
          PROVE  /\ where[c] \in {"held", "read"}
                 /\ connWrapper[c] = wrapper[c] /\ src[connWrapper[c]] = src[c]
      BY <2>3 DEF IInv, Made, Wrapped
    <2> QED
      BY <2>1, <2>2, <2>3 DEF Accounted, IInv, InQueue, Made
  <1> QED
    BY <1>1, Invariant, PTL

\* Datagrams that do not overlap reach their readers intact.
THEOREM Intact == Spec => []PacedIntact
  <1>1. IInv => PacedIntact
    BY DEF IInv, Paced, PacedIntact
  <1> QED
    BY <1>1, Invariant, PTL

\* Only a goroutine that Inbound.Stop overtook between map and channel panics.
THEOREM PanicsOnlyAtStop == Spec => []PanicNeedsStop
  <1>1. IInv => PanicNeedsStop
    BY DEF IInv
  <1> QED
    BY <1>1, Invariant, PTL
=============================================================================
