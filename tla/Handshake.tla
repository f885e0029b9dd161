----------------------------- MODULE Handshake -----------------------------
(***************************************************************************)
(* The SYN/ACK handshake that opens a tunnel (internal/shred/handshake.go) *)
(* over datagrams, between client attempts (PerformClientHandshake, called *)
(* by Client.Start) and server goroutines (PerformServerHandshake, one per *)
(* connection handed out by Inbound.Accept) that share one HandshakeState. *)
(*                                                                         *)
(* The network keeps every datagram ever written.  A datagram may be read  *)
(* any number of times, at any later time, or never: loss, delay,          *)
(* reordering and duplication.  The three writes of the same packet 200 ms *)
(* apart are therefore one send.                                           *)
(*                                                                         *)
(* Time is in ticks; the code's 30 s, 1 min and 10 s are constants.        *)
(***************************************************************************)
EXTENDS Integers, FiniteSets

CONSTANTS
    Attempts,      \* client handshake attempts; an attempt is the sequence number it sends
    Handlers,      \* server goroutines running PerformServerHandshake
    NoTail,        \* attempts whose CurrentMode is 0: Encode leaves out everything after Modes
    SumZero,       \* attempts whose header bytes XOR to 0, the value a missing checksum decodes to
    FirstZero,     \* attempts whose Modes[0] is 0
    ReplayWindow,  \* the 30 seconds given to IsReplay
    PurgeAge,      \* the minute after which MarkSeen forgets a sequence
    Timeout,       \* HandshakeManager.timeout
    MaxTime        \* bound on the clock

ASSUME AttemptsAssumption ==
    /\ Attempts \subseteq Nat \ {0}
    /\ NoTail \subseteq Attempts
    /\ SumZero \subseteq Attempts
    /\ FirstZero \subseteq Attempts

ASSUME TimesAssumption ==
    /\ ReplayWindow \in Nat \ {0}
    /\ PurgeAge \in Nat
    /\ ReplayWindow <= PurgeAge
    /\ Timeout \in Nat
    /\ MaxTime \in Nat

VARIABLES
    now,         \* the clock
    lastSeen,    \* server HandshakeState.LastSeen: a function from sequences to times
    sequence,    \* server HandshakeState.Sequence
    pc,          \* where each handler is
    syn,         \* the attempt whose SYN a handler read (0: none)
    ackSeq,      \* the sequence a handler put into its ACK (0: none)
    cpc,         \* where each attempt is
    deadline,    \* read deadline of an attempt
    got,         \* the sequence of the ACK an attempt accepted (0: none)
    clientSeen,  \* LastSeen of the client's own HandshakeState during the attempt
    synNet,      \* SYNs ever written
    ackNet,      \* ACKs ever written
    marked       \* history: when each sequence was last marked seen (-1: never)

server == <<lastSeen, sequence, pc, syn, ackSeq, marked>>
client == <<cpc, deadline, got, clientSeen>>
vars == <<now, server, client, synNet, ackNet>>

Sequences0 == Attempts \cup {0}
AckMessages == [to : Attempts, seq : Nat]

-----------------------------------------------------------------------------
(* What Encode and DecodeHandshake make of an attempt's SYN and of the ACK   *)
(* that answers it.  Without the tail the decoder sees sequence 0, checksum  *)
(* 0 and Modes[0] as the current mode.                                       *)

SynSequence(a) == IF a \in NoTail THEN 0 ELSE a

SynDecodes(a) == a \in NoTail => a \in SumZero

\* The ACK repeats the decoded configuration, so it lacks its tail when the
\* mode the server decoded is 0; its type differs from the SYN's, and then its
\* header cannot XOR to 0 as well.
AckDecodes(a) == ~(a \in NoTail /\ a \in FirstZero)

-----------------------------------------------------------------------------
(* HandshakeState *)

IsReplay(s) == s \in DOMAIN lastSeen /\ now - lastSeen[s] < ReplayWindow

\* Mutant of Expired: keeps the old and forgets the young.
ExpiredInverted(t) == now - t < PurgeAge

Expired(t) == now - t > PurgeAge

\* LastSeen after storing the sequence and deleting what is older than a minute.
MarkSeenMap(s) ==
    LET stored == [q \in DOMAIN lastSeen \cup {s} |->
                     IF q = s THEN now ELSE lastSeen[q]]
    IN  [q \in {r \in DOMAIN stored : ~Expired(stored[r])} |-> stored[q]]

-----------------------------------------------------------------------------
(* Server: one handler per accepted connection *)

\* acceptUDP found a datagram and handleConnection starts on it.  Besides SYNs,
\* a keep-alive byte or a data packet may be handed out: it is not a signed
\* handshake and the handler returns ErrAuthFailed.
HandlerAuthFail(h) ==
    /\ pc[h] = "idle"
    /\ pc' = [pc EXCEPT ![h] = "failed"]
    /\ UNCHANGED <<now, lastSeen, sequence, syn, ackSeq, marked, client, synNet, ackNet>>

HandlerRead(h, a) ==
    /\ pc[h] = "idle"
    /\ a \in synNet
    /\ pc' = [pc EXCEPT ![h] = "check"]
    /\ syn' = [syn EXCEPT ![h] = a]
    /\ UNCHANGED <<now, lastSeen, sequence, ackSeq, marked, client, synNet, ackNet>>

\* Mutants of HandlerCheck: a replay is answered too; a replay is waited out.
HandlerCheckAcksReplay(h) ==
    /\ pc[h] = "check"
    /\ pc' = [pc EXCEPT ![h] =
                IF SynDecodes(syn[h]) /\ ~IsReplay(SynSequence(syn[h]))
                THEN "mark" ELSE "ack"]
    /\ UNCHANGED <<now, lastSeen, sequence, syn, ackSeq, marked, client, synNet, ackNet>>

HandlerCheckWaits(h) ==
    /\ pc[h] = "check"
    /\ pc' = [pc EXCEPT ![h] =
                IF SynDecodes(syn[h]) /\ ~IsReplay(SynSequence(syn[h]))
                THEN "mark" ELSE pc[h]]
    /\ UNCHANGED <<now, lastSeen, sequence, syn, ackSeq, marked, client, synNet, ackNet>>

\* Decode and IsReplay; the read lock is released before MarkSeen takes the
\* write lock.
HandlerCheck(h) ==
    /\ pc[h] = "check"
    /\ pc' = [pc EXCEPT ![h] =
                IF SynDecodes(syn[h]) /\ ~IsReplay(SynSequence(syn[h]))
                THEN "mark" ELSE "failed"]
    /\ UNCHANGED <<now, lastSeen, sequence, syn, ackSeq, marked, client, synNet, ackNet>>

HandlerMark(h) ==
    /\ pc[h] = "mark"
    /\ lastSeen' = MarkSeenMap(SynSequence(syn[h]))
    /\ marked' = [marked EXCEPT ![SynSequence(syn[h])] = now]
    /\ pc' = [pc EXCEPT ![h] = "seq"]
    /\ UNCHANGED <<now, sequence, syn, ackSeq, client, synNet, ackNet>>

\* Mutant of HandlerNextSequence: the incremented counter is not stored.
HandlerNextSequenceNoStore(h) ==
    /\ pc[h] = "seq"
    /\ ackSeq' = [ackSeq EXCEPT ![h] = sequence + 1]
    /\ pc' = [pc EXCEPT ![h] = "ack"]
    /\ UNCHANGED <<now, lastSeen, sequence, syn, marked, client, synNet, ackNet>>

HandlerNextSequence(h) ==
    /\ pc[h] = "seq"
    /\ sequence' = sequence + 1
    /\ ackSeq' = [ackSeq EXCEPT ![h] = sequence + 1]
    /\ pc' = [pc EXCEPT ![h] = "ack"]
    /\ UNCHANGED <<now, lastSeen, syn, marked, client, synNet, ackNet>>

\* The three writes of the ACK; the session configuration is returned.
HandlerSendAck(h) ==
    /\ pc[h] = "ack"
    /\ ackNet' = ackNet \cup {[to |-> syn[h], seq |-> ackSeq[h]]}
    /\ pc' = [pc EXCEPT ![h] = "done"]
    /\ UNCHANGED <<now, lastSeen, sequence, syn, ackSeq, marked, client, synNet>>

-----------------------------------------------------------------------------
(* Client *)

\* Client.Start up to the read: ResetReplayState, three writes of the SYN,
\* SetReadDeadline.
ClientSendSyn(a) ==
    /\ cpc[a] = "idle"
    /\ now + Timeout <= MaxTime
    /\ synNet' = synNet \cup {a}
    /\ clientSeen' = [clientSeen EXCEPT ![a] = {}]
    /\ deadline' = [deadline EXCEPT ![a] = now + Timeout]
    /\ cpc' = [cpc EXCEPT ![a] = "wait"]
    /\ UNCHANGED <<now, server, got, ackNet>>

\* Mutant of ClientRecvAck: the attempt succeeds without an answer.
ClientRecvAckBlind(a) ==
    /\ cpc[a] = "wait"
    /\ cpc' = [cpc EXCEPT ![a] = "ok"]
    /\ UNCHANGED <<now, server, deadline, got, clientSeen, synNet, ackNet>>

\* One read, one ACK: verified, decoded, checked against the client's own
\* replay state and marked.
ClientRecvAck(a) ==
    /\ cpc[a] = "wait"
    /\ \E m \in ackNet :
         /\ m.to = a
         /\ IF AckDecodes(a) /\ m.seq \notin clientSeen[a]
            THEN /\ clientSeen' = [clientSeen EXCEPT ![a] = @ \cup {m.seq}]
                 /\ got' = [got EXCEPT ![a] = m.seq]
                 /\ cpc' = [cpc EXCEPT ![a] = "ok"]
            ELSE /\ cpc' = [cpc EXCEPT ![a] = "failed"]
                 /\ UNCHANGED <<clientSeen, got>>
    /\ UNCHANGED <<now, server, deadline, synNet, ackNet>>

\* A data packet of the new session overtakes the ACK: it is not a signed
\* handshake and ends the attempt.
ClientAuthFail(a) ==
    /\ cpc[a] = "wait"
    /\ \E h \in Handlers : pc[h] = "done" /\ syn[h] = a
    /\ cpc' = [cpc EXCEPT ![a] = "failed"]
    /\ UNCHANGED <<now, server, deadline, got, clientSeen, synNet, ackNet>>

ClientTimeout(a) ==
    /\ cpc[a] = "wait"
    /\ now >= deadline[a]
    /\ cpc' = [cpc EXCEPT ![a] = "failed"]
    /\ UNCHANGED <<now, server, deadline, got, clientSeen, synNet, ackNet>>

Tick ==
    /\ now < MaxTime
    /\ now' = now + 1
    /\ UNCHANGED <<server, client, synNet, ackNet>>

-----------------------------------------------------------------------------
Init ==
    /\ now = 0
    /\ lastSeen = [s \in {} |-> 0]
    /\ sequence = 0
    /\ pc = [h \in Handlers |-> "idle"]
    /\ syn = [h \in Handlers |-> 0]
    /\ ackSeq = [h \in Handlers |-> 0]
    /\ cpc = [a \in Attempts |-> "idle"]
    /\ deadline = [a \in Attempts |-> 0]
    /\ got = [a \in Attempts |-> 0]
    /\ clientSeen = [a \in Attempts |-> {}]
    /\ synNet = {}
    /\ ackNet = {}
    /\ marked = [s \in Sequences0 |-> -1]

HandlerStep(h) ==
    \/ HandlerCheck(h)
    \/ HandlerMark(h)
    \/ HandlerNextSequence(h)
    \/ HandlerSendAck(h)

Next ==
    \/ \E h \in Handlers : HandlerAuthFail(h)
    \/ \E h \in Handlers, a \in Attempts : HandlerRead(h, a)
    \/ \E h \in Handlers : HandlerStep(h)
    \/ \E a \in Attempts : ClientSendSyn(a)
    \/ \E a \in Attempts : ClientRecvAck(a)
    \/ \E a \in Attempts : ClientAuthFail(a)
    \/ \E a \in Attempts : ClientTimeout(a)
    \/ Tick

Spec == Init /\ [][Next]_vars

\* A goroutine that can run does, a deadline that has passed fires and the
\* clock advances.  Nothing is assumed of the network or of users.
Fairness ==
    /\ \A h \in Handlers : WF_vars(HandlerStep(h))
    /\ \A a \in Attempts : WF_vars(ClientTimeout(a))
    /\ WF_vars(Tick)

FairSpec == Spec /\ Fairness

-----------------------------------------------------------------------------
(* Properties *)

\* Every variable keeps its type.
TypeOK ==
    /\ now \in 0..MaxTime
    /\ DOMAIN lastSeen \subseteq Sequences0
    /\ \A s \in DOMAIN lastSeen : lastSeen[s] \in 0..MaxTime
    /\ sequence \in Nat
    /\ pc \in [Handlers -> {"idle", "check", "mark", "seq", "ack", "done", "failed"}]
    /\ syn \in [Handlers -> Sequences0]
    /\ ackSeq \in [Handlers -> Nat]
    /\ cpc \in [Attempts -> {"idle", "wait", "ok", "failed"}]
    /\ deadline \in [Attempts -> 0..MaxTime]
    /\ got \in [Attempts -> Nat]
    /\ clientSeen \in [Attempts -> SUBSET Nat]
    /\ synNet \subseteq Attempts
    /\ ackNet \subseteq AckMessages
    /\ marked \in [Sequences0 -> -1..MaxTime]

Answered(h) == pc[h] \in {"ack", "done"}

\* A handler never gets past IsReplay with a sequence that some handler marked
\* less than ReplayWindow ago: the purge inside MarkSeen, which runs for other
\* sequences too, forgets nothing the window still needs.
ReplayCheckSound ==
    [][\A h \in Handlers :
         (pc[h] = "check" /\ pc'[h] = "mark") =>
           LET s == SynSequence(syn[h])
           IN  marked[s] = -1 \/ now - marked[s] >= ReplayWindow]_vars

\* No two handlers answer with the same ACK sequence, whatever the interleaving
\* of their NextSequence calls: a client can tell two answers apart.
AckSequencesDistinct ==
    \A h1, h2 \in Handlers :
        (h1 # h2 /\ Answered(h1) /\ Answered(h2)) => ackSeq[h1] # ackSeq[h2]

\* A client that believes the tunnel is open was answered by a handler that
\* read that very attempt's SYN, and two clients never rest on the same answer.
ConnectedIsBacked ==
    \A a \in Attempts : cpc[a] = "ok" =>
        \E h \in Handlers :
            /\ pc[h] = "done"
            /\ syn[h] = a
            /\ ackSeq[h] = got[a]
            /\ got[a] > 0
            /\ marked[SynSequence(a)] >= 0

\* Every attempt that has sent its SYN ends, and so does every handler that has
\* read one: neither side hangs in the handshake.
HandshakeEnds ==
    /\ \A a \in Attempts : cpc[a] = "wait" ~> cpc[a] \in {"ok", "failed"}
    /\ \A h \in Handlers : pc[h] = "check" ~> pc[h] \in {"done", "failed"}

\* The handshake implements Rendezvous: a handler has opened its session when it
\* has sent the ACK, and a client its tunnel when it has accepted one.
Abstract == INSTANCE Rendezvous WITH
    asked <- {a \in Attempts : cpc[a] # "idle"},
    session <- [h \in Handlers |-> IF pc[h] = "done" THEN syn[h] ELSE 0],
    open <- {a \in Attempts : cpc[a] = "ok"},
    gaveUp <- {a \in Attempts : cpc[a] = "failed"}

\* Whatever is lost, delayed, duplicated or replayed between them, clients and
\* handlers take only the steps Rendezvous allows.
ImplementsRendezvous == Abstract!Spec

\* README.md, "strict check of Nonce and timestamps": a SYN opens one session.
SynOpensOneSession ==
    \A h1, h2 \in Handlers :
        (h1 # h2 /\ Answered(h1) /\ Answered(h2)) => syn[h1] # syn[h2]
=============================================================================
