-------------------------- MODULE Handshake_proofs --------------------------
(***************************************************************************)
(* Proofs about Handshake for any number of clients and handlers and any   *)
(* interleaving of them: type correctness, distinct ACK sequences, that a  *)
(* connected client is backed by a server session of its own attempt, and  *)
(* that the replay check is sound although MarkSeen purges its map.        *)
(***************************************************************************)
EXTENDS Handshake, TLAPS

\* What the purge must not forget: a sequence marked within PurgeAge is still
\* in the map with the time it was last marked.
RecentKept ==
    \A s \in Sequences0 :
        (marked[s] # -1 /\ now - marked[s] <= PurgeAge)
            => s \in DOMAIN lastSeen /\ lastSeen[s] = marked[s]

\* A handler past its read holds an attempt; past MarkSeen, a marked one.
HandlerHoldsSyn ==
    \A h \in Handlers :
        /\ pc[h] \in {"check", "mark", "seq", "ack", "done"} => syn[h] \in Attempts
        /\ pc[h] \in {"seq", "ack", "done"} => marked[SynSequence(syn[h])] # -1

\* ACK sequences come from the shared counter.
AckSequenceBound ==
    \A h \in Handlers : Answered(h) => ackSeq[h] \in 1..sequence

\* Every ACK on the network was written by a handler that is done.
AckBacked ==
    \A m \in ackNet : \E h \in Handlers :
        pc[h] = "done" /\ syn[h] = m.to /\ ackSeq[h] = m.seq

IInv ==
    /\ TypeOK
    /\ RecentKept
    /\ HandlerHoldsSyn
    /\ AckSequenceBound
    /\ AckSequencesDistinct
    /\ AckBacked
    /\ ConnectedIsBacked

\* The sequence the server decodes out of an attempt's SYN.
LEMMA SynSequenceType == ASSUME NEW a \in Sequences0 PROVE SynSequence(a) \in Sequences0
  BY DEF SynSequence, Sequences0

\* No state before the first step violates the invariant.
LEMMA InitIInv == Init => IInv
  <1> SUFFICES ASSUME Init PROVE IInv
    OBVIOUS
  <1>1. TypeOK
    BY TimesAssumption DEF Init, TypeOK, Sequences0
  <1>2. RecentKept /\ HandlerHoldsSyn /\ AckSequenceBound
    BY DEF Init, RecentKept, HandlerHoldsSyn, AckSequenceBound, Answered
  <1>3. AckSequencesDistinct /\ AckBacked /\ ConnectedIsBacked
    BY DEF Init, AckSequencesDistinct, AckBacked, ConnectedIsBacked, Answered
  <1> QED
    BY <1>1, <1>2, <1>3 DEF IInv

\* MarkSeenMap: its domain and its values.
LEMMA MarkSeenMapFacts ==
  ASSUME TypeOK, NEW s \in Sequences0
  PROVE  /\ DOMAIN MarkSeenMap(s) \subseteq Sequences0
         /\ \A q \in DOMAIN MarkSeenMap(s) : MarkSeenMap(s)[q] \in 0..MaxTime
         /\ s \in DOMAIN MarkSeenMap(s) /\ MarkSeenMap(s)[s] = now
         /\ \A q \in DOMAIN lastSeen \ {s} : now - lastSeen[q] <= PurgeAge =>
               q \in DOMAIN MarkSeenMap(s) /\ MarkSeenMap(s)[q] = lastSeen[q]
  <1> DEFINE stored == [q \in DOMAIN lastSeen \cup {s} |->
                          IF q = s THEN now ELSE lastSeen[q]]
             kept == {r \in DOMAIN lastSeen \cup {s} : ~Expired(stored[r])}
  <1>1. MarkSeenMap(s) = [q \in kept |-> stored[q]]
    BY DEF MarkSeenMap
  <1>2. now \in 0..MaxTime /\ DOMAIN lastSeen \subseteq Sequences0
        /\ \A q \in DOMAIN lastSeen : lastSeen[q] \in 0..MaxTime
    BY DEF TypeOK
  <1>3. s \in kept /\ stored[s] = now
    BY <1>2, TimesAssumption DEF Expired
  <1>4. \A q \in kept : stored[q] \in 0..MaxTime
    BY <1>2
  <1>5. \A q \in DOMAIN lastSeen \ {s} : stored[q] = lastSeen[q]
    OBVIOUS
  <1>6. \A q \in DOMAIN lastSeen \ {s} : now - lastSeen[q] <= PurgeAge => q \in kept
    BY <1>2, <1>5, TimesAssumption DEF Expired
  <1>7. kept \subseteq Sequences0
    BY <1>2
  <1> HIDE DEF stored, kept
  <1> QED
    BY <1>1, <1>3, <1>4, <1>5, <1>6, <1>7
-----------------------------------------------------------------------------
(* One lemma per action of the server, of the client and of the clock. *)

\* A datagram that is no handshake only ends its handler.
LEMMA AuthFailIInv ==
  ASSUME IInv, NEW h \in Handlers, HandlerAuthFail(h)
  PROVE  IInv'
  <1> USE DEF HandlerAuthFail, client
  <1>1. TypeOK'
    BY DEF IInv, TypeOK
  <1>2. RecentKept'
    BY DEF IInv, RecentKept
  <1>3. HandlerHoldsSyn'
    BY DEF IInv, TypeOK, HandlerHoldsSyn, SynSequence
  <1>4. AckSequenceBound' /\ AckSequencesDistinct'
    BY DEF IInv, TypeOK, AckSequenceBound, AckSequencesDistinct, Answered
  <1>5. AckBacked'
    BY DEF IInv, TypeOK, AckBacked
  <1>6. ConnectedIsBacked'
    BY DEF IInv, TypeOK, ConnectedIsBacked, SynSequence
  <1> QED
    BY <1>1, <1>2, <1>3, <1>4, <1>5, <1>6 DEF IInv

\* Reading a SYN gives the handler an attempt that was sent.
LEMMA ReadIInv ==
  ASSUME IInv, NEW h \in Handlers, NEW a \in Attempts, HandlerRead(h, a)
  PROVE  IInv'
  <1> USE DEF HandlerRead, client
  <1>1. TypeOK'
    BY DEF IInv, TypeOK, Sequences0
  <1>2. RecentKept'
    BY DEF IInv, RecentKept
  <1>3. HandlerHoldsSyn'
    BY DEF IInv, TypeOK, HandlerHoldsSyn, SynSequence
  <1>4. AckSequenceBound' /\ AckSequencesDistinct'
    BY DEF IInv, TypeOK, AckSequenceBound, AckSequencesDistinct, Answered
  <1>5. AckBacked'
    BY DEF IInv, TypeOK, AckBacked
  <1>6. ConnectedIsBacked'
    BY DEF IInv, TypeOK, ConnectedIsBacked, SynSequence
  <1> QED
    BY <1>1, <1>2, <1>3, <1>4, <1>5, <1>6 DEF IInv

\* The check only moves the handler on or ends it.
LEMMA CheckIInv ==
  ASSUME IInv, NEW h \in Handlers, HandlerCheck(h)
  PROVE  IInv'
  <1>1. /\ pc[h] = "check"
        /\ pc' = [pc EXCEPT ![h] = "mark"] \/ pc' = [pc EXCEPT ![h] = "failed"]
        /\ UNCHANGED <<now, lastSeen, sequence, syn, ackSeq, marked, client, synNet, ackNet>>
    BY DEF HandlerCheck
  <1> USE <1>1 DEF client
  <1>2. TypeOK'
    BY DEF IInv, TypeOK
  <1>3. RecentKept'
    BY DEF IInv, RecentKept
  <1>4. HandlerHoldsSyn'
    BY DEF IInv, TypeOK, HandlerHoldsSyn, SynSequence
  <1>5. AckSequenceBound' /\ AckSequencesDistinct'
    BY DEF IInv, TypeOK, AckSequenceBound, AckSequencesDistinct, Answered
  <1>6. AckBacked'
    BY DEF IInv, TypeOK, AckBacked
  <1>7. ConnectedIsBacked'
    BY DEF IInv, TypeOK, ConnectedIsBacked, SynSequence
  <1> QED
    BY <1>2, <1>3, <1>4, <1>5, <1>6, <1>7 DEF IInv

\* Marking a sequence keeps every recent mark of the others.
LEMMA MarkIInv ==
  ASSUME IInv, NEW h \in Handlers, HandlerMark(h)
  PROVE  IInv'
  <1> DEFINE s == SynSequence(syn[h])
  <1>1. /\ pc[h] = "mark"
        /\ lastSeen' = MarkSeenMap(s)
        /\ marked' = [marked EXCEPT ![s] = now]
        /\ pc' = [pc EXCEPT ![h] = "seq"]
        /\ UNCHANGED <<now, sequence, syn, ackSeq, cpc, deadline, got, clientSeen,
                       synNet, ackNet>>
    BY DEF HandlerMark, client
  <1>2. s \in Sequences0
    BY SynSequenceType DEF IInv, TypeOK
  <1>3. /\ DOMAIN MarkSeenMap(s) \subseteq Sequences0
        /\ \A q \in DOMAIN MarkSeenMap(s) : MarkSeenMap(s)[q] \in 0..MaxTime
        /\ s \in DOMAIN MarkSeenMap(s) /\ MarkSeenMap(s)[s] = now
        /\ \A q \in DOMAIN lastSeen \ {s} : now - lastSeen[q] <= PurgeAge =>
               q \in DOMAIN MarkSeenMap(s) /\ MarkSeenMap(s)[q] = lastSeen[q]
    BY <1>2, MarkSeenMapFacts DEF IInv
  <1>4. now \in 0..MaxTime /\ marked \in [Sequences0 -> -1..MaxTime]
    BY DEF IInv, TypeOK
  <1>5. \A q \in Sequences0 : marked'[q] = IF q = s THEN now ELSE marked[q]
    BY <1>1, <1>4
  <1>6. marked' \in [Sequences0 -> -1..MaxTime]
    BY <1>1, <1>2, <1>4
  <1>7. \A q \in Sequences0 : marked'[q] # -1 <=> (q = s \/ marked[q] # -1)
    BY <1>4, <1>5
  <1>8. \A a \in Sequences0 : SynSequence(a)' = SynSequence(a) /\ SynSequence(a) \in Sequences0
    BY SynSequenceType DEF SynSequence
  <1> HIDE DEF s
  <1>9. TypeOK'
    BY <1>1, <1>3, <1>6 DEF IInv, TypeOK
  <1>10. RecentKept'
    <2> SUFFICES ASSUME NEW q \in Sequences0, marked'[q] # -1, now' - marked'[q] <= PurgeAge
                 PROVE  q \in DOMAIN lastSeen' /\ lastSeen'[q] = marked'[q]
      BY DEF RecentKept
    <2>1. CASE q = s
      BY <2>1, <1>1, <1>3, <1>5
    <2>2. CASE q # s
      <3>1. q \in DOMAIN lastSeen /\ lastSeen[q] = marked[q] /\ now - lastSeen[q] <= PurgeAge
        BY <2>2, <1>1, <1>5 DEF IInv, RecentKept
      <3> QED
        BY <3>1, <2>2, <1>1, <1>3, <1>5
    <2> QED
      BY <2>1, <2>2
  <1>11. HandlerHoldsSyn'
    <2> SUFFICES ASSUME NEW k \in Handlers
                 PROVE  /\ pc'[k] \in {"check", "mark", "seq", "ack", "done"} => syn'[k] \in Attempts
                        /\ pc'[k] \in {"seq", "ack", "done"} => marked'[SynSequence(syn'[k])] # -1
      BY DEF HandlerHoldsSyn, SynSequence
    <2>1. syn[k] \in Sequences0 /\ syn' = syn /\ pc \in [Handlers -> {"idle", "check", "mark", "seq", "ack", "done", "failed"}]
      BY <1>1 DEF IInv, TypeOK
    <2>2. CASE k = h
      BY <2>1, <2>2, <1>1, <1>2, <1>7 DEF IInv, HandlerHoldsSyn, s
    <2>3. CASE k # h
      BY <2>1, <2>3, <1>1, <1>7, <1>8 DEF IInv, HandlerHoldsSyn
    <2> QED
      BY <2>2, <2>3
  <1>12. AckSequenceBound' /\ AckSequencesDistinct'
    BY <1>1 DEF IInv, TypeOK, AckSequenceBound, AckSequencesDistinct, Answered
  <1>13. AckBacked'
    BY <1>1 DEF IInv, TypeOK, AckBacked
  <1>14. ConnectedIsBacked'
    <2> SUFFICES ASSUME NEW a \in Attempts, cpc'[a] = "ok"
                 PROVE  \E k \in Handlers :
                          /\ pc'[k] = "done"
                          /\ syn'[k] = a
                          /\ ackSeq'[k] = got'[a]
                          /\ got'[a] > 0
                          /\ marked'[SynSequence(a)] >= 0
      BY DEF ConnectedIsBacked, SynSequence
    <2>1. PICK k \in Handlers : pc[k] = "done" /\ syn[k] = a /\ ackSeq[k] = got[a]
                                /\ got[a] > 0 /\ marked[SynSequence(a)] >= 0
      BY <1>1 DEF IInv, ConnectedIsBacked
    <2>2. k # h /\ pc'[k] = "done"
      BY <2>1, <1>1 DEF IInv, TypeOK
    <2>3. SynSequence(a) \in Sequences0
      BY <1>8 DEF Sequences0
    <2>4. marked'[SynSequence(a)] >= 0
      BY <2>1, <2>3, <1>4, <1>5
    <2> QED
      BY <1>1, <2>1, <2>2, <2>4
  <1> QED
    BY <1>9, <1>10, <1>11, <1>12, <1>13, <1>14 DEF IInv
\* The counter hands out a number that no handler has used yet.
LEMMA NextSequenceIInv ==
  ASSUME IInv, NEW h \in Handlers, HandlerNextSequence(h)
  PROVE  IInv'
  <1>1. /\ pc[h] = "seq"
        /\ sequence' = sequence + 1
        /\ ackSeq' = [ackSeq EXCEPT ![h] = sequence + 1]
        /\ pc' = [pc EXCEPT ![h] = "ack"]
        /\ UNCHANGED <<now, lastSeen, syn, marked, cpc, deadline, got, clientSeen,
                       synNet, ackNet>>
    BY DEF HandlerNextSequence, client
  <1>2. sequence \in Nat /\ ackSeq \in [Handlers -> Nat]
        /\ pc \in [Handlers -> {"idle", "check", "mark", "seq", "ack", "done", "failed"}]
    BY DEF IInv, TypeOK
  <1>3. \A k \in Handlers : k # h => pc'[k] = pc[k] /\ ackSeq'[k] = ackSeq[k]
    BY <1>1, <1>2
  <1>4. pc'[h] = "ack" /\ ackSeq'[h] = sequence + 1
    BY <1>1, <1>2
  <1>5. TypeOK'
    BY <1>1 DEF IInv, TypeOK
  <1>6. RecentKept'
    BY <1>1 DEF IInv, RecentKept
  <1>7. HandlerHoldsSyn'
    BY <1>1, <1>2, <1>3, <1>4 DEF IInv, HandlerHoldsSyn, SynSequence
  <1>8. \A k \in Handlers : k # h /\ Answered(k)' => ackSeq'[k] \in 1..sequence
    BY <1>3 DEF IInv, AckSequenceBound, Answered
  <1>9. AckSequenceBound'
    BY <1>1, <1>2, <1>4, <1>8 DEF AckSequenceBound
  <1>10. AckSequencesDistinct'
    <2> SUFFICES ASSUME NEW h1 \in Handlers, NEW h2 \in Handlers, h1 # h2,
                        Answered(h1)', Answered(h2)'
                 PROVE  ackSeq'[h1] # ackSeq'[h2]
      BY DEF AckSequencesDistinct
    <2>1. CASE h1 = h
      BY <2>1, <1>2, <1>4, <1>8
    <2>2. CASE h2 = h
      BY <2>2, <1>2, <1>4, <1>8
    <2>3. CASE h1 # h /\ h2 # h
      BY <2>3, <1>3 DEF IInv, AckSequencesDistinct, Answered
    <2> QED
      BY <2>1, <2>2, <2>3
  <1>11. AckBacked'
    BY <1>1, <1>3 DEF IInv, AckBacked
  <1>12. ConnectedIsBacked'
    BY <1>1, <1>3 DEF IInv, ConnectedIsBacked, SynSequence
  <1> QED
    BY <1>5, <1>6, <1>7, <1>9, <1>10, <1>11, <1>12 DEF IInv

\* The ACK that is written names its handler's attempt and sequence.
LEMMA SendAckIInv ==
  ASSUME IInv, NEW h \in Handlers, HandlerSendAck(h)
  PROVE  IInv'
  <1>1. /\ pc[h] = "ack"
        /\ ackNet' = ackNet \cup {[to |-> syn[h], seq |-> ackSeq[h]]}
        /\ pc' = [pc EXCEPT ![h] = "done"]
        /\ UNCHANGED <<now, lastSeen, sequence, syn, ackSeq, marked, cpc, deadline, got,
                       clientSeen, synNet>>
    BY DEF HandlerSendAck, client
  <1>2. syn[h] \in Attempts /\ ackSeq[h] \in Nat
    BY <1>1 DEF IInv, TypeOK, HandlerHoldsSyn
  <1>3. pc \in [Handlers -> {"idle", "check", "mark", "seq", "ack", "done", "failed"}]
    BY DEF IInv, TypeOK
  <1>4. TypeOK'
    BY <1>1, <1>2 DEF IInv, TypeOK, AckMessages
  <1>5. RecentKept'
    BY <1>1 DEF IInv, RecentKept
  <1>6. HandlerHoldsSyn'
    BY <1>1, <1>3 DEF IInv, HandlerHoldsSyn, SynSequence
  <1>7. \A k \in Handlers : Answered(k)' <=> Answered(k)
    BY <1>1, <1>3 DEF Answered
  <1>8. AckSequenceBound' /\ AckSequencesDistinct'
    BY <1>1, <1>7 DEF IInv, AckSequenceBound, AckSequencesDistinct
  <1>9. AckBacked'
    <2> SUFFICES ASSUME NEW m \in ackNet'
                 PROVE  \E k \in Handlers :
                          pc'[k] = "done" /\ syn'[k] = m.to /\ ackSeq'[k] = m.seq
      BY DEF AckBacked
    <2>1. CASE m \in ackNet
      BY <2>1, <1>1, <1>3 DEF IInv, AckBacked
    <2>2. CASE m = [to |-> syn[h], seq |-> ackSeq[h]]
      BY <2>2, <1>1, <1>3
    <2> QED
      BY <2>1, <2>2, <1>1
  <1>10. ConnectedIsBacked'
    BY <1>1, <1>3 DEF IInv, ConnectedIsBacked, SynSequence
  <1> QED
    BY <1>4, <1>5, <1>6, <1>8, <1>9, <1>10 DEF IInv

\* A SYN is sent by a client that is not connected yet.
LEMMA SendSynIInv ==
  ASSUME IInv, NEW a \in Attempts, ClientSendSyn(a)
  PROVE  IInv'
  <1>1. /\ cpc[a] = "idle"
        /\ now + Timeout <= MaxTime
        /\ synNet' = synNet \cup {a}
        /\ clientSeen' = [clientSeen EXCEPT ![a] = {}]
        /\ deadline' = [deadline EXCEPT ![a] = now + Timeout]
        /\ cpc' = [cpc EXCEPT ![a] = "wait"]
        /\ UNCHANGED <<now, lastSeen, sequence, pc, syn, ackSeq, marked, got, ackNet>>
    BY DEF ClientSendSyn, server
  <1>2. now + Timeout \in 0..MaxTime
    BY <1>1, TimesAssumption DEF IInv, TypeOK
  <1>3. TypeOK'
    BY <1>1, <1>2 DEF IInv, TypeOK
  <1>4. RecentKept' /\ HandlerHoldsSyn'
    BY <1>1 DEF IInv, RecentKept, HandlerHoldsSyn, SynSequence
  <1>5. AckSequenceBound' /\ AckSequencesDistinct' /\ AckBacked'
    BY <1>1 DEF IInv, AckSequenceBound, AckSequencesDistinct, AckBacked, Answered
  <1>6. \A b \in Attempts : cpc'[b] = "ok" => cpc[b] = "ok"
    BY <1>1 DEF IInv, TypeOK
  <1>7. ConnectedIsBacked'
    BY <1>1, <1>6 DEF IInv, ConnectedIsBacked, SynSequence
  <1> QED
    BY <1>3, <1>4, <1>5, <1>7 DEF IInv

\* An accepted ACK was written by a handler that is done with the attempt.
LEMMA RecvAckIInv ==
  ASSUME IInv, NEW a \in Attempts, ClientRecvAck(a)
  PROVE  IInv'
  <1>1. /\ cpc[a] = "wait"
        /\ UNCHANGED <<now, lastSeen, sequence, pc, syn, ackSeq, marked, deadline, synNet,
                       ackNet>>
    BY DEF ClientRecvAck, server
  <1>2. PICK m \in ackNet :
          /\ m.to = a
          /\ \/ /\ clientSeen' = [clientSeen EXCEPT ![a] = @ \cup {m.seq}]
                /\ got' = [got EXCEPT ![a] = m.seq]
                /\ cpc' = [cpc EXCEPT ![a] = "ok"]
             \/ /\ cpc' = [cpc EXCEPT ![a] = "failed"]
                /\ UNCHANGED <<clientSeen, got>>
    BY DEF ClientRecvAck
  <1>3. /\ m.seq \in Nat
        /\ got \in [Attempts -> Nat] /\ clientSeen \in [Attempts -> SUBSET Nat]
        /\ cpc \in [Attempts -> {"idle", "wait", "ok", "failed"}]
        /\ sequence \in Nat
        /\ marked \in [Sequences0 -> -1..MaxTime]
    BY DEF IInv, TypeOK, AckMessages
  <1>4. /\ got' \in [Attempts -> Nat] /\ clientSeen' \in [Attempts -> SUBSET Nat]
        /\ cpc' \in [Attempts -> {"idle", "wait", "ok", "failed"}]
    BY <1>2, <1>3
  <1>5. TypeOK'
    BY <1>1, <1>4 DEF IInv, TypeOK
  <1>6. RecentKept' /\ HandlerHoldsSyn'
    BY <1>1 DEF IInv, RecentKept, HandlerHoldsSyn, SynSequence
  <1>7. AckSequenceBound' /\ AckSequencesDistinct' /\ AckBacked'
    BY <1>1 DEF IInv, AckSequenceBound, AckSequencesDistinct, AckBacked, Answered
  <1>8. PICK h \in Handlers : pc[h] = "done" /\ syn[h] = a /\ ackSeq[h] = m.seq
    BY <1>2 DEF IInv, AckBacked
  <1>9. m.seq > 0
    BY <1>3, <1>8 DEF IInv, AckSequenceBound, Answered
  <1>10. marked[SynSequence(a)] >= 0
    <2>1. SynSequence(a) \in Sequences0
      BY SynSequenceType DEF Sequences0
    <2>2. marked[SynSequence(a)] # -1
      BY <1>8 DEF IInv, HandlerHoldsSyn
    <2> QED
      BY <2>1, <2>2, <1>3
  <1>11. ConnectedIsBacked'
    <2> SUFFICES ASSUME NEW b \in Attempts, cpc'[b] = "ok"
                 PROVE  \E k \in Handlers :
                          /\ pc[k] = "done"
                          /\ syn[k] = b
                          /\ ackSeq[k] = got'[b]
                          /\ got'[b] > 0
                          /\ marked[SynSequence(b)] >= 0
      BY <1>1 DEF ConnectedIsBacked, SynSequence
    <2>1. CASE b = a
      <3>1. got'[a] = m.seq
        BY <2>1, <1>2, <1>3
      <3> QED
        BY <3>1, <2>1, <1>8, <1>9, <1>10
    <2>2. CASE b # a
      <3>1. cpc[b] = "ok" /\ got'[b] = got[b]
        BY <2>2, <1>2, <1>3
      <3> QED
        BY <3>1 DEF IInv, ConnectedIsBacked
    <2> QED
      BY <2>1, <2>2
  <1> QED
    BY <1>5, <1>6, <1>7, <1>11 DEF IInv

\* A timeout, or a packet that is no ACK, only ends the attempt.
LEMMA TimeoutIInv ==
  ASSUME IInv, NEW a \in Attempts, ClientAuthFail(a) \/ ClientTimeout(a)
  PROVE  IInv'
  <1> USE DEF ClientAuthFail, ClientTimeout, server
  <1>1. TypeOK'
    BY DEF IInv, TypeOK
  <1>2. RecentKept' /\ HandlerHoldsSyn'
    BY DEF IInv, RecentKept, HandlerHoldsSyn, SynSequence
  <1>3. AckSequenceBound' /\ AckSequencesDistinct' /\ AckBacked'
    BY DEF IInv, AckSequenceBound, AckSequencesDistinct, AckBacked, Answered
  <1>4. ConnectedIsBacked'
    BY DEF IInv, TypeOK, ConnectedIsBacked, SynSequence
  <1> QED
    BY <1>1, <1>2, <1>3, <1>4 DEF IInv

\* The passing of time makes marks older, never younger.
LEMMA TickIInv ==
  ASSUME IInv, Tick
  PROVE  IInv'
  <1>1. /\ now < MaxTime /\ now' = now + 1
        /\ UNCHANGED <<lastSeen, sequence, pc, syn, ackSeq, marked, cpc, deadline, got,
                       clientSeen, synNet, ackNet>>
    BY DEF Tick, server, client
  <1>2. now \in 0..MaxTime /\ marked \in [Sequences0 -> -1..MaxTime]
    BY DEF IInv, TypeOK
  <1>3. now' \in 0..MaxTime
    BY <1>1, <1>2, TimesAssumption
  <1>4. TypeOK'
    BY <1>1, <1>3 DEF IInv, TypeOK
  <1>5. RecentKept'
    <2>1. \A s \in Sequences0 : now' - marked[s] <= PurgeAge => now - marked[s] <= PurgeAge
      BY <1>1, <1>2, TimesAssumption
    <2> QED
      BY <2>1, <1>1 DEF IInv, RecentKept
  <1>6. HandlerHoldsSyn' /\ ConnectedIsBacked'
    BY <1>1 DEF IInv, HandlerHoldsSyn, ConnectedIsBacked, SynSequence
  <1>7. AckSequenceBound' /\ AckSequencesDistinct' /\ AckBacked'
    BY <1>1 DEF IInv, AckSequenceBound, AckSequencesDistinct, AckBacked, Answered
  <1> QED
    BY <1>4, <1>5, <1>6, <1>7 DEF IInv

\* Stuttering changes nothing the invariant reads.
LEMMA StutterIInv ==
  ASSUME IInv, UNCHANGED vars
  PROVE  IInv'
  <1> USE DEF vars, server, client
  <1>1. TypeOK'
    BY DEF IInv, TypeOK
  <1>2. RecentKept' /\ HandlerHoldsSyn' /\ ConnectedIsBacked'
    BY DEF IInv, RecentKept, HandlerHoldsSyn, ConnectedIsBacked, SynSequence
  <1>3. AckSequenceBound' /\ AckSequencesDistinct' /\ AckBacked'
    BY DEF IInv, AckSequenceBound, AckSequencesDistinct, AckBacked, Answered
  <1> QED
    BY <1>1, <1>2, <1>3 DEF IInv

\* Every step keeps the invariant.
LEMMA NextIInv == IInv /\ [Next]_vars => IInv'
  <1> SUFFICES ASSUME IInv, [Next]_vars PROVE IInv'
    OBVIOUS
  <1>1. ASSUME NEW h \in Handlers, HandlerAuthFail(h) PROVE IInv'
    BY <1>1, AuthFailIInv
  <1>2. ASSUME NEW h \in Handlers, NEW a \in Attempts, HandlerRead(h, a) PROVE IInv'
    BY <1>2, ReadIInv
  <1>3. ASSUME NEW h \in Handlers, HandlerStep(h) PROVE IInv'
    BY <1>3, CheckIInv, MarkIInv, NextSequenceIInv, SendAckIInv DEF HandlerStep
  <1>4. ASSUME NEW a \in Attempts, ClientSendSyn(a) PROVE IInv'
    BY <1>4, SendSynIInv
  <1>5. ASSUME NEW a \in Attempts, ClientRecvAck(a) PROVE IInv'
    BY <1>5, RecvAckIInv
  <1>6. ASSUME NEW a \in Attempts, ClientAuthFail(a) \/ ClientTimeout(a) PROVE IInv'
    BY <1>6, TimeoutIInv
  <1>7. CASE Tick
    BY <1>7, TickIInv
  <1>8. CASE UNCHANGED vars
    BY <1>8, StutterIInv
  <1> QED
    BY <1>1, <1>2, <1>3, <1>4, <1>5, <1>6, <1>7, <1>8 DEF Next

-----------------------------------------------------------------------------
(* The theorems *)

\* The inductive invariant holds in every reachable state.
THEOREM Invariant == Spec => []IInv
  BY InitIInv, NextIInv, PTL DEF Spec

\* Type correctness.
THEOREM TypeCorrect == Spec => []TypeOK
  <1>1. IInv => TypeOK
    BY DEF IInv
  <1> QED
    BY <1>1, Invariant, PTL

\* Handlers that run NextSequence concurrently never answer with one sequence.
THEOREM DistinctAnswers == Spec => []AckSequencesDistinct
  <1>1. IInv => AckSequencesDistinct
    BY DEF IInv
  <1> QED
    BY <1>1, Invariant, PTL

\* A connected client rests on a finished handler that read its own SYN.
THEOREM ConnectionBacked == Spec => []ConnectedIsBacked
  <1>1. IInv => ConnectedIsBacked
    BY DEF IInv
  <1> QED
    BY <1>1, Invariant, PTL

\* The step form of ReplayCheckSound.
CheckedIsOld ==
    \A h \in Handlers :
        (pc[h] = "check" /\ pc'[h] = "mark") =>
            LET s == SynSequence(syn[h])
            IN  marked[s] = -1 \/ now - marked[s] >= ReplayWindow

\* Only the check moves a handler from "check" to "mark", and it looked at a map
\* that still holds every mark of the last PurgeAge.
LEMMA CheckStep == IInv /\ [Next]_vars => CheckedIsOld
  <1> SUFFICES ASSUME IInv, [Next]_vars, NEW h \in Handlers,
                      pc[h] = "check", pc'[h] = "mark"
               PROVE  marked[SynSequence(syn[h])] = -1
                      \/ now - marked[SynSequence(syn[h])] >= ReplayWindow
    BY DEF CheckedIsOld
  <1>1. pc \in [Handlers -> {"idle", "check", "mark", "seq", "ack", "done", "failed"}]
    BY DEF IInv, TypeOK
  <1>2. HandlerCheck(h)
    <2>1. ASSUME NEW k \in Handlers, HandlerAuthFail(k) PROVE FALSE
      BY <2>1, <1>1 DEF HandlerAuthFail
    <2>2. ASSUME NEW k \in Handlers, NEW a \in Attempts, HandlerRead(k, a) PROVE FALSE
      BY <2>2, <1>1 DEF HandlerRead
    <2>3. ASSUME NEW k \in Handlers, HandlerCheck(k) PROVE k = h
      BY <2>3, <1>1 DEF HandlerCheck
    <2>4. ASSUME NEW k \in Handlers,
                 HandlerMark(k) \/ HandlerNextSequence(k) \/ HandlerSendAck(k)
          PROVE  FALSE
      BY <2>4, <1>1 DEF HandlerMark, HandlerNextSequence, HandlerSendAck
    <2>5. ASSUME NEW a \in Attempts,
                 ClientSendSyn(a) \/ ClientRecvAck(a) \/ ClientAuthFail(a) \/ ClientTimeout(a)
          PROVE  FALSE
      BY <2>5 DEF ClientSendSyn, ClientRecvAck, ClientAuthFail, ClientTimeout, server
    <2>6. ~Tick /\ ~UNCHANGED vars
      BY DEF Tick, vars, server
    <2> QED
      BY <2>1, <2>2, <2>3, <2>4, <2>5, <2>6 DEF Next, HandlerStep
  <1>3. ~IsReplay(SynSequence(syn[h]))
    BY <1>1, <1>2 DEF HandlerCheck
  <1>4. SynSequence(syn[h]) \in Sequences0
    BY SynSequenceType DEF IInv, TypeOK
  <1>5. now \in 0..MaxTime /\ marked \in [Sequences0 -> -1..MaxTime]
    BY DEF IInv, TypeOK
  <1>6. ASSUME marked[SynSequence(syn[h])] # -1,
               now - marked[SynSequence(syn[h])] < ReplayWindow
        PROVE  FALSE
    <2>1. now - marked[SynSequence(syn[h])] <= PurgeAge
      BY <1>4, <1>5, <1>6, TimesAssumption
    <2>2. SynSequence(syn[h]) \in DOMAIN lastSeen
          /\ lastSeen[SynSequence(syn[h])] = marked[SynSequence(syn[h])]
      BY <2>1, <1>4, <1>6 DEF IInv, RecentKept
    <2> QED
      BY <2>2, <1>3, <1>6 DEF IsReplay
  <1> QED
    BY <1>4, <1>5, <1>6, TimesAssumption

\* The replay check is sound whatever other handlers mark and purge.
THEOREM ReplaySoundness == Spec => ReplayCheckSound
  <1>1. Spec => [][CheckedIsOld]_vars
    BY CheckStep, Invariant, PTL DEF Spec
  <1> QED
    BY <1>1 DEF ReplayCheckSound, CheckedIsOld

-----------------------------------------------------------------------------
(* The handshake implements Rendezvous. *)

\* Every SYN on the network, and every SYN a handler holds, was sent by an attempt
\* that has begun.
SynsAsked ==
    /\ \A a \in synNet : cpc[a] # "idle"
    /\ \A h \in Handlers : syn[h] \in synNet \cup {0}

\* SynsAsked holds in every reachable state.
LEMMA SynsAskedInvariant == Spec => []SynsAsked
  <1>1. Init => SynsAsked
    BY DEF Init, SynsAsked
  <1>2. TypeOK /\ SynsAsked /\ [Next]_vars => SynsAsked'
    <2> SUFFICES ASSUME TypeOK, SynsAsked, [Next]_vars PROVE SynsAsked'
      OBVIOUS
    <2>0. /\ pc \in [Handlers -> {"idle", "check", "mark", "seq", "ack", "done", "failed"}]
          /\ syn \in [Handlers -> Sequences0]
          /\ cpc \in [Attempts -> {"idle", "wait", "ok", "failed"}]
          /\ synNet \subseteq Attempts
      BY DEF TypeOK
    <2>1. ASSUME NEW h \in Handlers, HandlerAuthFail(h) \/ HandlerStep(h) PROVE SynsAsked'
      BY <2>1 DEF HandlerAuthFail, HandlerStep, HandlerCheck, HandlerMark,
                  HandlerNextSequence, HandlerSendAck, client, SynsAsked
    <2>2. ASSUME NEW h \in Handlers, NEW a \in Attempts, HandlerRead(h, a) PROVE SynsAsked'
      BY <2>0, <2>2 DEF HandlerRead, client, SynsAsked
    <2>3. ASSUME NEW a \in Attempts, ClientSendSyn(a) PROVE SynsAsked'
      BY <2>0, <2>3 DEF ClientSendSyn, server, SynsAsked
    <2>4. ASSUME NEW a \in Attempts, ClientRecvAck(a) PROVE SynsAsked'
      <3>1. cpc' = [cpc EXCEPT ![a] = "ok"] \/ cpc' = [cpc EXCEPT ![a] = "failed"]
        BY <2>4 DEF ClientRecvAck
      <3>2. UNCHANGED <<syn, synNet>>
        BY <2>4 DEF ClientRecvAck, server
      <3> QED
        BY <2>0, <3>1, <3>2 DEF SynsAsked
    <2>5. ASSUME NEW a \in Attempts, ClientAuthFail(a) \/ ClientTimeout(a) PROVE SynsAsked'
      BY <2>0, <2>5 DEF ClientAuthFail, ClientTimeout, server, SynsAsked
    <2>6. CASE Tick \/ UNCHANGED vars
      BY <2>6 DEF Tick, vars, server, client, SynsAsked
    <2> QED
      BY <2>1, <2>2, <2>3, <2>4, <2>5, <2>6 DEF Next
  <1> QED
    BY <1>1, <1>2, TypeCorrect, PTL DEF Spec

\* An initial state of the handshake is one of Rendezvous.
LEMMA RefineInit == Init => Abstract!Init
  BY DEF Init, Abstract!Init

\* Every step of the handshake is a step of Rendezvous or leaves its state alone:
\* HandlerSendAck serves an attempt, and a client connects on an ACK, which only
\* a handler that has served the attempt can have written (AckBacked).
LEMMA RefineStep ==
  ASSUME IInv, SynsAsked, [Next]_vars
  PROVE  [Abstract!Next]_(Abstract!absVars)
  <1> DEFINE asked == {a \in Attempts : cpc[a] # "idle"}
             session == [h \in Handlers |-> IF pc[h] = "done" THEN syn[h] ELSE 0]
             open == {a \in Attempts : cpc[a] = "ok"}
             gaveUp == {a \in Attempts : cpc[a] = "failed"}
  <1>0. /\ pc \in [Handlers -> {"idle", "check", "mark", "seq", "ack", "done", "failed"}]
        /\ syn \in [Handlers -> Sequences0]
        /\ cpc \in [Attempts -> {"idle", "wait", "ok", "failed"}]
        /\ 0 \notin Attempts
    BY AttemptsAssumption DEF IInv, TypeOK
  <1>a. ASSUME UNCHANGED <<asked, session, open, gaveUp>>
        PROVE  UNCHANGED Abstract!absVars
    BY <1>a DEF Abstract!absVars
  <1>1. ASSUME NEW h \in Handlers, HandlerAuthFail(h) \/ HandlerCheck(h)
                                   \/ HandlerMark(h) \/ HandlerNextSequence(h)
        PROVE  UNCHANGED <<asked, session, open, gaveUp>>
    BY <1>0, <1>1 DEF HandlerAuthFail, HandlerCheck, HandlerMark, HandlerNextSequence, client
  <1>2. ASSUME NEW h \in Handlers, NEW a \in Attempts, HandlerRead(h, a)
        PROVE  UNCHANGED <<asked, session, open, gaveUp>>
    BY <1>0, <1>2 DEF HandlerRead, client
  <1>3. ASSUME NEW h \in Handlers, HandlerSendAck(h) PROVE Abstract!Next
    <2>1. /\ pc[h] = "ack" /\ pc' = [pc EXCEPT ![h] = "done"]
          /\ UNCHANGED <<syn, cpc>>
      BY <1>3 DEF HandlerSendAck, client
    <2>2. syn[h] \in Attempts /\ cpc[syn[h]] # "idle"
      BY <1>0, <2>1 DEF IInv, HandlerHoldsSyn, SynsAsked
    <2>3. PICK a \in Attempts : a = syn[h]
      BY <2>2
    <2>4. a \in asked /\ session[h] = 0
      BY <2>1, <2>2, <2>3
    <2>5. session' = [session EXCEPT ![h] = a]
      BY <1>0, <2>1, <2>3
    <2>6. UNCHANGED <<asked, open, gaveUp>>
      BY <2>1
    <2>7. Abstract!Serve(h, a)
      BY <2>4, <2>5, <2>6 DEF Abstract!Serve
    <2> QED
      BY <2>7 DEF Abstract!Next
  <1>4. ASSUME NEW a \in Attempts, ClientSendSyn(a) PROVE Abstract!Next
    <2>1. /\ cpc[a] = "idle" /\ cpc' = [cpc EXCEPT ![a] = "wait"]
          /\ UNCHANGED <<pc, syn>>
      BY <1>4 DEF ClientSendSyn, server
    <2>2. a \notin asked /\ asked' = asked \cup {a}
      BY <1>0, <2>1
    <2>3. UNCHANGED <<session, open, gaveUp>>
      BY <1>0, <2>1
    <2>4. Abstract!Ask(a)
      BY <2>2, <2>3 DEF Abstract!Ask
    <2> QED
      BY <2>4 DEF Abstract!Next
  <1>5. ASSUME NEW a \in Attempts, cpc[a] = "wait", cpc' = [cpc EXCEPT ![a] = "failed"],
               UNCHANGED <<pc, syn>>
        PROVE  Abstract!Next
    <2>1. a \in asked \ (open \cup gaveUp)
      BY <1>5
    <2>2. gaveUp' = gaveUp \cup {a} /\ UNCHANGED <<asked, session, open>>
      BY <1>0, <1>5
    <2>3. Abstract!GiveUp(a)
      BY <2>1, <2>2 DEF Abstract!GiveUp, Abstract!Undecided
    <2> QED
      BY <2>3 DEF Abstract!Next, Abstract!Decide
  <1>6. ASSUME NEW a \in Attempts, ClientRecvAck(a) PROVE Abstract!Next
    <2>1. PICK m \in ackNet :
            /\ m.to = a
            /\ cpc' = [cpc EXCEPT ![a] = "ok"] \/ cpc' = [cpc EXCEPT ![a] = "failed"]
      BY <1>6 DEF ClientRecvAck
    <2>2. cpc[a] = "wait" /\ UNCHANGED <<pc, syn>>
      BY <1>6 DEF ClientRecvAck, server
    <2>3. CASE cpc' = [cpc EXCEPT ![a] = "ok"]
      <3>1. PICK h \in Handlers : pc[h] = "done" /\ syn[h] = a
        BY <2>1 DEF IInv, AckBacked
      <3>2. session[h] = a
        BY <3>1
      <3>3. a \in asked \ (open \cup gaveUp)
        BY <2>2
      <3>4. open' = open \cup {a} /\ UNCHANGED <<asked, session, gaveUp>>
        BY <1>0, <2>2, <2>3
      <3>5. Abstract!Connect(a)
        BY <3>2, <3>3, <3>4 DEF Abstract!Connect, Abstract!Undecided
      <3> QED
        BY <3>5 DEF Abstract!Next, Abstract!Decide
    <2>4. CASE cpc' = [cpc EXCEPT ![a] = "failed"]
      BY <1>5, <2>2, <2>4
    <2> QED
      BY <2>1, <2>3, <2>4
  <1>7. ASSUME NEW a \in Attempts, ClientAuthFail(a) \/ ClientTimeout(a) PROVE Abstract!Next
    <2>1. cpc[a] = "wait" /\ cpc' = [cpc EXCEPT ![a] = "failed"] /\ UNCHANGED <<pc, syn>>
      BY <1>7 DEF ClientAuthFail, ClientTimeout, server
    <2> QED
      BY <1>5, <2>1
  <1>8. CASE Tick \/ UNCHANGED vars
    <2>1. UNCHANGED <<pc, syn, cpc>>
      BY <1>8 DEF Tick, vars, server, client
    <2> QED
      BY <2>1, <1>a
  <1> HIDE DEF asked, session, open, gaveUp
  <1> QED
    BY <1>a, <1>1, <1>2, <1>3, <1>4, <1>6, <1>7, <1>8 DEF Next, HandlerStep

\* Every behaviour of clients and handlers is one that Rendezvous allows.
THEOREM Refinement == Spec => ImplementsRendezvous
  <1>1. IInv /\ SynsAsked /\ [Next]_vars => [Abstract!Next]_(Abstract!absVars)
    BY RefineStep
  <1>2. Spec => Abstract!Init /\ [][Abstract!Next]_(Abstract!absVars)
    BY <1>1, RefineInit, Invariant, SynsAskedInvariant, PTL DEF Spec
  <1> QED
    BY <1>2 DEF ImplementsRendezvous, Abstract!Spec
=============================================================================
