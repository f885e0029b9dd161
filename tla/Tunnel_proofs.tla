---------------------------- MODULE Tunnel_proofs ----------------------------
(***************************************************************************)
(* The safety properties of Tunnel for every table of modes, every pool    *)
(* and any number of datagrams in flight.                                  *)
(***************************************************************************)
EXTENDS Tunnel, WellFoundedInduction, TLAPS

Pools == Seq(Modes) \ {<<>>}
Configs == [modes : Pools, interval : Nat]
Syns == [modes : Pools, current : Modes, interval : Nat]
Mixers == [mode : Modes, mask : KnownModes, modes : Pools, lastSwitch : Nat, interval : Nat,
           timeBased : BOOLEAN, dayActive : BOOLEAN]

TypeOK ==
    /\ now \in Nat
    /\ cfg \in Configs /\ scfg \in Configs
    /\ syn \in Syns
    /\ cmix \in Mixers /\ cl \in Mixers /\ cr \in Mixers
    /\ sl \in Mixers /\ sr \in Mixers
    /\ cstate \in {"new", "syn", "up"}
    /\ sstate \in {"none", "registered", "up"}

\* Nothing has happened before the SYN.
Phases == cstate = "new" => sstate = "none" /\ c2s = {} /\ s2c = {} /\ junk = {} /\ crashed = {}

\* Every mixer has the pool of its end's configuration.
SamePool ==
    /\ cmix.modes = cfg.modes /\ cl.modes = cfg.modes /\ cr.modes = cfg.modes
    /\ sl.modes = scfg.modes /\ sr.modes = scfg.modes

\* Both ends have the pool of the SYN.
Told ==
    ~moved => /\ cstate # "new" => cfg.modes = syn.modes
              /\ sstate # "none" => scfg.modes = syn.modes

\* The modes of each end's session are of its pool.
InPool ==
    /\ cstate = "up" => {cl.mode, cr.mode} \subseteq Pool(cfg.modes)
    /\ sstate = "up" => {sl.mode, sr.mode} \subseteq Pool(scfg.modes)

\* An end that has synchronised uses its head, whether or not the other has.
Aligned ==
    ~moved =>
        /\ cstate = "up" =>
             /\ cl.mode = Lead
             /\ CreateMask(Lead) \in Loose /\ Steady("server") => cr.mask = CreateMask(Lead)
        /\ sstate = "up" =>
             /\ sl.mode = Lead
             /\ CreateMask(Lead) \in Loose /\ Steady("client") => sr.mask = CreateMask(Lead)

\* What an end that nobody moved sends: copies of the handshake, packets in the
\* head's mask and TLS-looking payloads in the Browser mask.
Sent(d, end) ==
    \/ d.mask = Handshake /\ d.kind = "copy"
    \/ d.mask = CreateMask(Lead) /\ d.kind \in {"data", "early"}
    \/ d.mask = Browser /\ d.kind = "tls" /\ end \in stray

Flight ==
    ~moved => (\A d \in c2s : Sent(d, "client")) /\ (\A d \in s2c : Sent(d, "server"))

IInv ==
    /\ TypeOK
    /\ Phases
    /\ SamePool
    /\ InPool
    /\ Told
    /\ Aligned
    /\ Flight
    /\ CleanDelivery
    /\ CrashNeedsMove

-----------------------------------------------------------------------------
(* The operations of a mixer *)

\* Every set of naturals with an element has a least one.
LEMMA LeastNatural ==
    ASSUME NEW T, T \subseteq Nat, T # {}
    PROVE  \E x \in T : \A y \in T : x <= y
  <1> DEFINE Less == {p \in Nat \X Nat : p[1] < p[2]}
  <1>1. IsWellFoundedOn(Less, Nat)
    BY NatLessThanWellFounded, Zenon DEF OpToRel
  <1>2. PICK x \in T : \A y \in T : ~(<<y, x>> \in Less)
    BY <1>1, WFMin, Zenon
  <1>3. \A y \in T : ~(y < x)
    BY <1>2
  <1> QED
    BY <1>3

LEMMA CreateMaskKnown == \A mode : CreateMask(mode) \in KnownModes
  BY ModesAssumption DEF CreateMask

\* The mode that rotate goes to is one of the pool.
LEMMA NextIndexInPool ==
    ASSUME NEW ms \in Pools, NEW mode
    PROVE  ms[NextIndex(ms, mode)] \in Pool(ms)
  <1>1. Len(ms) \in Nat /\ Len(ms) > 0 /\ DOMAIN ms = 1..Len(ms)
    BY DEF Pools
  <1>2. IndexOf(ms, mode) \in Nat
    <2>1. CASE mode \notin Pool(ms)
      BY <2>1 DEF IndexOf
    <2>2. CASE mode \in Pool(ms)
      <3> DEFINE T == {i \in DOMAIN ms : ms[i] = mode}
      <3>1. T # {} /\ T \subseteq Nat
        BY <1>1, <2>2 DEF Pool
      <3>2. PICK i \in T : \A j \in T : i <= j
        BY <3>1, LeastNatural
      <3>3. \A j \in 1..(i - 1) : ms[j] # mode
        BY <1>1, <3>2
      <3>4. IndexOf(ms, mode) \in DOMAIN ms
        BY <2>2, <3>3 DEF IndexOf
      <3> QED
        BY <1>1, <3>4
    <2> QED
      BY <2>1, <2>2
  <1>3. IndexOf(ms, mode) % Len(ms) \in 0..(Len(ms) - 1)
    BY <1>1, <1>2
  <1>4. NextIndex(ms, mode) \in DOMAIN ms
    BY <1>1, <1>3 DEF NextIndex
  <1> QED
    BY <1>4 DEF Pool

LEMMA PoolModes ==
    ASSUME NEW ms \in Pools PROVE ms[1] \in Modes /\ ms[1] \in Pool(ms) /\ Pool(ms) \subseteq Modes
  BY DEF Pools, Pool

\* Entering a mode takes its mask and leaves the pool.
LEMMA EnterMixer ==
    ASSUME NEW m \in Mixers, NEW mode \in Modes, NEW t \in Nat
    PROVE  /\ Enter(m, mode) \in Mixers /\ Enter(m, mode).modes = m.modes
           /\ Enter(m, mode).mode = mode /\ Enter(m, mode).mask = CreateMask(mode)
           /\ EnterAt(m, mode, t) \in Mixers /\ EnterAt(m, mode, t).modes = m.modes
           /\ EnterAt(m, mode, t).mode = mode /\ EnterAt(m, mode, t).mask = CreateMask(mode)
  BY CreateMaskKnown DEF Enter, EnterAt, Mixers

LEMMA RotateMixer ==
    ASSUME NEW m \in Mixers, NEW t \in Nat
    PROVE  Rotate(m, t) \in Mixers /\ Rotate(m, t).modes = m.modes /\ Rotate(m, t).mode \in Pool(m.modes)
  <1>1. m.modes \in Pools
    BY DEF Mixers
  <1>2. m.modes[NextIndex(m.modes, m.mode)] \in Pool(m.modes) /\ m.modes # <<>>
    BY <1>1, NextIndexInPool DEF Pools
  <1> QED
    BY <1>1, <1>2, PoolModes, EnterMixer DEF Rotate

LEMMA SwitchMixer ==
    ASSUME NEW m \in Mixers, NEW mode \in Modes
    PROVE  SwitchToDomain(m, mode) \in Mixers /\ SwitchToDomain(m, mode).modes = m.modes
  BY EnterMixer DEF SwitchToDomain

LEMMA IntervalMixer ==
    ASSUME NEW m \in Mixers, NEW i \in Nat
    PROVE  LET n == SetSwitchInterval(m, i)
           IN  n \in Mixers /\ n.modes = m.modes /\ n.mode = m.mode /\ n.mask = m.mask
  BY DEF SetSwitchInterval, Mixers

\* A new pool is entered at its head.
LEMMA SetModesMixer ==
    ASSUME NEW m \in Mixers, NEW ms \in Pools, NEW t \in Nat
    PROVE  LET n == SetModes(m, ms, t)
           IN  n \in Mixers /\ n.modes = ms /\ n.mode = ms[1] /\ n.mask = CreateMask(ms[1])
  <1> DEFINE e == EnterAt(m, ms[1], t)
  <1>1. e \in Mixers /\ e.mode = ms[1] /\ e.mask = CreateMask(ms[1])
    BY PoolModes, EnterMixer
  <1>2. SetModes(m, ms, t) = [e EXCEPT !.modes = ms, !.timeBased = FALSE]
    BY DEF SetModes, Pools
  <1> HIDE DEF e
  <1> QED
    BY <1>1, <1>2 DEF Mixers

LEMMA SyncMixer ==
    ASSUME NEW m \in Mixers, NEW config \in Configs, now \in Nat
    PROVE  LET n == Sync(m, config)
           IN  /\ n \in Mixers /\ n.modes = config.modes /\ n.mode = config.modes[1]
               /\ n.mask = CreateMask(config.modes[1])
  <1>1. config.modes \in Pools /\ config.interval \in Nat
    BY DEF Configs
  <1> DEFINE e == SetModes(m, config.modes, now)
  <1>2. /\ e \in Mixers /\ e.modes = config.modes /\ e.mode = config.modes[1]
        /\ e.mask = CreateMask(config.modes[1])
    BY <1>1, SetModesMixer
  <1>3. Sync(m, config) = SetSwitchInterval(e, config.interval)
    BY DEF Sync
  <1> HIDE DEF e
  <1> DEFINE f == SetSwitchInterval(e, config.interval)
  <1>4. f \in Mixers /\ f.modes = e.modes /\ f.mode = e.mode /\ f.mask = e.mask
    BY <1>1, <1>2, IntervalMixer
  <1>5. Sync(m, config) = f
    BY <1>3
  <1> HIDE DEF f
  <1> QED
    BY <1>2, <1>4, <1>5

LEMMA NewMixer ==
    ASSUME NEW i \in Nat, NEW t \in Nat PROVE NewMaskMixer(i, t, TRUE) \in Mixers
  <1>1. DayModes \in Pools /\ DayModes[1] \in Modes
    BY ModesAssumption, PoolModes DEF Pools
  <1> QED
    BY <1>1, CreateMaskKnown DEF NewMaskMixer, Mixers

LEMMA SessionMixerType ==
    ASSUME NEW config \in Configs, NEW mode \in Modes, now \in Nat
    PROVE  SessionMixer(config, mode) \in Mixers /\ SessionMixer(config, mode).modes = config.modes
  <1>1. config.modes \in Pools /\ config.interval \in Nat
    BY DEF Configs
  <1>2. NewMaskMixer(config.interval, now, TRUE) \in Mixers
    BY <1>1, NewMixer
  <1> DEFINE e == SetModes(NewMaskMixer(config.interval, now, TRUE), config.modes, now)
  <1>3. e \in Mixers /\ e.modes = config.modes
    BY <1>1, <1>2, SetModesMixer
  <1>4. SessionMixer(config, mode) = Enter(e, mode)
    BY DEF SessionMixer, SetCurrentMode
  <1> HIDE DEF e
  <1> QED
    BY <1>3, <1>4, EnterMixer

\* Unwrap keeps a mask that parses, and otherwise goes to a mode of the pool.
LEMMA UnwrapMixer ==
    ASSUME NEW m \in Mixers, NEW A
    PROVE  LET n == Unwrap(m, A)
           IN  /\ n \in Mixers /\ n.modes = m.modes
               /\ n.mode \in Pool(m.modes) \cup {m.mode}
               /\ m.mask \in A => n = m
  <1> DEFINE P == Parsing(m.modes, A)
  <1>1. m.modes \in Pools
    BY DEF Mixers
  <1>2. CASE m.mask \in A \/ P = {}
    BY <1>2 DEF Unwrap
  <1>3. CASE ~(m.mask \in A \/ P = {})
    <2> DEFINE i == CHOOSE j \in P : \A k \in P : j <= k
    <2>1. \E j \in P : \A k \in P : j <= k
      <3>1. DOMAIN m.modes = 1..Len(m.modes) /\ Len(m.modes) \in Nat
        BY <1>1 DEF Pools
      <3>2. P \subseteq DOMAIN m.modes
        BY DEF Parsing
      <3>3. P \subseteq Nat /\ P # {}
        BY <1>3, <3>1, <3>2
      <3> HIDE DEF P
      <3> QED
        BY <3>3, LeastNatural
    <2>2. i \in P
      BY <2>1
    <2>3. Unwrap(m, A) = Enter(m, m.modes[i])
      BY <1>3 DEF Unwrap
    <2> HIDE DEF i
    <2>4. m.modes[i] \in Pool(m.modes)
      BY <2>2 DEF Parsing, Pool
    <2> QED
      BY <1>1, <1>3, <2>3, <2>4, PoolModes, EnterMixer, 0 \in Nat
  <1> QED
    BY <1>2, <1>3

-----------------------------------------------------------------------------
(* The inductive invariant *)

\* A configuration whose pool or interval is replaced.
LEMMA ConfigTypes ==
    ASSUME NEW c \in Configs
    PROVE  /\ c.modes \in Pools /\ c.interval \in Nat
           /\ \A ms \in Pools : [c EXCEPT !.modes = ms] \in Configs /\ [c EXCEPT !.modes = ms].modes = ms
           /\ \A i \in Nat : /\ [c EXCEPT !.interval = i] \in Configs
                             /\ [c EXCEPT !.interval = i].modes = c.modes
  BY DEF Configs

LEMMA InitIInv == Init => IInv
  <1> SUFFICES ASSUME Init PROVE IInv
    OBVIOUS
  <1>1. PICK ms \in ClientPools, i \in Intervals :
          /\ cfg = [modes |-> ms, interval |-> i]
          /\ cmix = SetModes(NewMaskMixer(i, 0, TRUE), ms, 0)
          /\ cl = SessionMixer(cfg, VK)
          /\ cr = SessionMixer(cfg, VK)
          /\ syn = [modes |-> ms, current |-> ms[1], interval |-> i]
          /\ scfg = cfg /\ sl = SessionMixer(cfg, VK) /\ sr = SessionMixer(cfg, VK)
    BY DEF Init
  <1>2. ms \in Pools /\ i \in Nat /\ VK \in Modes /\ ms[1] \in Modes
    BY MasksAssumption, ModesAssumption, PoolModes DEF Pools
  <1>3. cfg \in Configs /\ cfg.modes = ms /\ syn \in Syns
    BY <1>1, <1>2 DEF Configs, Syns
  <1>4. cmix \in Mixers /\ cmix.modes = ms
    BY <1>1, <1>2, NewMixer, SetModesMixer, 0 \in Nat
  <1>5. cl \in Mixers /\ cl.modes = ms
    <2>1. now \in Nat
      BY DEF Init
    <2> QED
      BY <1>1, <1>2, <1>3, <2>1, SessionMixerType
  <1>6. TypeOK /\ SamePool
    BY <1>1, <1>3, <1>4, <1>5 DEF Init, TypeOK, SamePool
  <1> QED
    BY <1>6 DEF Init, IInv, Phases, InPool, Told, Aligned, Sent, Flight, CleanDelivery,
                Steady, CrashNeedsMove

\* Steps that change neither the masks of the sessions nor what is in flight.
LEMMA QuietStep ==
    ASSUME IInv, now' \in Nat, cmix' \in Mixers, cmix'.modes = cmix.modes,
           UNCHANGED <<cfg, cl, cr, cstate, syn, sVars, c2s, s2c, junk, stray, moved, crashed>>
    PROVE  IInv'
  <1>1. TypeOK' /\ SamePool'
    BY DEF IInv, TypeOK, SamePool, sVars
  <1> QED
    BY <1>1 DEF IInv, Phases, InPool, Told, Aligned, Sent, Flight, CleanDelivery,
                Steady, CrashNeedsMove, Lead, sVars

LEMMA QuietSteps ==
    ASSUME IInv, \/ Tick \/ UNCHANGED vars
                 \/ \E mode \in DomainModes : ClientSwitchToDomain(mode)
    PROVE  IInv'
  <1>1. now \in Nat /\ cmix \in Mixers
    BY DEF IInv, TypeOK
  <1>2. CASE Tick
    BY <1>1, <1>2, QuietStep DEF Tick, cVars
  <1>3. CASE UNCHANGED vars
    BY <1>1, <1>3, QuietStep DEF vars, cVars
  <1>4. ASSUME NEW mode \in DomainModes, ClientSwitchToDomain(mode) PROVE IInv'
    <2>1. mode \in Modes
      BY MasksAssumption
    <2>2. cmix' \in Mixers /\ cmix'.modes = cmix.modes
      BY <1>1, <1>4, <2>1, SwitchMixer DEF ClientSwitchToDomain
    <2> QED
      BY <1>1, <1>4, <2>2, QuietStep DEF ClientSwitchToDomain
  <1> QED
    BY <1>2, <1>3, <1>4

\* What a channel may hold after a send, and after a read.
LEMMA ChannelSends ==
    ASSUME NEW channel, NEW d, NEW after \in Sends(channel, d)
    PROVE  after \subseteq channel \cup {d}
  BY DEF Sends

LEMMA ChannelTakes ==
    ASSUME NEW channel, NEW d, NEW after \in Takes(channel, d)
    PROVE  after \subseteq channel
  BY DEF Takes

LEMMA SendSynStep == ASSUME IInv, ClientSendSyn PROVE IInv'
  <1> DEFINE d == [mask |-> Handshake, kind |-> "copy"]
  <1>1. /\ UNCHANGED <<now, cfg, cmix, cl, cr, scfg, sl, sr, sstate, s2c, junk, stray, moved, crashed>>
        /\ cstate = "new" /\ cstate' = "syn"
        /\ syn' = [modes |-> cmix.modes, current |-> cmix.mode, interval |-> cmix.interval]
    BY DEF ClientSendSyn, sVars
  <1>2. cmix \in Mixers /\ cmix.modes = cfg.modes
    BY DEF IInv, TypeOK, SamePool
  <1>3. syn' \in Syns /\ syn'.modes = cfg.modes
    BY <1>1, <1>2 DEF Mixers, Syns
  <1>4. TypeOK' /\ SamePool'
    BY <1>1, <1>3 DEF IInv, TypeOK, SamePool
  <1>5. sstate = "none" /\ s2c = {} /\ junk = {} /\ crashed = {} /\ c2s = {}
    BY <1>1 DEF IInv, Phases
  <1>6. c2s' \subseteq {d} /\ d.mask = Handshake /\ d.kind = "copy"
    BY <1>5, ChannelSends DEF ClientSendSyn
  <1> HIDE DEF d
  <1>7. Flight'
    BY <1>1, <1>5, <1>6 DEF Flight, Sent
  <1> QED
    BY <1>1, <1>3, <1>4, <1>5, <1>7
    DEF IInv, Phases, InPool, Told, Aligned, CleanDelivery, Steady, CrashNeedsMove

LEMMA ClientUpStep == ASSUME IInv, ClientUp PROVE IInv'
  <1>1. /\ UNCHANGED <<now, cfg, cmix, syn, scfg, sl, sr, sstate, c2s, s2c, junk, stray, moved, crashed>>
        /\ cstate = "syn" /\ cstate' = "up"
        /\ cl' = Sync(cl, cfg) /\ cr' = Sync(cr, cfg)
    BY DEF ClientUp, sVars
  <1>2. now \in Nat /\ cfg \in Configs /\ cl \in Mixers /\ cr \in Mixers
    BY DEF IInv, TypeOK
  <1>3. /\ cl' \in Mixers /\ cl'.modes = cfg.modes /\ cl'.mode = cfg.modes[1]
        /\ cr' \in Mixers /\ cr'.modes = cfg.modes /\ cr'.mode = cfg.modes[1]
        /\ cr'.mask = CreateMask(cfg.modes[1])
    BY <1>1, <1>2, SyncMixer
  <1>4. TypeOK' /\ SamePool'
    BY <1>1, <1>3 DEF IInv, TypeOK, SamePool
  <1>5. cfg.modes[1] \in Pool(cfg.modes)
    BY <1>2, ConfigTypes, PoolModes
  <1>6. ~moved => Lead = cfg.modes[1]
    BY <1>1 DEF IInv, Told, Lead
  <1>7. Lead' = Lead
    BY <1>1 DEF Lead
  <1>8. Aligned'
    BY <1>1, <1>3, <1>6, <1>7 DEF IInv, Aligned, Steady
  <1> QED
    BY <1>1, <1>3, <1>4, <1>5, <1>7, <1>8
    DEF IInv, Phases, InPool, Told, Sent, Flight, CleanDelivery, Steady, CrashNeedsMove

LEMMA ClientSendStep == ASSUME IInv, ClientSend PROVE IInv'
  <1> DEFINE kinds == {"data", "tls"}
  <1>1. /\ UNCHANGED <<now, cfg, cmix, cl, cr, cstate, syn, scfg, sl, sr, sstate, s2c, junk, moved>>
        /\ cstate = "up"
    BY DEF ClientSend, cVars, sVars
  <1>2. TypeOK' /\ SamePool' /\ Lead' = Lead
    BY <1>1 DEF IInv, TypeOK, SamePool, Lead
  <1>3. ~moved => cl.mode = Lead
    BY <1>1 DEF IInv, Aligned
  <1>4. PICK kind \in kinds :
          LET mask == CreateMask(SelectMask(cl, kind = "tls"))
          IN  IF mask \in Fatal
              THEN crashed' = crashed \cup {"client"} /\ UNCHANGED <<c2s, stray>>
              ELSE /\ c2s' \in Sends(c2s, [mask |-> mask, kind |-> kind])
                   /\ stray' = IF kind = "tls" THEN stray \cup {"client"} ELSE stray
                   /\ UNCHANGED crashed
    BY DEF ClientSend
  <1> DEFINE mask == CreateMask(SelectMask(cl, kind = "tls"))
  <1>5. mask = IF kind = "tls" THEN Browser ELSE CreateMask(cl.mode)
    BY ModesAssumption DEF SelectMask, CreateMask
  <1>6. PICK d : d = [mask |-> mask, kind |-> kind] /\ d.mask = mask /\ d.kind = kind
    <2>1. LET e == [mask |-> mask, kind |-> kind] IN e.mask = mask /\ e.kind = kind
      OBVIOUS
    <2> QED
      BY <2>1, Zenon
  <1>7. CASE mask \notin Fatal
    <2>1. /\ c2s' \subseteq c2s \cup {d} /\ UNCHANGED crashed
          /\ stray' = IF kind = "tls" THEN stray \cup {"client"} ELSE stray
      BY <1>4, <1>6, <1>7, ChannelSends
    <2> HIDE DEF mask
    <2>2. stray \subseteq stray' /\ (kind = "tls" => "client" \in stray')
      BY <2>1
    <2>3. ~moved' => ~moved /\ (kind # "tls" => cl.mode = Lead)
      BY <1>1, <1>3
    <2>4. \A e, end : Sent(e, end) => Sent(e, end)'
      BY <1>2, <2>2 DEF Sent
    <2>5. ~moved' => Sent(d, "client")'
      BY <1>2, <1>5, <1>6, <2>2, <2>3 DEF Sent
    <2>6. Flight'
      BY <1>1, <2>1, <2>3, <2>4, <2>5 DEF IInv, Flight
    <2>7. \A peer : Steady(peer)' => Steady(peer)
      BY <1>2, <2>2 DEF Steady
    <2>8. Told' /\ Aligned' /\ CleanDelivery' /\ CrashNeedsMove'
      BY <1>1, <1>2, <2>1, <2>3, <2>7 DEF IInv, Told, Aligned, CleanDelivery, CrashNeedsMove
    <2> QED
      BY <1>1, <1>2, <2>6, <2>8 DEF IInv, Phases, InPool
  <1>8. CASE mask \in Fatal
    <2>1. crashed' = crashed \cup {"client"} /\ UNCHANGED <<c2s, stray>>
      BY <1>4, <1>8
    <2>2. mask = CreateMask(cl.mode)
      BY <1>5, <1>8, MasksAssumption
    <2> HIDE DEF mask
    <2>3. CrashNeedsMove'
      BY <1>1, <1>2, <1>3, <1>8, <2>1, <2>2 DEF IInv, TypeOK, CrashNeedsMove
    <2> QED
      BY <1>1, <1>2, <2>1, <2>3
      DEF IInv, Phases, InPool, Told, Aligned, Sent, Flight, CleanDelivery, Steady
  <1> QED
    BY <1>7, <1>8

\* What an end that has not moved makes of a datagram in flight: its mask parses it,
\* so it stays, and only handshake copies and TLS-looking payloads are garbled.
LEMMA ReadsLead ==
    ASSUME NEW d, NEW m, m.mask = CreateMask(Lead), NEW A \in Parsers(d, m),
           CreateMask(Lead) \in Loose, NEW end, Sent(d, end), Steady(end)
    PROVE  /\ m.mask \in A
           /\ MayGarble(d, m.mask) => d.kind \in {"copy", "tls"}
  <1>1. CreateMask(Lead) \in KnownModes \ (Decoy \cup {Browser})
    BY MasksAssumption
  <1>2. CreateMask(Lead) \in Sure(d)
    <2>1. CASE d.kind = "copy"
      BY <2>1 DEF Sure
    <2>2. CASE d.kind = "tls"
      BY <2>2 DEF Sure, Sent, Steady
    <2>3. CASE d.kind \in {"data", "early"}
      BY <1>1, <2>3 DEF Sure, Sent
    <2> QED
      BY <2>1, <2>2, <2>3 DEF Sent
  <1>3. m.mask \in A
    BY <1>2 DEF Parsers, Tried
  <1>4. d.mask = CreateMask(Lead) => ~MayGarble(d, CreateMask(Lead))
    BY <1>1 DEF MayGarble, Intact
  <1> QED
    BY <1>3, <1>4 DEF Sent

LEMMA ClientRecvStep == ASSUME IInv, NEW d \in s2c, ClientRecv(d) PROVE IInv'
  <1>1. /\ UNCHANGED <<now, cfg, cmix, cl, cstate, syn, scfg, sl, sr, sstate, c2s, stray, moved, crashed>>
        /\ cstate = "up" /\ s2c' \subseteq s2c
    BY ChannelTakes DEF ClientRecv, sVars
  <1>2. PICK A \in Parsers(d, cr) : cr' = Unwrap(cr, A) /\ junk' \in JunkAfter(d, cr', Parsed(cr, A))
    BY DEF ClientRecv
  <1>3. cr \in Mixers /\ cr.modes = cfg.modes /\ cr.mode \in Pool(cfg.modes)
    BY <1>1 DEF IInv, TypeOK, SamePool, InPool
  <1>4. /\ cr' \in Mixers /\ cr'.modes = cfg.modes /\ cr'.mode \in Pool(cfg.modes)
        /\ cr.mask \in A => cr' = cr
    BY <1>2, <1>3, UnwrapMixer
  <1>5. TypeOK' /\ SamePool' /\ Lead' = Lead
    BY <1>1, <1>4 DEF IInv, TypeOK, SamePool, Lead
  <1>6. ASSUME ~moved, CreateMask(Lead) \in Loose, Steady("server")
        PROVE  /\ cr' = cr /\ cr.mask = CreateMask(Lead)
               /\ junk \subseteq {"copy", "tls"} => junk' \subseteq {"copy", "tls"}
    <2>1. cr.mask = CreateMask(Lead)
      BY <1>1, <1>6 DEF IInv, Aligned
    <2>2. Sent(d, "server")
      BY <1>6 DEF IInv, Flight
    <2>3. cr.mask \in A /\ (MayGarble(d, cr.mask) => d.kind \in {"copy", "tls"})
      BY <1>6, <2>1, <2>2, ReadsLead
    <2>4. cr' = cr
      BY <1>4, <2>3
    <2> QED
      BY <1>2, <2>1, <2>3, <2>4 DEF JunkAfter
  <1>11. UNCHANGED stray /\ \A e, end : Sent(e, end)' <=> Sent(e, end)
    BY <1>1, <1>5 DEF Sent
  <1>12. \A end : Steady(end)' <=> Steady(end)
    BY <1>5, <1>11 DEF Steady
  <1>7. Aligned' /\ CleanDelivery' /\ Flight'
    BY <1>1, <1>5, <1>6, <1>11, <1>12 DEF IInv, Aligned, CleanDelivery, Flight
  <1> QED
    BY <1>1, <1>4, <1>5, <1>7 DEF IInv, Phases, InPool, Told, CrashNeedsMove

LEMMA ServerRecvStep == ASSUME IInv, NEW d \in c2s, ServerRecv(d) PROVE IInv'
  <1>1. /\ UNCHANGED <<now, cfg, cmix, cl, cr, cstate, syn, scfg, sl, sstate, s2c, stray, moved, crashed>>
        /\ sstate = "up" /\ c2s' \subseteq c2s
    BY ChannelTakes DEF ServerRecv, cVars
  <1>2. PICK A \in Parsers(d, sr) :
          /\ sr' = Unwrap(sr, A)
          /\ IF Parsed(sr, A)
             THEN junk' \in JunkAfter(d, sr', TRUE)
             ELSE junk' \in IF d.mask = Handshake THEN {junk} ELSE {junk, junk \cup {d.kind}}
    BY DEF ServerRecv
  <1>3. sr \in Mixers /\ sr.modes = scfg.modes /\ sr.mode \in Pool(scfg.modes)
    BY <1>1 DEF IInv, TypeOK, SamePool, InPool
  <1>4. /\ sr' \in Mixers /\ sr'.modes = scfg.modes /\ sr'.mode \in Pool(scfg.modes)
        /\ sr.mask \in A => sr' = sr
    BY <1>2, <1>3, UnwrapMixer
  <1>5. TypeOK' /\ SamePool' /\ Lead' = Lead
    BY <1>1, <1>4 DEF IInv, TypeOK, SamePool, Lead
  <1>6. ASSUME ~moved, CreateMask(Lead) \in Loose, Steady("client")
        PROVE  /\ sr' = sr /\ sr.mask = CreateMask(Lead)
               /\ junk \subseteq {"copy", "tls"} => junk' \subseteq {"copy", "tls"}
    <2>1. sr.mask = CreateMask(Lead)
      BY <1>1, <1>6 DEF IInv, Aligned
    <2>2. Sent(d, "client")
      BY <1>6 DEF IInv, Flight
    <2>3. sr.mask \in A /\ (MayGarble(d, sr.mask) => d.kind \in {"copy", "tls"})
      BY <1>6, <2>1, <2>2, ReadsLead
    <2>4. sr' = sr /\ Parsed(sr, A)
      BY <1>4, <2>3 DEF Parsed
    <2> QED
      BY <1>2, <2>1, <2>3, <2>4 DEF JunkAfter
  <1>11. UNCHANGED stray /\ \A e, end : Sent(e, end)' <=> Sent(e, end)
    BY <1>1, <1>5 DEF Sent
  <1>12. \A end : Steady(end)' <=> Steady(end)
    BY <1>5, <1>11 DEF Steady
  <1>7. Aligned' /\ CleanDelivery' /\ Flight'
    BY <1>1, <1>5, <1>6, <1>11, <1>12 DEF IInv, Aligned, CleanDelivery, Flight
  <1>8. Phases'
    BY <1>1 DEF IInv, Phases
  <1> QED
    BY <1>1, <1>4, <1>5, <1>7, <1>8 DEF IInv, InPool, Told, CrashNeedsMove

\* Rotation before the tunnel is open is undone by SyncModes; afterwards it is a move.
LEMMA ForceRotateStep == ASSUME IInv, ClientForceRotate PROVE IInv'
  <1>1. /\ UNCHANGED <<now, cfg, cr, cstate, syn, scfg, sl, sr, sstate, c2s, s2c, junk, stray, crashed>>
        /\ cmix' = Rotate(cmix, now) /\ cl' = Rotate(cl, now)
        /\ ~moved' => ~moved /\ cstate # "up"
    BY DEF ClientForceRotate, sVars
  <1>2. now \in Nat /\ cmix \in Mixers /\ cl \in Mixers
        /\ cmix.modes = cfg.modes /\ cl.modes = cfg.modes
    BY DEF IInv, TypeOK, SamePool
  <1>3. /\ cmix' \in Mixers /\ cmix'.modes = cfg.modes
        /\ cl' \in Mixers /\ cl'.modes = cfg.modes /\ cl'.mode \in Pool(cfg.modes)
    BY <1>1, <1>2, RotateMixer
  <1>4. TypeOK' /\ SamePool' /\ Lead' = Lead
    BY <1>1, <1>3 DEF IInv, TypeOK, SamePool, Lead
  <1>5. Aligned' /\ Flight' /\ CleanDelivery' /\ CrashNeedsMove'
    BY <1>1, <1>4 DEF IInv, Aligned, Sent, Flight, CleanDelivery, Steady, CrashNeedsMove
  <1> QED
    BY <1>1, <1>3, <1>4, <1>5 DEF IInv, Phases, InPool, Told

LEMMA SetModesStep == ASSUME IInv, NEW ms \in NewPools, ClientSetModes(ms) PROVE IInv'
  <1>1. /\ UNCHANGED <<now, cstate, syn, scfg, sl, sr, sstate, c2s, s2c, junk, stray, crashed>>
        /\ cmix' = SetModes(cmix, ms, now) /\ cfg' = [cfg EXCEPT !.modes = ms]
        /\ cl' = Sync(cl, cfg') /\ cr' = Sync(cr, cfg')
        /\ ~moved' => ~moved /\ cstate = "new"
    BY DEF ClientSetModes, sVars
  <1>2. /\ now \in Nat /\ cfg \in Configs /\ cmix \in Mixers /\ cl \in Mixers /\ cr \in Mixers
        /\ ms \in Pools
    BY MasksAssumption DEF IInv, TypeOK, Pools
  <1>3. cfg' \in Configs /\ cfg'.modes = ms
    BY <1>1, <1>2, ConfigTypes
  <1>10. cmix' \in Mixers /\ cmix'.modes = ms
    BY <1>1, <1>2, SetModesMixer
  <1>4. /\ cl' \in Mixers /\ cl'.modes = ms /\ cl'.mode = ms[1]
        /\ cr' \in Mixers /\ cr'.modes = ms /\ cr'.mode = ms[1]
    <2>1. cl' = Sync(cl, cfg') /\ cr' = Sync(cr, cfg')
      BY <1>1
    <2> QED
      BY <1>2, <1>3, <2>1, SyncMixer
  <1>5. TypeOK' /\ SamePool' /\ Lead' = Lead
    BY <1>1, <1>3, <1>10, <1>4 DEF IInv, TypeOK, SamePool, Lead
  <1>6. Told' /\ Aligned' /\ Flight' /\ CleanDelivery' /\ CrashNeedsMove'
    BY <1>1, <1>5 DEF IInv, Phases, Told, Aligned, Sent, Flight, CleanDelivery, Steady, CrashNeedsMove
  <1> QED
    BY <1>1, <1>2, <1>3, <1>4, <1>5, <1>6, PoolModes DEF IInv, Phases, InPool

LEMMA SetIntervalStep == ASSUME IInv, NEW i \in Intervals, ClientSetSwitchInterval(i) PROVE IInv'
  <1>1. /\ UNCHANGED <<now, cstate, syn, scfg, sl, sr, sstate, c2s, s2c, junk, stray, moved, crashed>>
        /\ cmix' = SetSwitchInterval(cmix, i) /\ cfg' = [cfg EXCEPT !.interval = i]
        /\ cl' = Sync(cl, cfg') /\ cr' = Sync(cr, cfg')
    BY DEF ClientSetSwitchInterval, sVars
  <1>2. /\ now \in Nat /\ cfg \in Configs /\ cmix \in Mixers /\ cl \in Mixers /\ cr \in Mixers
        /\ i \in Nat /\ cmix.modes = cfg.modes
    BY MasksAssumption DEF IInv, TypeOK, SamePool
  <1>3. cfg' \in Configs /\ cfg'.modes = cfg.modes
    BY <1>1, <1>2, ConfigTypes
  <1>10. cmix' \in Mixers /\ cmix'.modes = cfg.modes
    BY <1>1, <1>2, IntervalMixer
  <1>4. /\ cl' \in Mixers /\ cl'.modes = cfg.modes /\ cl'.mode = cfg.modes[1]
        /\ cr' \in Mixers /\ cr'.modes = cfg.modes /\ cr'.mode = cfg.modes[1]
        /\ cr'.mask = CreateMask(cfg.modes[1])
    <2>1. cl' = Sync(cl, cfg') /\ cr' = Sync(cr, cfg')
      BY <1>1
    <2> QED
      BY <1>2, <1>3, <2>1, SyncMixer
  <1>5. TypeOK' /\ SamePool' /\ Lead' = Lead
    BY <1>1, <1>3, <1>10, <1>4 DEF IInv, TypeOK, SamePool, Lead
  <1>6. Told' /\ Phases'
    BY <1>1, <1>3 DEF IInv, Phases, Told
  <1>7. ~moved /\ cstate # "new" => Lead = cfg.modes[1]
    BY DEF IInv, Told, Lead
  <1>8. Aligned'
    BY <1>1, <1>4, <1>5, <1>7 DEF IInv, Aligned, Steady
  <1>9. cfg.modes[1] \in Pool(cfg.modes)
    BY <1>2, ConfigTypes, PoolModes
  <1> QED
    BY <1>1, <1>3, <1>4, <1>5, <1>6, <1>8, <1>9
    DEF IInv, InPool, Sent, Flight, CleanDelivery, Steady, CrashNeedsMove

\* The server's session begins in the mode of the SYN or in ModeVK.
LEMMA AcceptStep == ASSUME IInv, ServerAccept PROVE IInv'
  <1> DEFINE d == [mask |-> Handshake, kind |-> "copy"]
  <1>1. /\ UNCHANGED <<now, cfg, cmix, cl, cr, cstate, syn, c2s, junk, stray, moved, crashed>>
        /\ cstate # "new" /\ sstate = "none" /\ sstate' = "registered"
        /\ scfg' = [modes |-> syn.modes, interval |-> syn.interval]
        /\ sl' = SessionMixer(scfg', SessionMode(syn))
        /\ sr' = SessionMixer(scfg', SessionMode(syn))
    BY DEF ServerAccept, cVars
  <1>2. now \in Nat /\ syn \in Syns
    BY DEF IInv, TypeOK
  <1>3. scfg' \in Configs /\ scfg'.modes = syn.modes
    BY <1>1, <1>2 DEF Syns, Configs
  <1>4. SessionMode(syn) \in Modes
    <2>1. syn.modes[1] \in Modes /\ syn.current \in Modes /\ VK \in Modes
      BY <1>2, PoolModes, ModesAssumption DEF Syns
    <2> QED
      BY <2>1 DEF SessionMode, DecodedMode
  <1>5. /\ sl' \in Mixers /\ sl'.modes = syn.modes
        /\ sr' \in Mixers /\ sr'.modes = syn.modes
    BY <1>1, <1>2, <1>3, <1>4, SessionMixerType
  <1>6. TypeOK' /\ SamePool' /\ Lead' = Lead
    BY <1>1, <1>3, <1>5 DEF IInv, TypeOK, SamePool, Lead
  <1>7. s2c' \subseteq s2c \cup {d} /\ d.mask = Handshake /\ d.kind = "copy"
    BY ChannelSends DEF ServerAccept
  <1> HIDE DEF d
  <1>8. Flight'
    BY <1>1, <1>6, <1>7 DEF IInv, Flight, Sent
  <1> QED
    BY <1>1, <1>3, <1>6, <1>8
    DEF IInv, Phases, InPool, Told, Aligned, CleanDelivery, Steady, CrashNeedsMove

LEMMA ServerSyncStep == ASSUME IInv, ServerSync PROVE IInv'
  <1>1. /\ UNCHANGED <<now, cfg, cmix, cl, cr, cstate, syn, scfg, c2s, s2c, junk, stray, moved, crashed>>
        /\ sstate = "registered" /\ sstate' = "up" /\ "server" \notin crashed
        /\ sl' = Sync(sl, scfg) /\ sr' = Sync(sr, scfg)
    BY DEF ServerSync, cVars, Alive
  <1>2. now \in Nat /\ scfg \in Configs /\ sl \in Mixers /\ sr \in Mixers
    BY DEF IInv, TypeOK
  <1>3. /\ sl' \in Mixers /\ sl'.modes = scfg.modes /\ sl'.mode = scfg.modes[1]
        /\ sr' \in Mixers /\ sr'.modes = scfg.modes /\ sr'.mode = scfg.modes[1]
        /\ sr'.mask = CreateMask(scfg.modes[1])
    BY <1>1, <1>2, SyncMixer
  <1>4. TypeOK' /\ SamePool' /\ Lead' = Lead
    BY <1>1, <1>3 DEF IInv, TypeOK, SamePool, Lead
  <1>5. scfg.modes[1] \in Pool(scfg.modes)
    BY <1>2, ConfigTypes, PoolModes
  <1>6. ~moved => Lead = scfg.modes[1]
    BY <1>1 DEF IInv, Told, Lead
  <1>7. Aligned'
    BY <1>1, <1>3, <1>4, <1>6 DEF IInv, Aligned, Steady
  <1> QED
    BY <1>1, <1>3, <1>4, <1>5, <1>7
    DEF IInv, Phases, InPool, Told, Sent, Flight, CleanDelivery, Steady, CrashNeedsMove

\* tunLoop before SyncModes either uses the head's mask or has moved.
LEMMA ServerSendStep == ASSUME IInv, ServerSend PROVE IInv'
  <1> DEFINE kinds == {IF sstate = "up" THEN "data" ELSE "early", "tls"}
  <1>1. /\ UNCHANGED <<now, cfg, cmix, cl, cr, cstate, syn, scfg, sl, sr, sstate, c2s, junk>>
        /\ sstate # "none"
    BY DEF ServerSend, cVars, sVars
  <1>2. TypeOK' /\ SamePool' /\ Lead' = Lead
    BY <1>1 DEF IInv, TypeOK, SamePool, Lead
  <1>3. ~moved /\ sstate = "up" => sl.mode = Lead
    BY <1>1 DEF IInv, Aligned
  <1>4. PICK kind \in kinds :
          LET mask == CreateMask(SelectMask(sl, kind = "tls"))
          IN  IF mask \in Fatal
              THEN crashed' = crashed \cup {"server"} /\ UNCHANGED <<s2c, stray, moved>>
              ELSE /\ s2c' \in Sends(s2c, [mask |-> mask, kind |-> kind])
                   /\ stray' = IF kind = "tls" THEN stray \cup {"server"} ELSE stray
                   /\ moved' = (moved \/ (kind = "early" /\ sl.mode # syn.modes[1]))
                   /\ UNCHANGED crashed
    BY DEF ServerSend
  <1> DEFINE mask == CreateMask(SelectMask(sl, kind = "tls"))
  <1>5. mask = IF kind = "tls" THEN Browser ELSE CreateMask(sl.mode)
    BY ModesAssumption DEF SelectMask, CreateMask
  <1>6. PICK d : d = [mask |-> mask, kind |-> kind] /\ d.mask = mask /\ d.kind = kind
    <2>1. LET e == [mask |-> mask, kind |-> kind] IN e.mask = mask /\ e.kind = kind
      OBVIOUS
    <2> QED
      BY <2>1, Zenon
  <1>7. CASE mask \notin Fatal
    <2>1. /\ s2c' \subseteq s2c \cup {d} /\ UNCHANGED crashed
          /\ stray' = IF kind = "tls" THEN stray \cup {"server"} ELSE stray
          /\ moved' = (moved \/ (kind = "early" /\ sl.mode # syn.modes[1]))
      BY <1>4, <1>6, <1>7, ChannelSends
    <2> HIDE DEF mask
    <2>2. stray \subseteq stray' /\ (kind = "tls" => "server" \in stray')
      BY <2>1
    <2>3. ~moved' => ~moved /\ (kind # "tls" => sl.mode = Lead)
      BY <1>1, <1>3, <2>1 DEF Lead
    <2>4. \A e, end : Sent(e, end) => Sent(e, end)'
      BY <1>2, <2>2 DEF Sent
    <2>5. ~moved' => Sent(d, "server")'
      BY <1>2, <1>5, <1>6, <2>2, <2>3 DEF Sent
    <2>6. Flight'
      BY <1>1, <2>1, <2>3, <2>4, <2>5 DEF IInv, Flight
    <2>7. \A peer : Steady(peer)' => Steady(peer)
      BY <1>2, <2>2 DEF Steady
    <2>8. Told' /\ Aligned' /\ CleanDelivery' /\ CrashNeedsMove'
      BY <1>1, <1>2, <2>1, <2>3, <2>7 DEF IInv, Told, Aligned, CleanDelivery, CrashNeedsMove
    <2> QED
      BY <1>1, <1>2, <2>6, <2>8 DEF IInv, Phases, InPool
  <1>8. CASE mask \in Fatal
    <2>1. crashed' = crashed \cup {"server"} /\ UNCHANGED <<s2c, stray, moved>>
      BY <1>4, <1>8
    <2>2. mask = CreateMask(sl.mode)
      BY <1>5, <1>8, MasksAssumption
    <2> HIDE DEF mask
    <2>3. CrashNeedsMove'
      BY <1>1, <1>2, <1>3, <1>8, <2>1, <2>2 DEF IInv, TypeOK, CrashNeedsMove
    <2> QED
      BY <1>1, <1>2, <2>1, <2>3
      DEF IInv, Phases, InPool, Told, Aligned, Sent, Flight, CleanDelivery, Steady
  <1> QED
    BY <1>7, <1>8

LEMMA RotateSessionStep == ASSUME IInv, ForceRotateSession PROVE IInv'
  <1>1. /\ UNCHANGED <<now, cfg, cmix, cl, cr, cstate, syn, scfg, sr, sstate, c2s, s2c, junk, stray, crashed>>
        /\ sl' = Rotate(sl, now)
        /\ ~moved' => ~moved /\ sstate # "up"
    BY DEF ForceRotateSession, cVars
  <1>2. now \in Nat /\ sl \in Mixers /\ sl.modes = scfg.modes
    BY DEF IInv, TypeOK, SamePool
  <1>3. sl' \in Mixers /\ sl'.modes = scfg.modes /\ sl'.mode \in Pool(scfg.modes)
    BY <1>1, <1>2, RotateMixer
  <1>4. TypeOK' /\ SamePool' /\ Lead' = Lead
    BY <1>1, <1>3 DEF IInv, TypeOK, SamePool, Lead
  <1>5. Told' /\ Aligned' /\ Flight' /\ CleanDelivery' /\ CrashNeedsMove'
    BY <1>1, <1>4 DEF IInv, Told, Aligned, Sent, Flight, CleanDelivery, Steady, CrashNeedsMove
  <1> QED
    BY <1>1, <1>3, <1>4, <1>5 DEF IInv, Phases, InPool

LEMMA SessionModesStep == ASSUME IInv, NEW ms \in NewPools, SetSessionModes(ms) PROVE IInv'
  <1>1. /\ UNCHANGED <<now, cfg, cmix, cl, cr, cstate, syn, sstate, c2s, s2c, junk, stray, crashed>>
        /\ scfg' = [scfg EXCEPT !.modes = ms]
        /\ sl' = Sync(sl, scfg') /\ sr' = Sync(sr, scfg') /\ moved'
    BY DEF SetSessionModes, cVars
  <1>2. now \in Nat /\ scfg \in Configs /\ sl \in Mixers /\ sr \in Mixers /\ ms \in Pools
    BY MasksAssumption DEF IInv, TypeOK, Pools
  <1>3. scfg' \in Configs /\ scfg'.modes = ms
    BY <1>1, <1>2, ConfigTypes
  <1>4. /\ sl' \in Mixers /\ sl'.modes = ms /\ sl'.mode = ms[1]
        /\ sr' \in Mixers /\ sr'.modes = ms /\ sr'.mode = ms[1]
    <2>1. sl' = Sync(sl, scfg') /\ sr' = Sync(sr, scfg')
      BY <1>1
    <2>2. sl' \in Mixers /\ sl'.modes = ms /\ sl'.mode = ms[1]
      BY <1>2, <1>3, <2>1, SyncMixer
    <2>3. sr' \in Mixers /\ sr'.modes = ms /\ sr'.mode = ms[1]
      BY <1>2, <1>3, <2>1, SyncMixer
    <2> QED
      BY <2>2, <2>3
  <1>5. TypeOK' /\ SamePool'
    BY <1>1, <1>3, <1>4 DEF IInv, TypeOK, SamePool
  <1>6. ms[1] \in Pool(ms)
    BY <1>2, PoolModes
  <1> QED
    BY <1>1, <1>3, <1>4, <1>5, <1>6
    DEF IInv, Phases, InPool, Told, Aligned, Sent, Flight, CleanDelivery, Steady, CrashNeedsMove

LEMMA NextIInv == IInv /\ [Next \/ Tick]_vars => IInv'
  BY QuietSteps, SendSynStep, ClientUpStep, ClientSendStep, ClientRecvStep, ServerRecvStep,
     ForceRotateStep, SetModesStep, SetIntervalStep, AcceptStep, ServerSyncStep, ServerSendStep,
     RotateSessionStep, SessionModesStep DEF Next, Running, Administration

-----------------------------------------------------------------------------
(* The properties *)

\* The inductive invariant holds in every reachable state.
THEOREM Invariant == Spec => []IInv
  BY InitIInv, NextIInv, PTL DEF Spec

\* Both ends of a tunnel that nobody moved send packets with the head of the client's
\* pool and TLS-looking payloads in the Browser mask (SelectMask), and receive with
\* the head's when it cuts a fixed header that no TLS-looking payload was short of.
THEOREM Agreement == Spec => []TunnelAgrees
  <1>1. IInv => TunnelAgrees
    BY DEF IInv, Aligned, Flight, Sent, TunnelAgrees
  <1> QED
    BY <1>1, Invariant, PTL

\* On such a tunnel only copies of the handshake and TLS-looking payloads reach a TUN
\* device garbled.
THEOREM NothingGarbled == Spec => []CleanDelivery
  <1>1. IInv => CleanDelivery
    BY DEF IInv
  <1> QED
    BY <1>1, Invariant, PTL

\* A panicking mask needs a move, or a connection that is not synchronised yet.
THEOREM CrashesOnlyAfterMove == Spec => []CrashNeedsMove
  <1>1. IInv => CrashNeedsMove
    BY DEF IInv
  <1> QED
    BY <1>1, Invariant, PTL

\* Each end of an open tunnel keeps to the modes it was configured with, except for
\* the ModeBrowser of a TLS-looking payload.
THEOREM ConfiguredModes == Spec => []OnlyConfiguredModes
  <1>1. IInv => OnlyConfiguredModes
    BY DEF IInv, InPool, OnlyConfiguredModes, SelectMask
  <1> QED
    BY <1>1, Invariant, PTL
=============================================================================
