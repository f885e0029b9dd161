------------------------------- MODULE Tunnel -------------------------------
(***************************************************************************)
(* Masks on both ends of a tunnel: the mixers of one client                *)
(* (internal/engine/client.go) and of its server session                   *)
(* (internal/engine/server.go, internal/shred/session.go), and the packets *)
(* between them.  The handshake itself is module Handshake; here it only   *)
(* carries the client's pool over and leaves extra copies of its packets   *)
(* behind, which both ends then read as data.                              *)
(*                                                                         *)
(* A datagram is named by the mask that wrapped it and by its kind:        *)
(*    data     a packet; early, one that the server sent before SyncModes  *)
(*    copy     a further copy of a SYN or an ACK                           *)
(*    tls      a payload that begins like a TLS record (SelectMask)        *)
(* It may be lost, reordered or duplicated.                                *)
(***************************************************************************)
EXTENDS MaskMixerOps

CONSTANTS
    Zero,        \* the mode whose number is 0 (ModeWebRTC): Encode leaves out the tail
    Loose,       \* masks whose Unwrap cuts a fixed header off anything
    Header,      \* their header lengths
    Decoy,       \* masks whose first Wrap returns a simulated handshake, without the payload
    Fatal,       \* masks whose first Wrap indexes past its buffer and panics
    Exposed,     \* masks that cut a handshake packet at a byte that may read as IP version 4 or 6
    ClientPools, \* lists a client is configured with
    NewPools,    \* lists set while it runs
    DomainModes, \* modes SwitchToDomain can select
    Intervals,   \* switch intervals
    MaxTime,     \* bound on the clock
    MaxFlight    \* bound on the datagrams in flight, per direction

ASSUME MasksAssumption ==
    /\ Zero \in Modes
    /\ Loose \subseteq KnownModes \ (Decoy \cup Fatal \cup {Browser})
    /\ Browser \notin Decoy \cup Fatal
    /\ Header \in [Loose -> Nat]
    /\ Decoy \subseteq KnownModes
    /\ Fatal \subseteq KnownModes
    /\ Exposed \subseteq KnownModes
    /\ ClientPools \subseteq Seq(Modes) \ {<<>>}
    /\ NewPools \subseteq Seq(Modes) \ {<<>>}
    /\ DomainModes \subseteq Modes
    /\ Intervals \subseteq Nat /\ Intervals # {}
    /\ MaxTime \in Nat
    /\ MaxFlight \in Nat

Handshake == "handshake"    \* stands for the mask of a SYN or an ACK, which have none
ShortestTls == 19           \* the Browser header and a TLS-looking payload of five bytes

VARIABLES
    now,      \* the clock
    cfg,      \* client session.MaskConfig: modes, interval
    cmix,     \* Client.mixer
    cl, cr,   \* client session.LocalMixer and RemoteMixer
    syn,      \* what the client's SYN says: modes, current mode, interval
    scfg,     \* server session.MaskConfig
    sl, sr,   \* server session.LocalMixer and RemoteMixer
    cstate,   \* client: "new", "syn", "up"
    sstate,   \* server session: "none", "registered", "up"
    c2s, s2c, \* datagrams in flight
    junk,     \* history: kinds of datagrams whose bytes reached a TUN device garbled
    stray,    \* history: ends that sent a TLS-looking payload
    moved,    \* history: an end changed its masks when the other was not told, or the
              \* server used another mask than the head's before SyncModes
    crashed   \* ends whose process panicked

cVars == <<cfg, cmix, cl, cr, cstate>>
sVars == <<scfg, sl, sr, sstate>>
vars == <<now, cVars, syn, sVars, c2s, s2c, junk, stray, moved, crashed>>

Alive(end) == end \notin crashed

-----------------------------------------------------------------------------
(* Sessions *)

\* SyncModes: both session mixers back to the head of the configured pool.
Sync(m, config) == SetSwitchInterval(SetModes(m, config.modes, now), config.interval)

\* A mixer as CreateSessionWithConfig leaves it.  Whether it is day decides only
\* the pool that SetModes replaces at once.
SessionMixer(config, mode) ==
    SetCurrentMode(SetModes(NewMaskMixer(config.interval, now, TRUE), config.modes, now), mode)

\* The current mode the server makes of a SYN, and the one its session starts in.
DecodedMode(s) == IF s.current = Zero THEN s.modes[1] ELSE s.current
SessionMode(s) == IF DecodedMode(s) = Zero THEN VK ELSE DecodedMode(s)

\* A datagram joins those in flight, or is lost at once.
Sends(channel, d) == {channel} \cup (IF Cardinality(channel) < MaxFlight
                                     THEN {channel \cup {d}} ELSE {})

\* A datagram is read; a duplicate of it may still arrive.
Takes(channel, d) == {channel, channel \ {d}}

-----------------------------------------------------------------------------
(* Reading a datagram *)

\* The masks Unwrap may try on a mixer.
Tried(m) == {m.mask} \cup {CreateMask(mode) : mode \in Pool(m.modes)}

\* The sets of these that may parse a datagram: its own mask always does; a handshake
\* copy is longer than every fixed header, and a TLS-looking payload arrives in at
\* least ShortestTls bytes; anything else depends on its bytes.
Sure(d) ==
    CASE d.kind = "copy" -> Loose
      [] d.kind = "tls" -> {Browser} \cup {mask \in Loose : Header[mask] <= ShortestTls}
      [] OTHER -> {d.mask} \ Decoy

Parsers(d, m) == {A \in SUBSET Tried(m) : Sure(d) \cap Tried(m) \subseteq A}

\* Cutting the same number of bytes off keeps the payload whole.  The Browser mask
\* returns a datagram uncut whose random session ID looks like TLS.
Intact(d, mask) ==
    /\ d.mask \in KnownModes \ (Decoy \cup {Browser})
    /\ \/ mask = d.mask
       \/ mask \in Loose /\ d.mask \in Loose /\ Header[mask] = Header[d.mask]

\* A garbled payload may still look like an IP packet, except that a handshake
\* copy only does when cut late and a decoy is empty to its own mask.
MayGarble(d, mask) ==
    /\ ~Intact(d, mask)
    /\ d.mask = Handshake /\ mask \in Loose => mask \in Exposed
    /\ d.mask \in Decoy => mask # d.mask

\* junk after a read that ended up with mixer m; read is FALSE when nothing parsed.
JunkAfter(d, m, read) ==
    {junk} \cup (IF read /\ MayGarble(d, m.mask) THEN {junk \cup {d.kind}} ELSE {})

Parsed(m, A) == m.mask \in A \/ Parsing(m.modes, A) # {}

-----------------------------------------------------------------------------
(* Client *)

\* Client.Start up to the SYN: its pool and mode are those of Client.mixer.
ClientSendSyn ==
    /\ Alive("client") /\ cstate = "new"
    /\ syn' = [modes |-> cmix.modes, current |-> cmix.mode, interval |-> cmix.interval]
    /\ cstate' = "syn"
    /\ c2s' \in Sends(c2s, [mask |-> Handshake, kind |-> "copy"])
    /\ UNCHANGED <<now, cfg, cmix, cl, cr, sVars, s2c, junk, stray, moved, crashed>>

\* Mutant of ClientUp: the session is not synchronised.
ClientUpNoSync ==
    /\ Alive("client") /\ cstate = "syn" /\ sstate # "none"
    /\ ~(syn.current = Zero /\ syn.modes[1] = Zero)
    /\ cstate' = "up"
    /\ UNCHANGED <<now, cfg, cmix, cl, cr, syn, sVars, c2s, s2c, junk, stray, moved, crashed>>

\* performHandshake returns: SyncModes.  An ACK without a tail fails its checksum.
ClientUp ==
    /\ Alive("client") /\ cstate = "syn" /\ sstate # "none"
    /\ ~(syn.current = Zero /\ syn.modes[1] = Zero)
    /\ cstate' = "up"
    /\ cl' = Sync(cl, cfg)
    /\ cr' = Sync(cr, cfg)
    /\ UNCHANGED <<now, cfg, cmix, syn, sVars, c2s, s2c, junk, stray, moved, crashed>>

\* Client.Send: a mask made anew for this packet.  From 20 bytes on only IP packets
\* are sent, so what looks like TLS is shorter.
ClientSend ==
    /\ Alive("client") /\ cstate = "up"
    /\ \E kind \in {"data", "tls"} :
         LET mask == CreateMask(SelectMask(cl, kind = "tls"))
         IN  IF mask \in Fatal
             THEN crashed' = crashed \cup {"client"} /\ UNCHANGED <<c2s, stray>>
             ELSE /\ c2s' \in Sends(c2s, [mask |-> mask, kind |-> kind])
                  /\ stray' = IF kind = "tls" THEN stray \cup {"client"} ELSE stray
                  /\ UNCHANGED crashed
    /\ UNCHANGED <<now, cVars, syn, sVars, s2c, junk, moved>>

\* readLoop and processIncomingPacket.
ClientRecv(d) ==
    /\ Alive("client") /\ cstate = "up"
    /\ \E A \in Parsers(d, cr) :
         /\ cr' = Unwrap(cr, A)
         /\ junk' \in JunkAfter(d, cr', Parsed(cr, A))
    /\ s2c' \in Takes(s2c, d)
    /\ UNCHANGED <<now, cfg, cmix, cl, cstate, syn, sVars, c2s, stray, moved, crashed>>

\* Mutant of ClientSwitchToDomain: it moves the session's mask as well.
ClientSwitchToDomainSession(mode) ==
    /\ Alive("client") /\ cstate = "up"
    /\ cmix' = SwitchToDomain(cmix, mode)
    /\ cl' = SwitchToDomain(cl, mode)
    /\ UNCHANGED <<now, cfg, cr, cstate, syn, sVars, c2s, s2c, junk, stray, moved, crashed>>

\* A server name in the traffic moves Client.mixer, which no packet is wrapped with.
ClientSwitchToDomain(mode) ==
    /\ Alive("client") /\ cstate = "up"
    /\ cmix' = SwitchToDomain(cmix, mode)
    /\ UNCHANGED <<now, cfg, cl, cr, cstate, syn, sVars, c2s, s2c, junk, stray, moved, crashed>>

ClientForceRotate ==
    /\ Alive("client")
    /\ cmix' = Rotate(cmix, now)
    /\ cl' = Rotate(cl, now)
    /\ moved' = (moved \/ cstate = "up")
    /\ UNCHANGED <<now, cfg, cr, cstate, syn, sVars, c2s, s2c, junk, stray, crashed>>

ClientSetModes(ms) ==
    /\ Alive("client")
    /\ cmix' = SetModes(cmix, ms, now)
    /\ cfg' = [cfg EXCEPT !.modes = ms]
    /\ cl' = Sync(cl, cfg')
    /\ cr' = Sync(cr, cfg')
    /\ moved' = (moved \/ cstate # "new")
    /\ UNCHANGED <<now, cstate, syn, sVars, c2s, s2c, junk, stray, crashed>>

\* SetSwitchInterval runs SyncModes too, which undoes every rotation.
ClientSetSwitchInterval(i) ==
    /\ Alive("client")
    /\ cmix' = SetSwitchInterval(cmix, i)
    /\ cfg' = [cfg EXCEPT !.interval = i]
    /\ cl' = Sync(cl, cfg')
    /\ cr' = Sync(cr, cfg')
    /\ UNCHANGED <<now, cstate, syn, sVars, c2s, s2c, junk, stray, moved, crashed>>

-----------------------------------------------------------------------------
(* Server *)

\* handleConnection up to the registration: handshake and
\* CreateSessionWithConfig.  A SYN without a tail decodes only if its header
\* bytes XOR to 0, which depends on the pool and the interval.
ServerAccept ==
    /\ Alive("server") /\ cstate # "new" /\ sstate = "none"
    /\ scfg' = [modes |-> syn.modes, interval |-> syn.interval]
    /\ sl' = SessionMixer(scfg', SessionMode(syn))
    /\ sr' = SessionMixer(scfg', SessionMode(syn))
    /\ sstate' = "registered"
    /\ s2c' \in Sends(s2c, [mask |-> Handshake, kind |-> "copy"])
    /\ UNCHANGED <<now, cVars, syn, c2s, junk, stray, moved, crashed>>

\* Mutant of ServerSync: only the receiving mixer is synchronised.
ServerSyncRemote ==
    /\ Alive("server") /\ sstate = "registered"
    /\ sr' = Sync(sr, scfg)
    /\ sstate' = "up"
    /\ UNCHANGED <<now, cVars, syn, scfg, sl, c2s, s2c, junk, stray, moved, crashed>>

\* The rest of handleConnection: Established and SyncModes.
ServerSync ==
    /\ Alive("server") /\ sstate = "registered"
    /\ sl' = Sync(sl, scfg)
    /\ sr' = Sync(sr, scfg)
    /\ sstate' = "up"
    /\ UNCHANGED <<now, cVars, syn, scfg, c2s, s2c, junk, stray, moved, crashed>>

\* tunLoop, SendToSession and Broadcast write to every registered connection,
\* also to one that has not been synchronised yet.  The last two take any bytes.
ServerSend ==
    /\ Alive("server") /\ sstate # "none"
    /\ \E kind \in {IF sstate = "up" THEN "data" ELSE "early", "tls"} :
         LET mask == CreateMask(SelectMask(sl, kind = "tls"))
         IN  IF mask \in Fatal
             THEN crashed' = crashed \cup {"server"} /\ UNCHANGED <<s2c, stray, moved>>
             ELSE /\ s2c' \in Sends(s2c, [mask |-> mask, kind |-> kind])
                  /\ stray' = IF kind = "tls" THEN stray \cup {"server"} ELSE stray
                  /\ moved' = (moved \/ (kind = "early" /\ sl.mode # syn.modes[1]))
                  /\ UNCHANGED crashed
    /\ UNCHANGED <<now, cVars, syn, sVars, c2s, junk>>

\* handleDataExchange.  What no mask parses is taken as it is if its first byte
\* reads as an IP version.
ServerRecv(d) ==
    /\ Alive("server") /\ sstate = "up"
    /\ \E A \in Parsers(d, sr) :
         /\ sr' = Unwrap(sr, A)
         /\ IF Parsed(sr, A)
            THEN junk' \in JunkAfter(d, sr', TRUE)
            ELSE junk' \in IF d.mask = Handshake THEN {junk} ELSE {junk, junk \cup {d.kind}}
    /\ c2s' \in Takes(c2s, d)
    /\ UNCHANGED <<now, cVars, syn, scfg, sl, sstate, s2c, stray, moved, crashed>>

ForceRotateSession ==
    /\ Alive("server") /\ sstate # "none"
    /\ sl' = Rotate(sl, now)
    /\ moved' = (moved \/ sstate = "up")
    /\ UNCHANGED <<now, cVars, syn, scfg, sr, sstate, c2s, s2c, junk, stray, crashed>>

SetSessionModes(ms) ==
    /\ Alive("server") /\ sstate # "none"
    /\ scfg' = [scfg EXCEPT !.modes = ms]
    /\ sl' = Sync(sl, scfg')
    /\ sr' = Sync(sr, scfg')
    /\ moved' = TRUE
    /\ UNCHANGED <<now, cVars, syn, sstate, c2s, s2c, junk, stray, crashed>>

-----------------------------------------------------------------------------
Tick ==
    /\ now < MaxTime
    /\ now' = now + 1
    /\ UNCHANGED <<cVars, syn, sVars, c2s, s2c, junk, stray, moved, crashed>>

\* NewClient: its session starts in ModeVK, its own mixer at the pool's head.
Init ==
    /\ now = 0
    /\ \E ms \in ClientPools, i \in Intervals :
         /\ cfg = [modes |-> ms, interval |-> i]
         /\ cmix = SetModes(NewMaskMixer(i, 0, TRUE), ms, 0)
         /\ cl = SessionMixer(cfg, VK)
         /\ cr = SessionMixer(cfg, VK)
         /\ syn = [modes |-> ms, current |-> ms[1], interval |-> i]
         /\ scfg = cfg /\ sl = SessionMixer(cfg, VK) /\ sr = SessionMixer(cfg, VK)
    /\ cstate = "new" /\ sstate = "none"
    /\ c2s = {} /\ s2c = {}
    /\ junk = {} /\ stray = {} /\ moved = FALSE /\ crashed = {}

Running ==
    \/ ClientSendSyn
    \/ ClientUp
    \/ ClientSend
    \/ \E d \in s2c : ClientRecv(d)
    \/ ServerAccept
    \/ ServerSync
    \/ ServerSend
    \/ \E d \in c2s : ServerRecv(d)

Administration ==
    \/ \E mode \in DomainModes : ClientSwitchToDomain(mode)
    \/ ClientForceRotate
    \/ \E ms \in NewPools : ClientSetModes(ms)
    \/ \E i \in Intervals : ClientSetSwitchInterval(i)
    \/ ForceRotateSession
    \/ \E ms \in NewPools : SetSessionModes(ms)

Next == Running \/ Administration

Spec == Init /\ [][Next \/ Tick]_vars

\* The tunnel while the clock stands still: only GetCurrentMask reads a mixer's
\* lastSwitch, and nothing on a tunnel calls it.
Untimed == Init /\ [][Next]_vars

\* Both ends run: they connect, they go on sending, and time passes.
FairSpec ==
    /\ Spec
    /\ WF_vars(ClientSendSyn) /\ WF_vars(ServerAccept) /\ WF_vars(ServerSync)
    /\ WF_vars(ClientUp) /\ WF_vars(ClientSend) /\ WF_vars(ServerSend) /\ WF_vars(Tick)

-----------------------------------------------------------------------------
(* Properties *)

\* The head of the pool the SYN announces.
Lead == syn.modes[1]

\* The head's mask accepts whatever TLS-looking payloads the peer has sent.
Steady(peer) == peer \notin stray \/ Header[CreateMask(Lead)] <= ShortestTls

\* While nobody rotates masks or replaces a pool on one end of an open tunnel, and
\* tunLoop sent nothing before SyncModes in a mode that it gives up again, both
\* ends send every packet with the head of the client's pool, except that a payload
\* that looks like TLS goes out in the Browser mask (SelectMask): whatever was
\* rotated before the handshake, whatever traffic and handshake copies arrive, and
\* in whichever order the two ends call SyncModes.  If the head's mask cuts a fixed
\* header, an end also receives with it, until its peer sends a TLS-looking payload,
\* which may be too short for that header and makes Unwrap search the pool.
TunnelAgrees ==
    (~moved /\ cstate = "up" /\ sstate = "up") =>
        /\ cl.mode = Lead /\ sl.mode = Lead
        /\ \A d \in c2s \cup s2c :
             /\ d.kind \in {"data", "early"} => d.mask = CreateMask(Lead)
             /\ d.kind = "tls" => d.mask = Browser
        /\ CreateMask(Lead) \in Loose =>
              /\ Steady("server") => cr.mask = CreateMask(Lead)
              /\ Steady("client") => sr.mask = CreateMask(Lead)

\* On such a tunnel the only packets that reach a TUN device garbled are copies of
\* the handshake and TLS-looking payloads, which Wrap puts in another mask than the
\* one the peer reads with; one shorter than the head's header may garble packets
\* after it.
CleanDelivery ==
    (~moved /\ CreateMask(Lead) \in Loose /\ Steady("client") /\ Steady("server")) =>
        junk \subseteq {"copy", "tls"}

\* A mask whose Wrap panics takes a process down only after somebody moved masks
\* on an open tunnel, with one exception: tunLoop may use it on a connection that
\* is registered and not yet synchronised.
CrashNeedsMove ==
    (~moved /\ CreateMask(Lead) \notin Fatal) =>
        /\ "client" \notin crashed
        /\ "server" \in crashed => sstate = "registered"

\* On an open tunnel each end sends and receives only with modes of the pool it
\* was configured with: neither the domain detection, which may pick any mode,
\* nor Unwrap's search brings in another.  The one exception is what SelectMask makes
\* of a payload that looks like TLS: it is sent in ModeBrowser, configured or not.
OnlyConfiguredModes ==
    /\ cstate = "up" => /\ {SelectMask(cl, FALSE), cr.mode} \subseteq Pool(cfg.modes)
                        /\ SelectMask(cl, TRUE) \in Pool(cfg.modes) \cup {Browser}
    /\ sstate = "up" => /\ {SelectMask(sl, FALSE), sr.mode} \subseteq Pool(scfg.modes)
                        /\ SelectMask(sl, TRUE) \in Pool(scfg.modes) \cup {Browser}

\* README.md: the mode changes asynchronously by the SwitchInterval timer;
\* docs/architecture.md: "Automatic protocol rotation every 5 minutes".
TimerRotates ==
    (cstate = "up" /\ cl.interval > 0 /\ Len(cl.modes) > 1) ~> cl.mode # cl.modes[1]
=============================================================================
