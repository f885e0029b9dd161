# L7-Shred in TLA+

L7-Shred is a VPN in Go. A client opens a session with a server by a SYN/ACK handshake
and then exchanges IP packets whose bytes are dressed up ("masked") as those of some
well-known service. This directory models the parts of it that keep state and run
concurrently, checks them with TLC on small instances, and proves their safety properties
with TLAPS for every value of the constants. All file names below are relative to the root of
the repository (`src/`); line numbers of every definition are in `PROJECT.json`, "map".

## 1. The system

| Part | State | Operations | Interaction |
|---|---|---|---|
| Handshake (`internal/shred/handshake.go`) | `HandshakeState`: `lastSeen` (sequence → time), the counter `sequence`, each behind one mutex | `PerformClientHandshake`, `PerformServerHandshake`, `IsReplay`, `MarkSeen`, `NextSequence` | one server goroutine per connection, all sharing one `HandshakeState`; datagrams |
| Mask mixer (`internal/shred/mask_mixer.go`) | current mode, current mask, pool of modes, switch interval, time of the last switch, day/night flags | `GetCurrentMask`, `ForceRotate`, `SetModes`, `AddMode`, `RemoveMode`, `SetCurrentMode`, `SwitchToDomain`, `Unwrap`, setters | one in the client, two in every session |
| Session (`internal/shred/session.go`) | a local and a remote mixer | `CreateSessionWithConfig`, `SyncModes`, `Wrap`, `Unwrap`, `RotateLocalMask`, `RotateRemoteMask` | created on both ends after the handshake from what the SYN carries |
| Client engine (`internal/engine/client.go`, `background.go`, `internal/transport/outbound.go`) | `mu`, `connected`, `handshakeDone`, the connection, routes, `stopChan`, `stopOnce` | `Start`, `Stop`, `Send`, `readLoop`, background traffic | app or `cmd/client`; socket |
| Server engine (`internal/engine/server.go`) | `connections` behind a `RWMutex` | `acceptLoop`, `handleConnection`, `tunLoop`, `cleanupLoop`, `SendToSession`, `Stop` | `Inbound`, TUN device |
| Inbound (`internal/transport/inbound.go`) | listeners; for raw UDP one buffer, a wrapper with a `readChan` per remote address, any number of `UDPConn`s on it | `Start`, `Accept`, `packetLoop`, `handlePacket`, `UDPConn.Read/Write/Close` | hands connections to the server, and echoes the ones its own accept loop wins |
| Masks (`internal/masks`) | handshake step, stream ID, preface flag (stateful masks) | `Wrap`, `Unwrap` of sixteen masks | called by the mixers |
| App bindings (`exports.go`, `internal/tun/tun_android.go`, `tun_windows.go`) | globals `clientInstance`, `tunDevice`, `stopChan`, `isRunning`, `isStopping` | `StartVPN`, `StopVPN`, `SetTunFileDescriptor`, `WriteTUN`, packet callback, TUN readers | called from Java or a GUI, on threads of their choosing |
| Accounts API, payments (`internal/api`, `internal/payment`, `internal/auth`, `internal/database`) | rows of `users`, `sessions`, `subscriptions` | registration, verification, login, refresh, logout, updates, deletion; payment webhooks | HTTP, one goroutine per request; mail; the payment provider |
| Cryptography, frame pipeline, routes, entry points | see section 8 | | |

What is hard here:

* check-then-act under two locks (`IsReplay` and `MarkSeen`), and a purge that runs
  inside the marking;
* datagrams lost, late, doubled (each handshake packet is written three times) and read
  as data once the tunnel is open;
* four mixers that must agree without ever exchanging a message after the handshake,
  while rotation, domain detection and configuration move them, and a `Wrap` that puts
  TLS-looking payloads in a mask of its own choice;
* `Stop` waiting under a lock for a goroutine that takes it; readers abandoned after a
  timeout which still own the buffer; deadlines set for the handshake and never cleared;
* three goroutines closing and deleting the same connection; a read that keeps the
  connection's lock while it waits; two accept loops on one listener;
* slices of one buffer handed to goroutines and channels while the next datagram is read
  into it; a channel closed under its senders; two takers of one channel;
* handlers that read a row, work, and write the whole row back without a transaction,
  and whose process may end in between;
* globals written under a mutex and read without it;
* buffer lengths computed by hand, at sixteen places, for builds with ints of 32 and 64 bits.

The full list, line by line, is `PROJECT.json`, "hazards".

What makes each part correct: no replay within the window, distinct answers, and an open
client that some server goroutine answered (handshake); mode and mask in step, a pool
never empty, fresh masks (mixer); both ends on the same mask and no garbled packet
(tunnel); flags that tell the truth at rest and a `Stop` that returns (client); a registry
in step with the goroutines and a `Stop` that drains (server); `Unwrap` undoes `Wrap` and
no index leaves its buffer (masks); one reader, no device left open, no call through nil
(bindings); every datagram in one place, with its own bytes, and taken out again (raw
UDP); verified accounts that stay verified, no session row left behind for a refresh token that
was spent (two concurrent `Refresh`es of one token may both succeed), a subscription
status that follows the events (accounts).

## 2. Modules

```
Rendezvous <-- INSTANCE -- Handshake <--- Handshake_proofs
MaskMixerOps <--- MaskMixer <--- MCMaskMixer
             |              <--- Masks_proofs
             <--- Tunnel    <--- MCTunnel
                            <--- Tunnel_proofs
Accounts        <--- MCAccounts
                <--- Accounts_proofs
Lifecycle  <-- INSTANCE -- ClientLifecycle <--- ClientLifecycle_proofs
VpnExports <------------------------------------- VpnExports_proofs -- INSTANCE --> Lifecycle
Server          <--- Server_proofs
UdpInbound      <--- UdpInbound_proofs
Masks           <--- Masks_proofs
```

**Handshake.** Client attempts and server handlers around one `HandshakeState`. The
handler's steps are its read and its lock acquisitions: `HandlerRead`, `HandlerCheck`
(`IsReplay`), `HandlerMark` (`MarkSeen` with its purge), `HandlerNextSequence` and
`HandlerSendAck`. A client attempt begins with the `ResetReplayState` that `Client.Start`
calls on the client's own state. `Encode` is modelled where it matters: a
packet whose `CurrentMode` is 0 carries no tail, so its sequence, timestamp and checksum
decode as 0 (`NoTail`, `SumZero`, `FirstZero`, `SynSequence`). The network keeps every
datagram for ever: it can be read never, late or repeatedly. The signature is
taken as unforgeable and both ends as holding the same key.

**Rendezvous.** What the two halves of the handshake promise together, without messages,
clocks and replay state: sessions only for attempts that were made, an open client only
with a session for its attempt, and decisions that are final. `Handshake` implements it
with the mapping `asked` = attempts that have left "idle", `session` = the attempt of a
handler that is done, `open` and `gaveUp` = attempts in "ok" and "failed". It promises
nothing about how many sessions an attempt opens, because the code does not keep such a
promise (section 4).

**MaskMixerOps, MaskMixer.** The mixer as a record and each method as an operator from
record to record; `MaskMixer` calls them in any order. `born`, `visited` and `rotations`
are history variables. Statistics are left out.

**Tunnel.** The client's own mixer, the two mixers of each end's session, and the
datagrams in flight, built from the same operators. A datagram is named by the mask that
wrapped it (or as a stale copy of a handshake packet). A mask is abstracted to what its
`Unwrap` does to foreign bytes and what its first `Wrap` returns: it cuts a fixed header
off anything (`Loose`), checks what it gets, returns a simulated handshake instead of the
payload (`Decoy`), or panics (`Fatal`). Both `SyncModes` calls are steps of their own, so
`tunLoop` may send in between. `Wrap` asks `SelectMask`: a payload that begins like a TLS
record (kind `tls`) goes out in the Browser mask, whatever the session's mode and pool. The
client sends such a payload only below 20 bytes, because from there on it wants an IP
packet; `SendToSession` and `Broadcast` take any bytes. It arrives in at least 19 bytes
(`ShortestTls`), which is less than some of the fixed headers: a peer that reads with such
a mask rejects it and searches its pool. `stray` records who has sent one. `Spec` has a
clock. `Untimed` is the same without its steps; nothing on a tunnel calls
`GetCurrentMask`, which alone compares times.

**ClientLifecycle.** `Start` and `Stop` hold `Client.mu` from end to end; everything else
that takes it is one step that needs it to be free. `reader`, `abandoned` and `bufOwn`
are the goroutines `readLoop` starts for each `Read` and whose packet the shared buffer
holds. `expired` is the read deadline the handshake left on the connection. `Start` only logs
an error of `setupRouting`, so it ends connected with or without `routes`.

**Lifecycle.** What `Start` and `Stop` promise, those of the client and those of the app
bindings: down, rising, linked (the connection stands), up, falling; one call at a time; a
reader that begins only when the connection stands, may end by itself and has ended when a
stop returns. `ClientLifecycle` and, as `VpnExports_proofs` shows, `VpnExports` implement it, each
with a mapping that reads the stage off the lock, the flags and the connection (`Stage`). They differ in `Once`:
`stopOnce` makes the client's first `Stop` the only one, so that a client which comes up again
stays up, while the bindings make a new client for every `StartVPN` and may stop any number
of times. On Android the readers belong to `SetTunFileDescriptor` and not to `StartVPN`, and are not
part of the mapping.

**Server.** One goroutine per connection, `tunLoop`, `cleanupLoop`, `Stop`, and calls of
`SendToSession`, on TCP, KCP or raw UDP. `UDPConn.Read` holds the connection's lock while
it waits; `Write` and `Close` need it. The two places that keep `Server.mu` over such a wait are
several steps long. On TCP `handleDataExchange` reads with `readFrame`, which expects a
length: the read returns a frame (`Receive`, `ReceiveFin`) or fails on four bytes that are
no length (`FrameTooLarge`). No client of this repository sends lengths (`writeFrame` is never
called), so a frame comes only from a peer that frames. The write deadline that
`PerformServerHandshake` leaves on the connection
is why a `Write` under `Server.mu` ends on TCP.

**UdpInbound.** Raw UDP between the socket and the reader of a `UDPConn`. A datagram is
the number of its arrival; `where` says whether its slice is in a `handlePacket`
goroutine (`lookup`, `store`, `send`), a `readChan`, a `UDPConn` (`held`), read, or
dropped because the channel was full. `buf` is the datagram whose bytes the shared buffer
holds, so a slice read while `buf` is another one is `garbled`. Each use of `udpMu` is a
step; `Stop` is three (closing `stopChan`, the socket, the channels). A send on a closed
channel sets `panicked` and stops everything.

**Accounts.** The handlers of `internal/api/auth.go` and the webhooks, as goroutines of
which each database statement is one step, for one e-mail address. `row` is the address's
row in `users`. `DB.Save` is what gorm makes of it: an `UPDATE` of every column by
identifier and, if that meets no row, an `INSERT` (`Savable`, `Written`); so a request that
read a row before it was deleted brings it back. Deleting a user with subscriptions is
refused by the foreign key; with sessions it is refused or cascades (the tags of `User`
and `Session` differ, and the model allows both). A refresh token is user and second.
`Abandon` ends a handler between two statements: an error of the database, or the exit of
the process. A mail that is reported as failed may have arrived. Codes are taken as
distinct. `stale`, `muddled`, `issued`, `reissued`, `spent`, `undeleted`, `accepted`,
`wanted` and `paid` are history.

**Masks.** A packet is a record of lengths (header, body, tail, what the length field
says, the highest index written), and what `Unwrap` returns is a slice. Stateful masks
keep their handshake step and stream ID. The uint16 of length fields wraps. A 32-bit length
is converted to `int`, which is negative from 2^31 on in the 32-bit build
(`client-android-7` of the Makefile, `GOARCH=arm`) and not in the others: `Half` is where
ints turn negative, and `AsInt` what a sum comes to. The header lines of a DNS-over-HTTPS
request count as one length, `TextLen`.

**VpnExports.** The mutex holder is a program counter `op`; every unprotected read or
write of a global is one step. A call through nil sets `crashed`. On Android a device is
what it was last given with `SetFD` (`fd`); a descriptor that a later call replaced while
it was open goes to `replaced`, since `SetFD` closes nothing. (`os.File` has a finalizer that
may close it when the garbage collector comes by; nothing relies on it and it is not
modelled.) `Client.Stop` returns (`StopDisconnect`) or never does (`StopHang`), in which
case `StopVPN` keeps `clientMutex` for ever and every `IsConnected` and `Send` waits for
`Client.mu`; when it hangs is the business of `ClientLifecycle`.

## 3. Runs

| Run | Instance | Shows |
|---|---|---|
| `handshake` | 2 attempts (one without a tail), 3 handlers, clock 0..2, window 1 | `ReplayCheckSound`, `AckSequencesDistinct`, `ConnectedIsBacked`, `HandshakeEnds`, `ImplementsRendezvous` |
| `syn_opens_one_session` | 1 attempt, 2 handlers | **violated**: one SYN opens two sessions |
| `mask_mixer` | 3 modes and one without a mask of its own, pools with a repetition and an empty one, clock 0..3 | `MaskMatchesMode`, `RotationCoversPool`, `HandedMaskFresh`; `TypeOK` |
| `tunnel` | one mask of each behaviour, fixed headers on both sides of 19 bytes, two client pools, 1 datagram in flight per direction, no clock | `TunnelAgrees`, `CleanDelivery`, `CrashNeedsMove`, `OnlyConfiguredModes` |
| `timer_rotation` | two modes, interval 1, clock 0..3 | **violated**: masks never rotate by time |
| `client_lifecycle` | 2 callers, 3 packets, 2 abandoned reads | `RestConsistent`, `ReadLossBounded`, `StopEnds`, `RestartIsDeaf`, `TunnelListens`, `ImplementsLifecycle` |
| `server` | 2 connections, all three transports | `RegistryConsistent`, `SessionsLast`, `StopDrains`, `LockReleased`, `GoneAreCollected` |
| `syn_answered` | 1 connection | **violated**: a SYN may be echoed instead of answered |
| `masks` | the lengths around every boundary in the code (0, 5, 20, 1400, 64 KiB − 9), claimed lengths around `Half` | `RoundTrip`, `SwallowsNine`, `PanicsKnown` |
| `vpn_exports` | 2 clients, 2 devices, 2 readers, Windows and Android | `AtRest`, `ReadersAwaited`, `DevicesOwned`, `CrashNeedsTeardown`, `StopReturns` |
| `udp_inbound` | 3 datagrams of 2 addresses, channels of capacity 1 | `Accounted`, `PacedIntact`, `PanicNeedsStop`, `QueueDrains` |
| `accounts` | 2 requests at a time, 5 that write, 2 passwords, 2 subscriptions, clock 0..1; symmetric in requests, passwords and subscriptions | `VerifiedKept`, `SpentTokensGone`, `UnracedIsSerial`, `StatusFollowsEvents` |

Why the bounds are enough to meet the interesting cases:

* *Handshake*: two handlers are needed to race on one SYN; the third marks another
  sequence in between and so runs the purge. The clock passes the window and the purge
  age once. Without a tail two attempts share sequence 0, which attempt 2 exercises.
* *MaskMixer*: three rotations go once round the largest pool; clock 3 leaves room for a
  switch, a change of interval and an expiry.
* *Tunnel*: reordering between directions, and loss and duplication within one, already happen with one
  datagram in flight, as a datagram is identified by its mask and not by its content.
  `tunnel` runs without the clock, which no action of `Next` reads but to store it, and the
  theorems are about `Spec`, with it; `timer_rotation` has one.
* *ClientLifecycle*: two abandoned readers can overwrite the buffer of a third; two
  callers give every overlap of two calls. A client starts with success at most twice
  (`stopOnce` runs once), so `MaxGivenUp` bounds abandoned readers.
* *Server*: one connection per role (one vanished or idle, one alive) is what the lock
  cycle needs; more connections only lengthen the rounds.
* *VpnExports*: the second client and the second device are what a reader of the first
  session can be confused with; a descriptor is numbered by the reader that
  `SetTunFileDescriptor` starts with it, so two readers allow one to be replaced.
* *Masks*: TLC's integers have 32 bits, so the int of the instance turns negative at
  `Half` = 2^20 instead of 2^31 or 2^63. The lengths in `Says` lie on both sides of the points where
  a sum with a header or a padding passes `Half` and 2 `Half`, and the theorem is about any `Half`
  from a million on.
* *UdpInbound*: two datagrams of one address race on the wrapper while a third overwrites
  the buffer, fills the channel or belongs to the other address. Capacity 1 makes a full
  channel happen.
* *Accounts*: a race needs two requests at once; the longest scenarios (register, verify,
  refresh twice at once, log out; register, buy, renew and cancel at once) write five times.
  Requests that are answered in their first step are not counted, so there may be any
  number of them. The second of the clock is what makes tokens differ or coincide.

`CHECK_DEADLOCK FALSE` stands where the system really stops: when all attempts, calls or
connections are used up, the clock is at its bound or the process has crashed. `MaskMixer`
never stops and is checked for deadlock.

### Fairness

* `Handshake`: weak fairness of each handler's steps (a goroutine that never blocks
  between them), of the client's timeout (a deadline on the socket) and of the clock.
  No fairness of reading a datagram: the network promises nothing.
* `Tunnel` (`timer_rotation`): sending, `SyncModes` and the clock go on. This is more than
  the code promises, and rotation still does not happen.
* `ClientLifecycle`: weak fairness of the steps of `Start`, `Stop` and the loops; strong
  fairness of steps that take `Client.mu`, as Go's `sync.Mutex` hands the lock to a waiter that has
  starved for 1 ms. Arrival of packets is not fair.
* `Server`: the same, with strong fairness for steps that take `Server.mu` or a
  connection's lock; the tickers of `cleanupLoop` and the passing of ten idle minutes are
  weakly fair. A client may vanish at any time; one that is there is heard of again and
  again, as `readLoop` sends keep-alives.
* `UdpInbound`: the `handlePacket` goroutines and `acceptUDP`, which polls every 10 ms, go
  on. No client sends, no connection reads and nobody calls `Stop` out of fairness.
* `Accounts`: none; its properties are about what must not happen.
* `VpnExports`: the holder of the mutex and the readers go on, unless `Client.Stop` hangs; apps
  need not call anything.

## 4. Findings

* **One SYN, two sessions** (`SynOpensOneSession`). README.md:51 promises a strict check of nonce and
  timestamps against replays. `PerformServerHandshake` looks at neither; it calls
  `IsReplay` and, later, `MarkSeen`, each under its own lock. The client writes its SYN
  three times; two goroutines that read two copies both pass. What does hold, and is proved, is that
  nobody passes `IsReplay` with a sequence already *marked* within the window.
* **No rotation by time** (`TimerRotates`). README.md:64 and docs/architecture.md:15 speak of a timer. The
  interval is looked at by `GetCurrentMask` alone, which neither `Wrap` nor `Unwrap` calls.
* **A SYN may be echoed** (`SynAnswered`). README.md:57 shows the answer to a SYN. On TCP and KCP
  `Inbound.Start` runs an accept loop beside the server's own; a connection it wins is
  handed to an echo handler.

Seen on the way, and stated as exceptions in properties that hold:

* `Stop` of a client can hang: it waits under `Client.mu` for `readLoop`, which may be
  waiting for `Client.mu` (`StopEnds`). A client started again after a stop has no
  `readLoop` (`RestartIsDeaf`).
* The read deadline that `PerformClientHandshake` sets is never cleared, so on UDP and TCP
  all reads of the tunnel time out once it has passed; KCP sessions listen on
  (`TunnelListens`).
* A TCP session ends at its first `readFrame` although docs/architecture.md:24 promises
  "Dual-mode (TCP + UDP)" and `configs/server.tcp.json` configures it: the server takes the next
  four bytes of the stream for the length of a frame, and the client writes no lengths. The
  first four bytes of the second copy of the SYN exceed `maxFrameSize`, and the session is
  given up although both ends are there. `SessionsLast` excepts TCP.
* A TLS-looking payload is sent in the Browser mask and read with whatever mask the peer has;
  one that is shorter than the peer's fixed header makes the peer search its pool and read the
  packets after it with another mask (`Steady` in `TunnelAgrees` and `CleanDelivery`). It goes
  out in `ModeBrowser` even if that mode is not configured (`OnlyConfiguredModes`).
* A client may be connected without routes, always on a system that `setupRouting` does not
  know (`RestConsistent`).
* On raw UDP a datagram that arrives while an earlier one is still a slice replaces its
  bytes (`PacedIntact`); two first datagrams of an address may leave one of them in a
  wrapper that nobody looks at (`QueueDrains`); `Stop` may make a `handlePacket` goroutine
  panic (`PanicNeedsStop`); a packet of an open tunnel may be taken by `acceptUDP`, which
  makes a second connection of it (`Accounted` says that at least nobody gets it twice).
* A `Register` that read an unverified account unverifies, or after a mail error deletes,
  the account that was verified meanwhile (`VerifiedKept`). An `UpdateName` undoes an
  overlapping `UpdatePassword` and brings a deleted account back (`stale` in
  `UnracedIsSerial`). Two logins within a second get the same refresh token, and one
  `Refresh` leaves the other's session usable with it (`SpentTokensGone`, which is about the
  rows that are left: that of two concurrent `Refresh`es of one token only one succeeds is not
  so and not claimed). A repeated
  `payment.success` can hide a cancellation (`StatusFollowsEvents`).
* On raw UDP a vanished client freezes the server: `Read` keeps the connection's lock,
  `Close` and `Write` wait for it, the latter with `Server.mu` held (`Frozen`).
* STUN and QUIC masks panic at their first `Wrap`, WebRTC at its third;
  `TestQUICMasking` of `test/integration/dpi_test.go:32` expects a packet. In the 32-bit build
  `Unwrap` of RuTube, Teams, WinUpdate and QUIC panics on a length of 2^31 or more
  (`PanicsKnown`). A TLS mask swallows its first payloads (`SwallowsNine`).
* On Windows a TUN reader that looks for `stopChan` after `StopVPN` has set it to nil may
  call through a nil device; on Android such a reader is never told to end
  (`CrashNeedsTeardown`, `ReadersAwaited`). A second `SetTunFileDescriptor` leaves the first
  descriptor open, and one that overlaps `StopVPN` or a failing `StartVPN` can leak its own
  (`DevicesOwned`). `StopVPN` hangs when `Client.Stop` does (`StopReturns`).

`PacedIntact`, `UnracedIsSerial` and `StatusFollowsEvents` exclude the races that damage their
data; they show that nothing else does, and would not notice a change of what happens in
such a race.

## 5. Proofs

Every component has a module `<component>_proofs`, which `tlapm` checks from nothing; the
mixer shares `Masks_proofs` with the masks it chooses from. Each theorem below is about every value of the constants that satisfies the
module's `ASSUME`; the bounds of the runs (`MaxRequests`, `MaxDatagrams`, `MaxFlight`, ...)
are arbitrary naturals there. Each inductive invariant was first checked by TLC on the
instance of the component's run.

**Handshake** — any sets of attempts and handlers, any times with
`ReplayWindow <= PurgeAge` (30 s and 60 s in the code; `TimesAssumption`), and attempts
that are positive numbers (`AttemptsAssumption`; 0 is what a missing tail decodes to).
The inductive invariant `IInv` is

* `TypeOK`;
* `RecentKept`: a sequence marked within `PurgeAge` is in `lastSeen` with the time of its last
  marking. This is what makes the purge harmless, and with it `ReplaySoundness` is one
  step: `IsReplay` looks at the map, `ReplayCheckSound` at what was really marked;
* `HandlerHoldsSyn`: a handler past its read holds an attempt, past `MarkSeen` a marked one;
* `AckSequenceBound`: answers come from `1..sequence`, which makes the next one new, and
  hence `AckSequencesDistinct` inductive;
* `AckBacked`: every ACK in the network was written by a handler that is done. Without it
  nothing links a client that reads an ACK to a handler, and `ConnectedIsBacked` is not
  inductive.

Theorems: `Invariant`, `TypeCorrect`, `DistinctAnswers`, `ConnectionBacked`,
`ReplaySoundness`, and `Refinement`: `Spec => ImplementsRendezvous`. The initial state maps
to the abstract one (`RefineInit`); every step maps to an abstract step or to none
(`RefineStep`), for which `IInv` supplies the session behind an accepted ACK, and
`SynsAsked` (every SYN in the network belongs to an attempt that was made) the
attempt behind a session.

**MaskMixer** — any modes, pools, intervals and sequence of calls, given
that the day and night pools are not empty and that VK has a mask (`ModesAssumption`,
`CallsAssumption`). `MixerInv` is `TypeOK`, `MaskMatchesMode` and `SwitchNotAfterMask`. The last is
the strengthening for `MaskFreshness`: masks change without restarting the interval, so
the age of a mask is bounded only because the interval never starts after the mask was
made. `rotate` searches the first position of the current mode; that such a position
exists is `LeastNatural`, from the well-foundedness of `<`. Lemmas give each operator's type and
effect on mode and mask. `RotationCovers` rests on `RunInv`: in a run of `ForceRotate` calls
the mixer is at a position of the pool, and the positions behind it, going round
(`Back`), have been visited as far back as the run is long. One rotation moves every
other position back by one, so no induction over the pool is needed. Theorems:
`MixerInvariant`, `MixerTypeCorrect`, `MaskAgreement`, `MaskFreshness`, `RotationCovers`.

**Masks** — payloads of any length up to 65535, any bytes at their beginning, any certificate
that fits a record, foreign datagrams of any size that claim any length and padding, and an int of any
width that holds a million (`LengthsAssumption`). One lemma per format says what `Unwrap` makes of a packet: `FixedCut`
for the masks with a fixed header, `SizedCut`, `BrowserCut`, `DoHCut`, `STUNCut`, `TLSCut`,
`WebRTCCut` and `QUICCut`. Together they give `StatelessOwn`, the round trip of every
stateless mask, and `ForeignCut`, which calls of `Unwrap` leave a buffer that
another mask filled. What `Wrap` does with a stateful mask depends on how often it was called, so
`MaskerInv` adds

* `WebRTCSteps`: the third packet of a WebRTC mask is its last, because it panics;
* `TLSProgress`: how many payloads a TLS mask has swallowed follows from its handshake step,
  its preface and its stream ID modulo 4. `SwallowsNine` only bounds the number; that
  the IDs 3 and 0 alternate for ever after is what makes nine the bound.

Where ints turn negative enters `SizedCut`, `BrowserCut` and `QUICCut`: below `Half` a cut
lies inside the datagram, above it `PanicsKnown` lists the mask. `FixedCut` also backs what `Tunnel` assumes of a `Loose` mask, and the panics of STUN and
QUIC what it assumes of a `Fatal` one. Theorems: `MaskerInvariant`, `PayloadsReturn`,
`NineSwallowed`, `PanicsListed`.

**Tunnel** — any modes, pools, classes of masks and header lengths with `MasksAssumption`:
pools are not empty, and neither the Browser mask, which is none of those that cut a fixed
header off anything, nor one of these panics or starts with a simulated handshake. `TunnelAgrees` speaks of a tunnel that is open at
both ends; to be inductive it has to hold at each end alone from its `SyncModes` on
(`Aligned`), which needs

* `Told`: unmoved ends have the pool of the SYN, and `SamePool`: every mixer has the pool
  of its end's configuration, so that `SyncModes` goes back to the same head on both ends;
* `Flight`: an unmoved tunnel carries only handshake copies, packets in the head's mask and
  TLS-looking payloads, in the Browser mask, from ends that have sent some. A mask that cuts
  a fixed header parses the first two, and the third if its header is short enough
  (`ReadsLead`), so `Unwrap` does not search, the receiving mixers stay and nothing but
  copies and TLS-looking payloads is garbled;
* `Phases`: nothing has been sent, read or crashed before the SYN, which is when the head
  may still change.

Theorems: `Invariant`, `Agreement`, `NothingGarbled`, `CrashesOnlyAfterMove`,
`ConfiguredModes`.

**ClientLifecycle** — any number of callers, packets and timeouts. `RestConsistent` is about
moments when `Client.mu` is free; `LockOwned` says who holds it, and `Phases` what the flags
are at each point of `Start` and `Stop`. `ReadLossBounded` needs `LoopInv`: a reader exists
exactly while `readLoop` waits for one, a copy of its data exactly until it has been
counted. `Refinement` shows that the client implements `Lifecycle`: the calls are its
moves (`RefineCall`), where `Phases` says that a client which is down has neither an open
connection nor a `readLoop`, and every other step leaves the client where it is or ends
`readLoop` (`RefineRest`). Theorems: `Invariant`, `Rest`, `LossBounded`, `Refinement`.

**Server** — any set of connections (`None` is not one). The handlers keep the
registry in order by themselves. `tunLoop` and `cleanupLoop` go through copies of it over
several steps; that the copies stay parts of it is due to `Server.mu`, so `LockOwned` says at
which step which loop holds it. `SessionsLast` is inductive once the transport is one of the three:
what closes a connection or the server is never taken back. Theorems: `Invariant`, `Registry`,
`Lasting`, and `Exclusion`, the action
property `RoundsUndisturbed`: nobody else changes the registry during such a round.

**UdpInbound** — any addresses, datagrams and channel capacity, zero included. `Accounted`
is not inductive as it says nothing of datagrams between the map and the channel. `Wrapped`
and `Stored` add that every goroutine past the map, and every entry of the map, has a
wrapper that a goroutine of the same address made; `Queues`, `InQueue` and `Made` tie
channels, places and connections together. `Paced` is `PacedIntact` with what makes it so: without
an overlap the one outstanding slice is the one in the buffer. `Closed` says that closed
channels have left the map, so that only who found one earlier sends to it. The lemmas about
`Append` and `Tail` of a sequence without repetitions are proved from their definitions.
Theorems: `Invariant`, `OnePlace`, `Intact`, `PanicsOnlyAtStop`.

**VpnExports** — any number of starts, devices and readers. `Phase` gives, for each step of
`StartVPN` and `StopVPN`, the value of the globals they own. `WindowsReader`: a living reader
is the one in `done`, with a device unless it is being awaited. `Owned`: without an
overlap nothing is open but what the global device reads from and what was replaced. `Guarded`: before the first teardown what was
looked at without the mutex is still there when it is used. `Refinement` shows that the
bindings implement `Lifecycle` (stated and proved in `VpnExports_proofs`, not part of the run); the step that needs most is the last one of `StopVPN`, at
which `WindowsReader` says that no reader is left. Theorems: `Invariant`, `Rest`,
`OneReader`, `NoDeviceLeaks`, `CrashesOnlyAfterTeardown`, `Refinement`.

**Accounts** — any number of goroutines, requests, passwords and subscriptions. What a
goroutine keeps is a record whose shape follows from its label (`States`, `Shape`). Three
invariants, over `TypeOK`, that do not need each other:

* `TokensInv`: two sessions with one token mean that it was issued twice, also if a
  `Refresh` has read one of them, and a `Refresh` that has deleted its session left no other
  with its token. `SpentTokensGone` alone does not survive the last step of `Refresh`.
* `AddressInv`: what each handler is about to write, compared with what it read
  (`Prepared`), and, until somebody writes over a change, that no code is in two of the
  accepted codes, the row and the registrations still to be written (`SerialInv`).
  It gives `Serial` and, step by step, the action property `KeepsVerified`.
* `HooksInv`: until an event is lost, repeated or handled during another, one webhook at most is
  under way, every subscription has one row, and rows differ from the last event only where
  that webhook is about to write.

Theorems: `SpentTokens`, `Serial`, `KeepsVerified`, `StatusShown`.

Only model-checked are the liveness properties, which are outside the prover's reach:
`HandshakeEnds`, `StopEnds`, `RestartIsDeaf`, `TunnelListens`, `StopDrains`, `LockReleased`,
`GoneAreCollected`, `StopReturns`, `QueueDrains`. Neither checked
nor proved is that the classes of masks in `Tunnel` are what the lengths in `Masks` come to:
the two modules have different state, and the correspondence was read off the lemmas above.

## 6. Mutants

Beside the definitions, each module has operators that are plausible mistakes in the
modelled code (a purge that forgets too much, a missing reset, a length off by one). Each
property is violated when the matching one takes the definition's place
(`PROJECT.json`, "mutants").

## 7. Plan

Every invariant, every action property and every refinement that a run checks is also a
theorem. Worth adding when the code changes:

1. a model of the frame pipeline and of the double ratchet, once client or server
   constructs them;
2. `Client.reconnect` as an action of `ClientLifecycle`, once somebody calls it. `Lifecycle`
   would need a move from "up" back to "rising".

## 8. Not modelled

* Cryptography (`internal/crypto`): primitives, with no protocol state on the tunnel's
  path. `ReplayProtection` and `Session.CheckReplay` are never called there.
* Frame pipeline (`internal/engine/mixer.go`, `shredder.go`, `scheduler.go`,
  `internal/shred/engine.go`, `fragmentor.go`, `frame.go`, `shaper.go`), and in
  `internal/crypto` the double ratchet, the hybrid exchange and the padding engine: neither
  client nor server constructs them, so the program has no behaviour of theirs.
* Routes and TUN commands: shell commands; the flag `routes` and the device's `Read`,
  `Close` and `SetFD` stand for them.
* `Client.reconnect` (never called), server-name parsing (any domain may be found),
  statistics, logging, e-mail, metrics, configuration, `main` functions.
* In accounts and payments: name, trial period and expiry of a subscription, which are
  written and shown but never looked at; `Me` and `CreateInvoice`, which change nothing.
