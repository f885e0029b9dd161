------------------------------- MODULE Masks -------------------------------
(***************************************************************************)
(* The masks (internal/masks): what Wrap makes of a payload and what       *)
(* Unwrap cuts out of a datagram.  A packet is described by lengths: the   *)
(* bytes before, in and after the payload, what its length field says and  *)
(* the highest index that Wrap writes to, which makes it panic when it     *)
(* lies outside the buffer.  What Unwrap returns is a slice, a pair of     *)
(* positions.                                                              *)
(*                                                                         *)
(* One Masker is driven by calls of Wrap, each packet being unwrapped by a *)
(* Masker of the same kind, and by datagrams that some other mask wrapped. *)
(***************************************************************************)
EXTENDS Integers

CONSTANTS
    Lengths,     \* payload lengths
    Bytes,       \* values of the random byte that Wrap draws
    CertLen,     \* length of the certificate of a TLSMask
    TextLen,     \* length of the header lines of a DNS-over-HTTPS request
    Half,        \* an int is less: 2^31 in the arm build of the Makefile, else 2^63
    Sizes,       \* sizes of foreign datagrams
    Says,        \* what a foreign datagram has in the place of the length field
    Paddings     \* and in the place of RuTube's padding length

ASSUME LengthsAssumption ==
    /\ \A n \in Lengths : n \in Nat /\ n <= 65535
    /\ \A r \in Bytes : r \in Nat /\ r <= 255
    /\ CertLen \in Nat /\ CertLen <= 65526
    /\ TextLen \in Nat \ {0}
    /\ Half \in Nat /\ Half >= 1000000
    /\ Sizes \subseteq Nat
    /\ Says \subseteq Nat /\ \A says \in Says : says < 2 * Half
    /\ \A padding \in Paddings : padding \in Nat /\ padding <= 65535

Uint16(n) == n % 65536

\* The int that a sum of lengths is, one of which may use all bits of an int.
AsInt(n) == IF n < Half THEN n ELSE n - 2 * Half

-----------------------------------------------------------------------------
(* Slices and packets *)

Reject == [from |-> -1, to |-> -1]    \* Unwrap returns an error
Panic == [from |-> -2, to |-> -2]     \* an index is out of range

Slice(from, to, size) ==
    IF from <= to /\ to <= size THEN [from |-> from, to |-> to] ELSE Panic

Nothing(size) == Slice(size, size, size)    \* Unwrap returns no bytes and no error

\* A packet that carries the payload, and one that only looks like its protocol.
Data(head, n, tail) ==
    [head |-> head, body |-> n, tail |-> tail, says |-> n, writes |-> head + n + tail,
     kind |-> "data", carries |-> TRUE]

Decoy(size, says, writes, kind) ==
    [head |-> size, body |-> 0, tail |-> 0, says |-> says, writes |-> writes, kind |-> kind,
     carries |-> FALSE]

Size(p) == p.head + p.body + p.tail

-----------------------------------------------------------------------------
(* Masks with a header of fixed length, which Unwrap cuts off anything *)

VKHeader == 16
OzonHeader == 24
WildberriesHeader == 20
SberIDHeader == 32
GosuslugiHeader == 32
YandexHeader == 8 + 2 + 4 + 8 + 16
ZoomHeader == 18 + 4

FixedHeader ==
    [vk |-> VKHeader, ozon |-> OzonHeader, wildberries |-> WildberriesHeader,
     sberid |-> SberIDHeader, gosuslugi |-> GosuslugiHeader, yandex |-> YandexHeader,
     zoom |-> ZoomHeader]

Fixed == DOMAIN FixedHeader

FixedUnwrap(header, size) == IF size < header THEN Reject ELSE Slice(header, size, size)

-----------------------------------------------------------------------------
(* Masks that say how long the payload is *)

\* Mutant of RuTubeWrap: the length includes the padding.
RuTubeWrapPadded(n, r) == [Data(24, n, r % 32) EXCEPT !.says = n + (r % 32)]

RuTubeWrap(n, r) == Data(24, n, r % 32)
TeamsWrap(n, r) == Data(28, n, IF n < 1400 THEN r % 64 ELSE 0)
WinUpdateWrap(n) == Data(18, n, 0)

\* A payload that starts like a TLS record is not padded.
BrowserWrap(n, r, tlsPayload) ==
    [Data(14, n, IF (tlsPayload /\ n >= 5) \/ n >= 1400 THEN 0 ELSE r % 32)
        EXCEPT !.says = Uint16(n)]

\* Mutant of SizedUnwrap: the bytes that are there are not counted.
SizedUnwrapUnchecked(header, says, padding, size) ==
    IF size < header THEN Reject ELSE Slice(header, AsInt(header + says), size)

\* The length of the padding is in the packet on RuTube only.
SizedUnwrap(header, says, padding, size) ==
    IF size < header \/ size < AsInt(header + says + padding) THEN Reject
    ELSE Slice(header, AsInt(header + says), size)

\* The CRC is that of the slice, which is cut first; "plain": it is not the one in the
\* header.
WinUpdateUnwrap(look, says, size) ==
    LET cut == SizedUnwrap(18, says, 0, size)
    IN  IF look = "plain" /\ cut # Panic THEN Reject ELSE cut

\* tlsStart: the datagram starts with the bytes of a TLS record.
BrowserUnwrap(says, tlsStart, size) ==
    IF size < 14 THEN Reject
    ELSE IF tlsStart THEN Slice(0, size, size)
    ELSE SizedUnwrap(14, says, 0, size)

\* The header lines end with an empty one, a DNS header of 12 bytes follows.
DoHWrap(n) == Data(TextLen + 12, n, 0)

\* blank: the position after the first empty line, 0 if there is none.
DoHUnwrap(blank, size) ==
    IF blank = 0 \/ size < blank + 12 THEN Reject ELSE Slice(blank + 12, size, size)

\* The fingerprint takes 8 bytes, the buffer has 4 for it.
STUNWrap(n) == [Data(20, n, 4) EXCEPT !.says = Uint16(n), !.writes = 20 + n + 8]

\* marked: where the message ends there are 8 bytes more that look like a fingerprint.
STUNUnwrap(says, marked, size) ==
    LET n == IF marked /\ size >= 20 + says + 8 THEN says - 8 ELSE says
    IN  IF size < 20 \/ size < 20 + n THEN Reject ELSE Slice(20, 20 + n, size)

-----------------------------------------------------------------------------
(* WebRTC: ten packets of a simulated handshake, then RTP *)

\* The RTP header with an extension of ext bytes (marshalHeader).
RTPHeader(ext) == 12 + ext

\* The DTLS record: 77 bytes, of which bytes 14 to 78 are filled.
WebRTCDecoy(nth, r) ==
    CASE nth = 1      -> Decoy(20, 0, 20, "stun")
      [] nth = 2      -> Decoy(28, 8, 28, "stun")
      [] nth \in 3..5 -> Decoy(77, 0, 78, "dtls")
      [] nth = 6      -> Decoy(24, 0, 24, "ice")
      [] nth \in 7..8 -> Decoy(80, 0, 80, "srtp")
      [] OTHER        ->
           LET size == RTPHeader(IF r % 2 = 1 THEN 4 + (r % 16) ELSE 0) + 10 + (r % 50)
           IN  Decoy(size, 0, size, IF r % 2 = 1 THEN "rtpext" ELSE "rtp")

WebRTCWrap(n, r) ==
    IF r % 2 = 1 THEN [Data(RTPHeader(4 + (r % 32)), n, 0) EXCEPT !.kind = "rtpext"]
    ELSE [Data(RTPHeader(0), n, 0) EXCEPT !.kind = "rtp"]

\* The extension's profile, 0xBEDE, is taken for its length.  A first byte of 0x14
\* ("srtp") is cut at 80 from 35 bytes on.
WebRTCUnwrap(kind, says, size) ==
    IF size < 12 THEN Reject
    ELSE CASE kind = "rtp" -> Slice(12, size, size)
           [] kind = "rtpext" ->
                (IF size < 14 \/ size < 16 + says THEN Reject ELSE Slice(16 + says, size, size))
           [] kind = "stun" /\ size >= 20 /\ size >= 20 + says -> Slice(20 + says, size, size)
           [] kind = "dtls" /\ size >= 77 -> Slice(77, size, size)
           [] kind = "ice" /\ size > 24 -> Slice(24, size, size)
           [] kind = "srtp" /\ size > 34 -> Slice(80, size, size)
           [] OTHER -> Slice(12, size, size)

-----------------------------------------------------------------------------
(* TLS: six packets of a simulated handshake, an HTTP/2 preface, then frames *)

TLSDecoy(nth) ==
    CASE nth = 1 -> Decoy(90 + 14, 195, 200, "record")
      [] nth = 2 -> Decoy(79, 58, 79, "record")
      [] nth = 3 -> Decoy(15 + CertLen, Uint16(9 + CertLen), 15 + CertLen, "record")
      [] nth = 4 -> Decoy(141, 140, 141, "record")
      [] nth = 5 -> Decoy(45, 40, 45, "record")
      [] OTHER   -> Decoy(6, 1, 6, "record")

\* The ClientHello is built in 200 bytes and sent in part.
TLSBuffer(nth) == IF nth = 1 THEN 200 ELSE Size(TLSDecoy(nth))

HTTP2Frame(n) == 9 + n
HTTP2Preface == 24

\* A record around something that carries nothing (wrapInTLSRecord).
EmptyRecord(size) == Decoy(5 + size, Uint16(size), 5 + size, "record")

\* id is http2StreamID modulo 4: headers; window update and ping; data.  Instead of
\* an empty payload 100 random bytes are sent.
TLSWrap(n, first, id) ==
    CASE first  -> EmptyRecord(HTTP2Preface + HTTP2Frame(12))
      [] ~first /\ id = 1 -> EmptyRecord(HTTP2Frame(24))
      [] ~first /\ id = 2 -> EmptyRecord(HTTP2Frame(4) + HTTP2Frame(8))
      [] OTHER  ->
           LET body == IF n = 0 THEN 100 ELSE n
           IN  [Data(5 + HTTP2Frame(0), body, 0) EXCEPT !.says = Uint16(HTTP2Frame(body)),
                                                        !.kind = "record"]

\* The packets of the handshake.
TLSSteps == 6

\* Mutant of TLSStream: the end of a stream skips one ID.
TLSStreamOdd(id) == IF id = 0 THEN (id + 2) % 4 ELSE (id + 1) % 4

\* 2^32 is a multiple of 4, so the counter may wrap around.
TLSStream(id) == IF id = 0 THEN (id + 3) % 4 ELSE (id + 1) % 4

TLSUnwrap(kind, says, size) ==
    IF size < 5 \/ kind # "record" \/ size < 5 + says \/ says = 0 THEN Reject
    ELSE Slice(5, 5 + says, size)

-----------------------------------------------------------------------------
(* QUIC: the first packet of its simulated handshake does not fit its buffer *)

\* 45 bytes; the sealed packet number alone takes bytes 23 to 47.
QUICInitial == Decoy(45, 0, 23 + 24, "long")

\* What a foreign datagram may look like to it: a packet of its own, with a length;
\* a retry; a handshake or 0-RTT packet with a frame that has a length, or without;
\* another long header; a short header.
QUICLong(kind, says, size) ==
    CASE kind = "quic" ->
           (IF size < AsInt(21 + says) THEN Nothing(size) ELSE Slice(21, AsInt(21 + says), size))
      [] kind = "retry" /\ size > 37 -> Slice(37, size, size)
      [] kind \in {"frame", "bare"} /\ size \in 26..36 -> Reject
      [] kind = "bare" /\ size > 36 -> Slice(37, size, size)
      [] kind = "frame" /\ size \in 38..39 -> Reject
      [] kind = "frame" /\ (size = 37 \/ size > 39) ->
           LET from == 40 + Uint16(says)
           IN  (IF from < size THEN Slice(from, size, size) ELSE Nothing(size))
      [] OTHER -> IF size > 49 THEN Slice(49, size, size) ELSE Slice(21, size, size)

QUICShort(numberLen, size) ==
    LET from == 13 + numberLen
    IN  IF size > from + 16 THEN Slice(from, size - 16, size) ELSE Slice(from, size, size)

QUICUnwrap(kind, says, size) ==
    IF kind = "short"
    THEN IF size <= 17 THEN Reject ELSE QUICShort(1 + (says % 4), size)
    ELSE IF size < 21 THEN Reject ELSE QUICLong(kind, says, size)

-----------------------------------------------------------------------------
Stateless == Fixed \cup {"rutube", "teams", "winupdate", "browser", "doh", "stun"}
MaskNames == Stateless \cup {"webrtc", "tls", "quic"}

VARIABLES
    mask,       \* which mask it is
    tlsID,      \* the random session ID of a BrowserMask starts like a TLS record
    step,       \* handshakeStep
    preface,    \* ~http2Initialized
    stream,     \* http2StreamID modulo 4
    swallowed,  \* payloads that were given to Wrap and are in no packet
    packet,     \* the last packet
    got,        \* what Unwrap made of it
    crashed     \* "no", "wrap", "unwrap": where a panic came from

maskVars == <<mask, tlsID>>
maskerVars == <<maskVars, step, preface, stream, swallowed, packet, got, crashed>>

\* A stateless mask wraps.
WrapOnce(n, r, tlsPayload) ==
    CASE mask \in Fixed      -> Data(FixedHeader[mask], n, 0)
      [] mask = "rutube"     -> RuTubeWrap(n, r)
      [] mask = "teams"      -> TeamsWrap(n, r)
      [] mask = "winupdate"  -> WinUpdateWrap(n)
      [] mask = "browser"    -> BrowserWrap(n, r, tlsPayload)
      [] mask = "doh"        -> DoHWrap(n)
      [] OTHER               -> STUNWrap(n)

\* And a mask of the same kind reads its packet.
UnwrapOwn(p) ==
    CASE mask \in Fixed     -> FixedUnwrap(FixedHeader[mask], Size(p))
      [] mask = "rutube"    -> SizedUnwrap(24, p.says, p.tail, Size(p))
      [] mask = "teams"     -> SizedUnwrap(28, p.says, 0, Size(p))
      [] mask = "winupdate" -> WinUpdateUnwrap(p.kind, p.says, Size(p))
      [] mask = "browser"   -> BrowserUnwrap(p.says, tlsID, Size(p))
      [] mask = "doh"       -> DoHUnwrap(p.head - 12, Size(p))
      [] mask = "stun"      -> STUNUnwrap(p.says, TRUE, Size(p))
      [] mask = "webrtc"    -> WebRTCUnwrap(p.kind, IF p.kind = "rtpext" THEN 48862 ELSE p.says,
                                            Size(p))
      [] mask = "tls"       -> TLSUnwrap(p.kind, p.says, Size(p))
      [] OTHER              -> QUICUnwrap("quic", p.says, Size(p))

Emit(p, buffer) ==
    /\ packet' = p
    /\ IF p.writes > buffer
       THEN crashed' = "wrap" /\ got' = Panic
       ELSE /\ got' = UnwrapOwn(p)
            /\ crashed' = IF got' = Panic THEN "unwrap" ELSE "no"
    /\ swallowed' = IF p.carries THEN swallowed ELSE swallowed + 1

WrapStateless(n, r, tlsPayload) ==
    /\ crashed = "no" /\ mask \in Stateless
    /\ LET p == WrapOnce(n, r, tlsPayload) IN Emit(p, Size(p))
    /\ UNCHANGED <<maskVars, step, preface, stream>>

WrapWebRTC(n, r) ==
    /\ crashed = "no" /\ mask = "webrtc"
    /\ IF step < 10
       THEN /\ step' = step + 1
            /\ LET p == WebRTCDecoy(step', r) IN Emit(p, Size(p))
       ELSE /\ LET p == WebRTCWrap(n, r) IN Emit(p, Size(p))
            /\ UNCHANGED step
    /\ UNCHANGED <<maskVars, preface, stream>>

WrapTLS(n) ==
    /\ crashed = "no" /\ mask = "tls"
    /\ IF step < TLSSteps
       THEN /\ step' = step + 1
            /\ Emit(TLSDecoy(step'), TLSBuffer(step'))
            /\ UNCHANGED <<preface, stream>>
       ELSE /\ LET p == TLSWrap(n, preface, stream) IN Emit(p, Size(p))
            /\ preface' = FALSE
            /\ stream' = IF preface THEN stream ELSE TLSStream(stream)
            /\ UNCHANGED step
    /\ UNCHANGED maskVars

WrapQUIC ==
    /\ crashed = "no" /\ mask = "quic"
    /\ step' = step + 1
    /\ Emit(QUICInitial, Size(QUICInitial))
    /\ UNCHANGED <<maskVars, preface, stream>>

\* What a datagram may look like to the mask.  "marked": the CRC of WinUpdate fits, it
\* starts like TLS (Browser), it has an empty line (DoH), a fingerprint follows (STUN).
Looks ==
    CASE mask \in {"winupdate", "browser", "doh", "stun"} -> {"marked", "plain"}
      [] mask = "webrtc" -> {"rtp", "rtpext", "stun", "dtls", "ice", "srtp", "plain"}
      [] mask = "tls"    -> {"record", "plain"}
      [] mask = "quic"   -> {"quic", "retry", "frame", "bare", "long", "short"}
      [] OTHER           -> {"plain"}

\* Unwrap of something that another mask, or no mask, made.  Where the length field is
\* one of 16 bits, it holds as many of what it says.
UnwrapOther(size, says, padding, look) ==
    CASE mask \in Fixed     -> FixedUnwrap(FixedHeader[mask], size)
      [] mask = "rutube"    -> SizedUnwrap(24, says, padding, size)
      [] mask = "teams"     -> SizedUnwrap(28, says, 0, size)
      [] mask = "winupdate" -> WinUpdateUnwrap(look, says, size)
      [] mask = "browser"   -> BrowserUnwrap(Uint16(says), look = "marked", size)
      [] mask = "doh"       -> DoHUnwrap(IF look = "marked" /\ says <= size THEN says ELSE 0, size)
      [] mask = "stun"      -> STUNUnwrap(Uint16(says), look = "marked", size)
      [] mask = "webrtc"    -> WebRTCUnwrap(look, Uint16(says), size)
      [] mask = "tls"       -> TLSUnwrap(look, Uint16(says), size)
      [] OTHER              -> QUICUnwrap(look, says, size)

UnwrapForeign(size, says, padding, look) ==
    /\ crashed = "no"
    /\ packet' = Decoy(size, says, size, look)
    /\ got' = UnwrapOther(size, says, padding, look)
    /\ crashed' = IF got' = Panic THEN "unwrap" ELSE "no"
    /\ UNCHANGED <<maskVars, step, preface, stream, swallowed>>

MaskerInit ==
    /\ mask \in MaskNames
    /\ tlsID \in BOOLEAN /\ (tlsID => mask = "browser")
    /\ step = 0 /\ preface = TRUE /\ stream = 1
    /\ swallowed = 0
    /\ packet = Decoy(0, 0, 0, "none") /\ got = Reject /\ crashed = "no"

MaskerNext ==
    \/ \E n \in Lengths, r \in Bytes, tlsPayload \in BOOLEAN : WrapStateless(n, r, tlsPayload)
    \/ \E n \in Lengths, r \in Bytes : WrapWebRTC(n, r)
    \/ \E n \in Lengths : WrapTLS(n)
    \/ WrapQUIC
    \/ \E size \in Sizes, says \in Says, padding \in Paddings, look \in Looks :
         UnwrapForeign(size, says, padding, look)

MaskerSpec == MaskerInit /\ [][MaskerNext]_maskerVars

-----------------------------------------------------------------------------
(* Properties *)

Payload == [from |-> packet.head, to |-> packet.head + packet.body]

\* Unwrap of what Wrap made is the payload, byte for byte, whatever its length, the
\* padding drawn and the payload's first bytes.  A BrowserMask whose random session
\* ID looks like TLS is the exception.  TLS leaves the frame header on, and what it
\* returns contains all of the payload up to the longest one whose record length
\* fits 16 bits.
RoundTrip ==
    /\ (packet.carries /\ mask \in Stateless \ {"stun"} /\ ~tlsID) => got = Payload
    /\ (packet.carries /\ mask = "tls" /\ packet.body <= 65526) =>
         got.from <= Payload.from /\ got.to >= Payload.to

\* A TLSMask in use swallows nine payloads, for the six packets of its handshake,
\* the preface, one HEADERS frame and one WINDOW_UPDATE, and none later.
SwallowsNine == mask = "tls" => swallowed <= 9

\* A length field of 32 bits that makes the sum with a header, and RuTube's padding, too
\* large for an int: none in a 64-bit build.
TooLarge(says) == 28 + says + 65535 >= Half

\* Wrap panics at the first packet of STUN and QUIC and at the third of WebRTC, where
\* the simulated DTLS record is a byte too short; Unwrap on a short WebRTC datagram
\* that starts with 0x14 and on a STUN one that says less than its fingerprint takes.
\* In the 32-bit build RuTube, Teams, WinUpdate and QUIC take a length of 2^31 and more
\* for a negative one, which passes their check of the size, and cut backwards.
\* No other call of any mask leaves its buffer.
PanicsKnown ==
    /\ crashed = "wrap" => mask \in {"stun", "quic"} \/ (mask = "webrtc" /\ step = 3)
    /\ crashed = "unwrap" =>
         \/ mask = "webrtc" /\ packet.kind = "srtp" /\ Size(packet) \in 35..79
         \/ mask = "stun" /\ Uint16(packet.says) < 8
         \/ mask \in {"rutube", "teams", "winupdate"} /\ TooLarge(packet.says)
         \/ mask = "quic" /\ packet.kind = "quic" /\ TooLarge(packet.says)
=============================================================================
