---------------------------- MODULE MaskMixerOps ----------------------------
(***************************************************************************)
(* The operations of MaskMixer (internal/shred/mask_mixer.go) as functions *)
(* on its state.  Each runs inside the mixer's one-slot channel lock, so   *)
(* each is one atomic change.  A mixer is a record                         *)
(*    mode, mask    currentMode and currentMask; a mask is named by the    *)
(*                  mode its constructor belongs to                        *)
(*    modes         the pool, in order                                     *)
(*    lastSwitch, interval, timeBased, dayActive                           *)
(* The packet counters and per-mode statistics are left out: no decision   *)
(* reads them.                                                             *)
(***************************************************************************)
EXTENDS Integers, Sequences, FiniteSets

CONSTANTS
    Modes,       \* ProtocolMode values in use; any uint32 may come out of a handshake
    KnownModes,  \* those with a case of their own in CreateMask
    VK,          \* ModeVK, whose mask is the default case
    Browser,     \* ModeBrowser, which SelectMask takes for a TLS-looking payload
    DayModes,    \* pool of a time-based mixer from 8:00 to 23:00
    NightModes   \* and outside these hours

ASSUME ModesAssumption ==
    /\ KnownModes \subseteq Modes
    /\ VK \in KnownModes /\ Browser \in KnownModes
    /\ DayModes \in Seq(Modes) \ {<<>>}
    /\ NightModes \in Seq(Modes) \ {<<>>}

Pool(ms) == {ms[i] : i \in DOMAIN ms}

CreateMask(mode) == IF mode \in KnownModes THEN mode ELSE VK

\* A mixer that has just been made; day is isDayTime().
NewMaskMixer(interval, t, day) ==
    LET ms == IF day THEN DayModes ELSE NightModes
    IN  [mode |-> ms[1], mask |-> CreateMask(ms[1]), modes |-> ms,
         lastSwitch |-> t, interval |-> interval,
         timeBased |-> TRUE, dayActive |-> day]

\* Mutant of Enter: the mask is left behind.
EnterKeepsMask(m, mode) == [m EXCEPT !.mode = mode]

\* Enter a mode with a fresh mask, with or without restarting the interval.
Enter(m, mode) == [m EXCEPT !.mode = mode, !.mask = CreateMask(mode)]
EnterAt(m, mode, t) ==
    [m EXCEPT !.mode = mode, !.mask = CreateMask(mode), !.lastSwitch = t]

SetModes(m, ms, t) ==
    IF ms = <<>> THEN m
    ELSE [EnterAt(m, ms[1], t) EXCEPT !.modes = ms, !.timeBased = FALSE]

AddMode(m, mode) ==
    IF mode \in Pool(m.modes) THEN m
    ELSE [m EXCEPT !.modes = Append(@, mode)]

\* The pool without a mode, order kept, as the one-element set of the lists
\* that a strictly increasing f picks from all positions of other modes.
Kept(ms, mode) == {i \in DOMAIN ms : ms[i] # mode}

Without(ms, mode) ==
    {rest \in UNION {[1..n -> Pool(ms)] :
                     n \in {k \in 0..Len(ms) : k = Cardinality(Kept(ms, mode))}} :
        \E f \in [DOMAIN rest -> Kept(ms, mode)] :
            /\ \A i \in Kept(ms, mode) : \E k \in DOMAIN rest : f[k] = i
            /\ \A k \in DOMAIN rest :
                 /\ rest[k] = ms[f[k]]
                 /\ \A l \in DOMAIN rest : k < l => f[k] < f[l]}

\* Mutant of RemoveMode: the last mode of the pool can be removed.
RemoveModeLast(m, rest, t) ==
    IF rest = <<>> \/ m.mode \in Pool(rest) THEN [m EXCEPT !.modes = rest]
    ELSE EnterAt([m EXCEPT !.modes = rest], rest[1], t)

\* RemoveMode, given what is left of the pool.
RemoveMode(m, rest, t) ==
    IF rest = <<>> THEN m
    ELSE IF m.mode \in Pool(rest) THEN [m EXCEPT !.modes = rest]
    ELSE EnterAt([m EXCEPT !.modes = rest], rest[1], t)

\* rotate looks up the first position of the current mode (0 when it is not in
\* the pool) and moves to the next one.
IndexOf(ms, mode) ==
    IF mode \in Pool(ms)
    THEN CHOOSE i \in DOMAIN ms : ms[i] = mode /\ \A j \in 1..(i - 1) : ms[j] # mode
    ELSE 0

\* Mutant of NextIndex: one position too far.
NextIndexSkips(ms, mode) == ((IndexOf(ms, mode) + 1) % Len(ms)) + 1

NextIndex(ms, mode) == (IndexOf(ms, mode) % Len(ms)) + 1

Rotate(m, t) ==
    IF m.modes = <<>> THEN m ELSE EnterAt(m, m.modes[NextIndex(m.modes, m.mode)], t)

CheckTimeBasedRotation(m, t, day) ==
    IF ~m.timeBased \/ m.dayActive = day THEN m
    ELSE LET ms == IF day THEN DayModes ELSE NightModes
         IN  [EnterAt(m, ms[1], t) EXCEPT !.modes = ms, !.dayActive = day]

\* GetCurrentMask, the only place where the interval is looked at.
Due(m, t) == m.interval > 0 /\ t - m.lastSwitch > m.interval

\* Mutant of GetCurrentMask: a time-based mixer changes at dawn and dusk only.
GetCurrentMaskDayOnly(m, t, day) ==
    LET n == CheckTimeBasedRotation(m, t, day)
    IN  IF ~n.timeBased /\ Due(n, t) THEN Rotate(n, t) ELSE n

GetCurrentMask(m, t, day) ==
    LET n == CheckTimeBasedRotation(m, t, day)
    IN  IF Due(n, t) THEN Rotate(n, t) ELSE n

\* Unwrap of data that exactly the masks in accepts can parse: the current mask
\* first, then a fresh mask of each mode in pool order, which becomes current.
Parsing(ms, accepts) == {i \in DOMAIN ms : CreateMask(ms[i]) \in accepts}

Unwrap(m, accepts) ==
    IF m.mask \in accepts \/ Parsing(m.modes, accepts) = {} THEN m
    ELSE LET i == CHOOSE j \in Parsing(m.modes, accepts) :
                    \A k \in Parsing(m.modes, accepts) : j <= k
         IN  Enter(m, m.modes[i])

\* The mode Wrap makes a mask of: a payload of five bytes or more that begins like a
\* TLS handshake record goes out as ModeBrowser, whatever the pool and the mode are.
SelectMask(m, tls) == IF tls THEN Browser ELSE m.mode

SetSwitchInterval(m, interval) == [m EXCEPT !.interval = interval]

SetCurrentMode(m, mode) == Enter(m, mode)

\* SwitchToDomain, given the mode its domain maps to.
SwitchToDomain(m, mode) == IF m.mode = mode THEN m ELSE Enter(m, mode)
=============================================================================
