----------------------------- MODULE MaskMixer -----------------------------
(***************************************************************************)
(* One MaskMixer under any sequence of calls of its methods.               *)
(* born, visited and rotations are history variables.                      *)
(***************************************************************************)
EXTENDS MaskMixerOps

CONSTANTS
    Pools,         \* lists passed to SetModes
    DomainModes,   \* modes SwitchToDomain can select
    Intervals,     \* switch intervals in use; 0 turns the timer off
    MaxTime,       \* bound on the clock
    MaxPool        \* bound on the pool's length

ASSUME CallsAssumption ==
    /\ Pools \subseteq Seq(Modes)
    /\ DomainModes \subseteq Modes
    /\ Intervals \subseteq Nat /\ Intervals # {}
    /\ MaxTime \in Nat
    /\ MaxPool \in Nat

VARIABLES
    mixer,      \* the mixer
    now,        \* the clock
    day,        \* isDayTime()
    born,       \* when the current mask was created
    visited,    \* modes entered by the current run of ForceRotate calls
    rotations   \* length of that run, capped at MaxPool

vars == <<mixer, now, day, born, visited, rotations>>

MixerType == [mode : Modes, mask : KnownModes, modes : Seq(Modes) \ {<<>>},
              lastSwitch : 0..MaxTime, interval : Intervals,
              timeBased : BOOLEAN, dayActive : BOOLEAN]

Init ==
    /\ now = 0
    /\ day \in BOOLEAN
    /\ \E i \in Intervals : mixer = NewMaskMixer(i, 0, day)
    /\ born = 0
    /\ visited = {}
    /\ rotations = 0

\* A call other than ForceRotate ends the run of rotations.
EndRun == visited' = {} /\ rotations' = 0

CallSetModes(ms) ==
    /\ mixer' = SetModes(mixer, ms, now)
    /\ born' = IF ms = <<>> THEN born ELSE now
    /\ EndRun
    /\ UNCHANGED <<now, day>>

CallAddMode(mode) ==
    /\ Len(mixer.modes) < MaxPool
    /\ mixer' = AddMode(mixer, mode)
    /\ EndRun
    /\ UNCHANGED <<now, day, born>>

CallRemoveMode(mode) ==
    /\ \E rest \in Without(mixer.modes, mode) : mixer' = RemoveMode(mixer, rest, now)
    /\ born' = IF mixer'.mode # mixer.mode THEN now ELSE born
    /\ EndRun
    /\ UNCHANGED <<now, day>>

CallGetCurrentMask ==
    /\ mixer' = GetCurrentMask(mixer, now, day)
    /\ born' = IF mixer'.lastSwitch # mixer.lastSwitch THEN now ELSE born
    /\ EndRun
    /\ UNCHANGED <<now, day>>

CallForceRotate ==
    /\ mixer' = Rotate(mixer, now)
    /\ born' = now
    /\ visited' = visited \cup {mixer'.mode}
    /\ rotations' = IF rotations < MaxPool THEN rotations + 1 ELSE rotations
    /\ UNCHANGED <<now, day>>

CallUnwrap(accepts) ==
    /\ mixer' = Unwrap(mixer, accepts)
    /\ born' = IF mixer' # mixer THEN now ELSE born
    /\ EndRun
    /\ UNCHANGED <<now, day>>

CallSetCurrentMode(mode) ==
    /\ mixer' = SetCurrentMode(mixer, mode)
    /\ born' = now
    /\ EndRun
    /\ UNCHANGED <<now, day>>

CallSwitchToDomain(mode) ==
    /\ mixer' = SwitchToDomain(mixer, mode)
    /\ born' = IF mixer.mode # mode THEN now ELSE born
    /\ EndRun
    /\ UNCHANGED <<now, day>>

CallSetSwitchInterval(i) ==
    /\ mixer' = SetSwitchInterval(mixer, i)
    /\ EndRun
    /\ UNCHANGED <<now, day, born>>

\* Time passes; day and night may change.
Tick ==
    /\ now < MaxTime
    /\ now' = now + 1
    /\ day' \in BOOLEAN
    /\ UNCHANGED <<mixer, born, visited, rotations>>

Next ==
    \/ \E ms \in Pools : CallSetModes(ms)
    \/ \E mode \in Modes : CallAddMode(mode)
    \/ \E mode \in Modes : CallRemoveMode(mode)
    \/ CallGetCurrentMask
    \/ CallForceRotate
    \/ \E accepts \in SUBSET KnownModes : CallUnwrap(accepts)
    \/ \E mode \in Modes : CallSetCurrentMode(mode)
    \/ \E mode \in DomainModes : CallSwitchToDomain(mode)
    \/ \E i \in Intervals : CallSetSwitchInterval(i)
    \/ Tick

Spec == Init /\ [][Next]_vars

-----------------------------------------------------------------------------
(* Properties *)

\* Every variable keeps its type; in particular no sequence of AddMode,
\* RemoveMode and SetModes calls empties the pool, whose first element the
\* day/night switch and the handshake index without a check.
TypeOK ==
    /\ mixer \in MixerType
    /\ now \in 0..MaxTime
    /\ day \in BOOLEAN
    /\ born \in 0..MaxTime
    /\ visited \subseteq Modes
    /\ rotations \in 0..MaxPool

\* The mask that parses incoming data is the mask of the mode the mixer reports
\* and wraps with: no path updates one of currentMode and currentMask alone.
MaskMatchesMode == mixer.mask = CreateMask(mixer.mode)

\* The interval never counts from after the current mask was made.
SwitchNotAfterMask == mixer.lastSwitch <= born /\ born <= now

\* GetCurrentMask never hands out a mask older than the switch interval, even
\* though SetCurrentMode, SwitchToDomain and Unwrap change masks without
\* restarting the interval and the interval itself may change at any time.
HandedMaskFresh ==
    [][CallGetCurrentMask =>
         (mixer'.interval > 0 => now - born' <= mixer'.interval)]_vars

Distinct(ms) == \A i, j \in DOMAIN ms : i # j => ms[i] # ms[j]

\* As many ForceRotate calls in a row as the pool has modes pass through every
\* mode of it, wherever the mixer started, even from a mode outside the pool.
\* A pool with a repeated mode is exempt: rotate looks up the first position.
RotationCoversPool ==
    (rotations >= Len(mixer.modes) /\ Distinct(mixer.modes))
        => Pool(mixer.modes) \subseteq visited
=============================================================================
