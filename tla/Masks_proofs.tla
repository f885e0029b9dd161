----------------------------- MODULE Masks_proofs -----------------------------
(***************************************************************************)
(* Proofs about the mixer and about the masks it chooses from.             *)
(*                                                                         *)
(* The mixer, for every set of modes, every pool and every interval: type  *)
(* correctness, agreement of mask and mode, that a mask handed out is      *)
(* never older than the switch interval, and that rotation goes round.     *)
(*                                                                         *)
(* The masks, for every payload, every random byte and every datagram:     *)
(* Unwrap undoes Wrap, and which calls leave their buffer.                 *)
(***************************************************************************)
EXTENDS MaskMixer, Masks, WellFoundedInduction, TLAPS


\* Every set of naturals with an element has a least one.
LEMMA LeastNatural ==
  ASSUME NEW T, T \subseteq Nat, T # {}
  PROVE  \E x \in T : \A y \in T : x <= y
  <1> DEFINE Less == {p \in Nat \X Nat : p[1] < p[2]}
  <1>1. IsWellFoundedOn(Less, Nat)
    BY NatLessThanWellFounded, Zenon DEF OpToRel
  <1>2. PICK x \in T : \A y \in T : ~(<<y, x>> \in Less)
    BY <1>1, WFMin, Zenon
  <1>3. ASSUME NEW y \in T PROVE x <= y
    <2>1. x \in Nat /\ y \in Nat
      OBVIOUS
    <2>2. y < x => <<y, x>> \in Less
      BY <2>1
    <2>3. ~(y < x)
      BY <1>2, <2>2
    <2> QED
      BY <2>1, <2>3
  <1> QED
    BY <1>3

-----------------------------------------------------------------------------
(* The operations of the mixer *)

\* CreateMask returns the mask of a known mode, whatever it is given.
LEMMA CreateMaskType == ASSUME NEW mode PROVE CreateMask(mode) \in KnownModes
  BY ModesAssumption DEF CreateMask

\* What entering a mode at time t does.
LEMMA EnterAtType ==
  ASSUME NEW m \in MixerType, NEW mode \in Modes, NEW t \in 0..MaxTime
  PROVE  /\ EnterAt(m, mode, t) \in MixerType
         /\ EnterAt(m, mode, t).mask = CreateMask(EnterAt(m, mode, t).mode)
         /\ EnterAt(m, mode, t).lastSwitch = t
         /\ EnterAt(m, mode, t).mode = mode
         /\ EnterAt(m, mode, t).interval = m.interval
         /\ EnterAt(m, mode, t).modes = m.modes
  BY CreateMaskType DEF EnterAt, MixerType

\* What entering a mode without restarting the interval does.
LEMMA EnterType ==
  ASSUME NEW m \in MixerType, NEW mode \in Modes
  PROVE  /\ Enter(m, mode) \in MixerType
         /\ Enter(m, mode).mask = CreateMask(Enter(m, mode).mode)
         /\ Enter(m, mode).lastSwitch = m.lastSwitch
         /\ Enter(m, mode).mode = mode
  BY CreateMaskType DEF Enter, MixerType

\* A list that is not empty has a first element.
LEMMA FirstInModes ==
  ASSUME NEW ms \in Seq(Modes) \ {<<>>}
  PROVE  ms[1] \in Modes
  OBVIOUS

\* Replacing the pool, and the day/night flags, keeps the rest of a mixer.
LEMMA PoolType ==
  ASSUME NEW m \in MixerType, NEW ms \in Seq(Modes) \ {<<>>}, NEW d \in BOOLEAN
  PROVE  /\ [m EXCEPT !.modes = ms] \in MixerType
         /\ [m EXCEPT !.modes = ms].mode = m.mode
         /\ [m EXCEPT !.modes = ms].mask = m.mask
         /\ [m EXCEPT !.modes = ms].lastSwitch = m.lastSwitch
         /\ [m EXCEPT !.modes = ms, !.timeBased = FALSE] \in MixerType
         /\ [m EXCEPT !.modes = ms, !.timeBased = FALSE].mode = m.mode
         /\ [m EXCEPT !.modes = ms, !.timeBased = FALSE].mask = m.mask
         /\ [m EXCEPT !.modes = ms, !.timeBased = FALSE].lastSwitch = m.lastSwitch
         /\ [m EXCEPT !.modes = ms, !.dayActive = d] \in MixerType
         /\ [m EXCEPT !.modes = ms, !.dayActive = d].mode = m.mode
         /\ [m EXCEPT !.modes = ms, !.dayActive = d].mask = m.mask
         /\ [m EXCEPT !.modes = ms, !.dayActive = d].lastSwitch = m.lastSwitch
         /\ [m EXCEPT !.modes = ms, !.dayActive = d].interval = m.interval
  BY DEF MixerType

\* What is left of a pool is a list of modes.
LEMMA WithoutType ==
  ASSUME NEW ms \in Seq(Modes), NEW mode, NEW rest \in Without(ms, mode)
  PROVE  rest \in Seq(Modes)
  <1>1. PICK n \in 0..Len(ms) : rest \in [1..n -> Pool(ms)]
    BY DEF Without
  <1>2. Pool(ms) \subseteq Modes
    BY DEF Pool
  <1>3. n \in Nat /\ rest \in [1..n -> Modes]
    BY <1>1, <1>2
  <1> QED
    BY <1>3

\* rotate's next position lies inside the pool.
LEMMA NextIndexInPool ==
  ASSUME NEW ms \in Seq(Modes) \ {<<>>}, NEW mode
  PROVE  NextIndex(ms, mode) \in DOMAIN ms
  <1>1. Len(ms) \in Nat /\ Len(ms) > 0 /\ DOMAIN ms = 1..Len(ms)
    OBVIOUS
  <1>2. IndexOf(ms, mode) \in Nat
    <2>1. CASE mode \notin Pool(ms)
      BY <2>1 DEF IndexOf
    <2>2. CASE mode \in Pool(ms)
      <3> DEFINE T == {i \in DOMAIN ms : ms[i] = mode}
      <3>1. T # {} /\ T \subseteq Nat
        BY <2>2, <1>1 DEF Pool
      <3>2. PICK i \in T : \A j \in T : i <= j
        BY <3>1, LeastNatural
      <3>3. i \in DOMAIN ms /\ ms[i] = mode
        OBVIOUS
      <3>4. ASSUME NEW j \in 1..(i - 1) PROVE ms[j] # mode
        <4>1. j \in DOMAIN ms /\ ~(i <= j)
          BY <3>3, <1>1
        <4> QED
          BY <4>1, <3>2
      <3>5. \E k \in DOMAIN ms : ms[k] = mode /\ \A j \in 1..(k - 1) : ms[j] # mode
        BY <3>3, <3>4
      <3>6. IndexOf(ms, mode) \in DOMAIN ms
        BY <3>5, <2>2 DEF IndexOf
      <3> QED
        BY <3>6, <1>1
    <2> QED
      BY <2>1, <2>2
  <1>3. IndexOf(ms, mode) % Len(ms) \in 0..(Len(ms) - 1)
    BY <1>1, <1>2
  <1> QED
    BY <1>1, <1>3 DEF NextIndex

\* rotate enters a mode of the pool and restarts the interval.
LEMMA RotateType ==
  ASSUME NEW m \in MixerType, NEW t \in 0..MaxTime
  PROVE  /\ Rotate(m, t) \in MixerType
         /\ Rotate(m, t).mask = CreateMask(Rotate(m, t).mode)
         /\ Rotate(m, t).lastSwitch = t
         /\ Rotate(m, t).mode \in Modes
         /\ Rotate(m, t).interval = m.interval
  <1>1. m.modes \in Seq(Modes) \ {<<>>}
    BY DEF MixerType
  <1>2. m.modes[NextIndex(m.modes, m.mode)] \in Modes
    BY <1>1, NextIndexInPool
  <1>3. Rotate(m, t) = EnterAt(m, m.modes[NextIndex(m.modes, m.mode)], t)
    BY <1>1 DEF Rotate
  <1> QED
    BY <1>2, <1>3, EnterAtType

\* The day/night switch either changes nothing or enters the new pool at t.
LEMMA TimeBasedType ==
  ASSUME NEW m \in MixerType, NEW t \in 0..MaxTime, NEW d \in BOOLEAN
  PROVE  LET n == CheckTimeBasedRotation(m, t, d)
         IN  /\ n \in MixerType
             /\ n = m \/ (n.mask = CreateMask(n.mode) /\ n.lastSwitch = t)
             /\ n.interval = m.interval
  <1> DEFINE ms == IF d THEN DayModes ELSE NightModes
             e == EnterAt(m, ms[1], t)
  <1>1. ms \in Seq(Modes) \ {<<>>} /\ ms[1] \in Modes
    BY ModesAssumption, FirstInModes
  <1>2. e \in MixerType /\ e.mask = CreateMask(e.mode) /\ e.lastSwitch = t
        /\ e.interval = m.interval
    BY <1>1, EnterAtType
  <1>3. CASE ~m.timeBased \/ m.dayActive = d
    BY <1>3 DEF CheckTimeBasedRotation
  <1>4. CASE ~(~m.timeBased \/ m.dayActive = d)
    <2>1. CheckTimeBasedRotation(m, t, d) = [e EXCEPT !.modes = ms, !.dayActive = d]
      BY <1>4 DEF CheckTimeBasedRotation
    <2> HIDE DEF e, ms
    <2> DEFINE n == [e EXCEPT !.modes = ms, !.dayActive = d]
    <2>2. /\ n \in MixerType
          /\ n.mode = e.mode /\ n.mask = e.mask
          /\ n.lastSwitch = e.lastSwitch /\ n.interval = e.interval
      BY <1>1, <1>2 DEF MixerType
    <2>3. CheckTimeBasedRotation(m, t, d) = n
      BY <2>1
    <2> HIDE DEF n
    <2> QED
      BY <2>2, <2>3, <1>2
  <1> QED
    BY <1>3, <1>4

\* GetCurrentMask keeps the type; what it returns is the old mixer with an
\* interval that has not run out, or a mixer whose mask was made now.
LEMMA GetCurrentMaskType ==
  ASSUME NEW m \in MixerType, NEW t \in 0..MaxTime, NEW d \in BOOLEAN
  PROVE  /\ GetCurrentMask(m, t, d) \in MixerType
         /\ \/ GetCurrentMask(m, t, d) = m /\ ~Due(m, t)
            \/ /\ GetCurrentMask(m, t, d).lastSwitch = t
               /\ GetCurrentMask(m, t, d).mask = CreateMask(GetCurrentMask(m, t, d).mode)
  <1> DEFINE n == CheckTimeBasedRotation(m, t, d)
  <1>1. /\ n \in MixerType
        /\ n = m \/ (n.mask = CreateMask(n.mode) /\ n.lastSwitch = t)
    BY TimeBasedType
  <1>2. GetCurrentMask(m, t, d) = IF Due(n, t) THEN Rotate(n, t) ELSE n
    BY DEF GetCurrentMask
  <1> HIDE DEF n
  <1> QED
    BY <1>1, <1>2, RotateType

\* Unwrap changes nothing or enters a mode of the pool.
LEMMA UnwrapType ==
  ASSUME NEW m \in MixerType, NEW accepts
  PROVE  \/ Unwrap(m, accepts) = m
         \/ \E mode \in Modes : Unwrap(m, accepts) = Enter(m, mode)
  <1> DEFINE P == Parsing(m.modes, accepts)
  <1>1. m.modes \in Seq(Modes) /\ P \subseteq DOMAIN m.modes /\ P \subseteq Nat
    BY DEF Parsing, MixerType
  <1>2. CASE m.mask \in accepts \/ P = {}
    BY <1>2 DEF Unwrap
  <1>3. CASE ~(m.mask \in accepts \/ P = {})
    <2> DEFINE i == CHOOSE j \in P : \A k \in P : j <= k
    <2>1. \E j \in P : \A k \in P : j <= k
      BY <1>1, <1>3, LeastNatural
    <2>2. i \in P
      BY <2>1
    <2>3. Unwrap(m, accepts) = Enter(m, m.modes[i])
      BY <1>3 DEF Unwrap
    <2> HIDE DEF i
    <2>4. i \in DOMAIN m.modes
      BY <1>1, <2>2
    <2>5. m.modes[i] \in Modes
      BY <1>1, <2>4
    <2> QED
      BY <2>3, <2>5
  <1> QED
    BY <1>2, <1>3

-----------------------------------------------------------------------------
(* The inductive invariant of the mixer *)

MixerInv == TypeOK /\ MaskMatchesMode /\ SwitchNotAfterMask

\* A fresh mixer satisfies it.
LEMMA InitMixer == Init => MixerInv
  <1> SUFFICES ASSUME Init PROVE MixerInv
    OBVIOUS
  <1>1. PICK i \in Intervals : mixer = NewMaskMixer(i, 0, day)
    BY DEF Init
  <1> DEFINE ms == IF day THEN DayModes ELSE NightModes
  <1>2. day \in BOOLEAN /\ ms \in Seq(Modes) \ {<<>>} /\ ms[1] \in Modes
    BY ModesAssumption, FirstInModes DEF Init
  <1>3. CreateMask(ms[1]) \in KnownModes
    BY CreateMaskType
  <1>4. mixer = [mode |-> ms[1], mask |-> CreateMask(ms[1]), modes |-> ms,
                 lastSwitch |-> 0, interval |-> i,
                 timeBased |-> TRUE, dayActive |-> day]
    BY <1>1 DEF NewMaskMixer
  <1> HIDE DEF ms
  <1>5. mixer \in MixerType /\ mixer.mask = CreateMask(mixer.mode) /\ mixer.lastSwitch = 0
    BY <1>2, <1>3, <1>4, CallsAssumption DEF MixerType
  <1> QED
    BY <1>2, <1>5, CallsAssumption
    DEF Init, MixerInv, TypeOK, MaskMatchesMode, SwitchNotAfterMask

\* It is enough for a call to keep the type, to leave mask and mode in
\* agreement and to keep the interval's start at or before the mask's birth.
LEMMA CallPreserves ==
  ASSUME MixerInv, mixer' \in MixerType, mixer'.mask = CreateMask(mixer'.mode),
         now' = now, day' = day, born' \in {born, now},
         mixer'.lastSwitch <= born',
         visited' \subseteq Modes, rotations' \in 0..MaxPool
  PROVE  MixerInv'
  BY DEF MixerInv, TypeOK, MaskMatchesMode, SwitchNotAfterMask, MixerType

\* Every call, and the passing of time, preserves it.
LEMMA NextMixer == MixerInv /\ [Next]_vars => MixerInv'
  <1> SUFFICES ASSUME MixerInv, [Next]_vars PROVE MixerInv'
    OBVIOUS
  <1> USE CallsAssumption
  <1>0. /\ mixer \in MixerType /\ now \in 0..MaxTime /\ born \in 0..MaxTime
        /\ mixer.modes \in Seq(Modes) \ {<<>>} /\ mixer.mode \in Modes
        /\ mixer.lastSwitch \in 0..MaxTime
        /\ mixer.mask = CreateMask(mixer.mode)
        /\ mixer.lastSwitch <= born /\ born <= now
        /\ visited \subseteq Modes /\ rotations \in 0..MaxPool /\ day \in BOOLEAN
    BY DEF MixerInv, TypeOK, MaskMatchesMode, SwitchNotAfterMask, MixerType
  <1>a. mixer \in MixerType /\ now \in 0..MaxTime
    BY <1>0
  <1>1. ASSUME NEW ms \in Pools, CallSetModes(ms) PROVE MixerInv'
    <2>1. CASE ms = <<>>
      BY <1>0, <1>1, <2>1, CallPreserves DEF CallSetModes, SetModes, EndRun
    <2>2. CASE ms # <<>>
      <3>1. ms \in Seq(Modes) \ {<<>>} /\ ms[1] \in Modes
        BY <2>2, FirstInModes
      <3>2. mixer' = [EnterAt(mixer, ms[1], now) EXCEPT !.modes = ms, !.timeBased = FALSE]
        BY <1>1, <2>2 DEF CallSetModes, SetModes
      <3> DEFINE e == EnterAt(mixer, ms[1], now)
      <3>a. e \in MixerType /\ e.mask = CreateMask(e.mode) /\ e.lastSwitch = now
        BY <1>a, <3>1, EnterAtType
      <3> HIDE DEF e
      <3>b. mixer' = [e EXCEPT !.modes = ms, !.timeBased = FALSE]
        BY <3>2 DEF e
      <3>c. /\ mixer' \in MixerType
            /\ mixer'.mode = e.mode /\ mixer'.mask = e.mask /\ mixer'.lastSwitch = e.lastSwitch
        BY <3>a, <3>b, <3>1, PoolType
      <3>3. /\ mixer' \in MixerType /\ mixer'.mask = CreateMask(mixer'.mode)
            /\ mixer'.lastSwitch = now
        BY <3>a, <3>c
      <3> QED
        BY <1>0, <1>1, <2>2, <3>3, CallPreserves DEF CallSetModes, EndRun
    <2> QED
      BY <2>1, <2>2
  <1>2. ASSUME NEW mode \in Modes, CallAddMode(mode) PROVE MixerInv'
    <2>1. mixer' = mixer \/ mixer' = [mixer EXCEPT !.modes = Append(mixer.modes, mode)]
      BY <1>2 DEF CallAddMode, AddMode
    <2>2. Append(mixer.modes, mode) \in Seq(Modes) \ {<<>>}
      BY <1>0
    <2> DEFINE ms == Append(mixer.modes, mode)
    <2>a. mixer' = mixer \/ mixer' = [mixer EXCEPT !.modes = ms]
      BY <2>1
    <2>b. ms \in Seq(Modes) \ {<<>>}
      BY <2>2
    <2> HIDE DEF ms
    <2>3. /\ mixer' \in MixerType /\ mixer'.mask = mixer.mask /\ mixer'.mode = mixer.mode
          /\ mixer'.lastSwitch = mixer.lastSwitch
      <3>1. CASE mixer' = mixer
        BY <1>a, <3>1
      <3>2. CASE mixer' = [mixer EXCEPT !.modes = ms]
        BY <1>a, <2>b, <3>2, PoolType
      <3> QED
        BY <2>a, <3>1, <3>2
    <2> QED
      BY <1>0, <1>2, <2>3, CallPreserves DEF CallAddMode, EndRun
  <1>3. ASSUME NEW mode \in Modes, CallRemoveMode(mode) PROVE MixerInv'
    <2>1. PICK rest \in Without(mixer.modes, mode) : mixer' = RemoveMode(mixer, rest, now)
      BY <1>3 DEF CallRemoveMode
    <2>2. CASE rest = <<>>
      BY <1>0, <1>3, <2>1, <2>2, CallPreserves DEF CallRemoveMode, RemoveMode, EndRun
    <2>3. CASE rest # <<>>
      <3>1. rest \in Seq(Modes) \ {<<>>} /\ rest[1] \in Modes
        BY <1>0, <2>1, <2>3, WithoutType, FirstInModes
      <3>2. CASE mixer.mode \in Pool(rest)
        <4>1. mixer' = [mixer EXCEPT !.modes = rest]
          BY <2>1, <2>3, <3>2 DEF RemoveMode
        <4>2. /\ mixer' \in MixerType /\ mixer'.mask = mixer.mask /\ mixer'.mode = mixer.mode
              /\ mixer'.lastSwitch = mixer.lastSwitch
          BY <1>0, <3>1, <4>1, PoolType
        <4> QED
          BY <1>0, <1>3, <4>2, CallPreserves DEF CallRemoveMode, EndRun
      <3>3. CASE mixer.mode \notin Pool(rest)
        <4>1. mixer' = EnterAt([mixer EXCEPT !.modes = rest], rest[1], now)
          BY <2>1, <2>3, <3>3 DEF RemoveMode
        <4>2. rest[1] \in Pool(rest)
          BY <3>1 DEF Pool
        <4> DEFINE p == [mixer EXCEPT !.modes = rest]
        <4>a. p \in MixerType
          BY <1>0, <3>1, PoolType
        <4>b. mixer' = EnterAt(p, rest[1], now)
          BY <4>1
        <4> HIDE DEF p
        <4>3. /\ mixer' \in MixerType /\ mixer'.mask = CreateMask(mixer'.mode)
              /\ mixer'.lastSwitch = now /\ mixer'.mode = rest[1]
          BY <1>a, <3>1, <4>a, <4>b, EnterAtType
        <4>4. born' = now
          BY <1>3, <3>3, <4>2, <4>3 DEF CallRemoveMode
        <4> QED
          BY <1>0, <1>3, <4>3, <4>4, CallPreserves DEF CallRemoveMode, EndRun
      <3> QED
        BY <3>2, <3>3
    <2> QED
      BY <2>2, <2>3
  <1>4. CASE CallGetCurrentMask
    <2>1. mixer' = GetCurrentMask(mixer, now, day)
      BY <1>4 DEF CallGetCurrentMask
    <2>2. /\ mixer' \in MixerType
          /\ mixer' = mixer \/ (mixer'.lastSwitch = now /\ mixer'.mask = CreateMask(mixer'.mode))
      BY <1>0, <2>1, GetCurrentMaskType
    <2>3. born' \in {born, now} /\ mixer'.lastSwitch <= born'
      BY <1>0, <1>4, <2>2 DEF CallGetCurrentMask
    <2> QED
      BY <1>0, <1>4, <2>2, <2>3, CallPreserves DEF CallGetCurrentMask, EndRun
  <1>5. CASE CallForceRotate
    <2>1. /\ mixer' \in MixerType /\ mixer'.mask = CreateMask(mixer'.mode)
          /\ mixer'.lastSwitch = now /\ mixer'.mode \in Modes
      BY <1>0, <1>5, RotateType DEF CallForceRotate
    <2> QED
      BY <1>0, <1>5, <2>1, CallPreserves DEF CallForceRotate
  <1>6. ASSUME NEW accepts \in SUBSET KnownModes, CallUnwrap(accepts) PROVE MixerInv'
    <2>1. mixer' = mixer \/ \E mode \in Modes : mixer' = Enter(mixer, mode)
      BY <1>0, <1>6, UnwrapType DEF CallUnwrap
    <2>2. /\ mixer' \in MixerType /\ mixer'.mask = CreateMask(mixer'.mode)
          /\ mixer'.lastSwitch = mixer.lastSwitch
      BY <1>0, <2>1, EnterType
    <2> QED
      BY <1>0, <1>6, <2>2, CallPreserves DEF CallUnwrap, EndRun
  <1>7. ASSUME NEW mode \in Modes, CallSetCurrentMode(mode) PROVE MixerInv'
    <2>1. /\ mixer' \in MixerType /\ mixer'.mask = CreateMask(mixer'.mode)
          /\ mixer'.lastSwitch = mixer.lastSwitch
      BY <1>0, <1>7, EnterType DEF CallSetCurrentMode, SetCurrentMode
    <2> QED
      BY <1>0, <1>7, <2>1, CallPreserves DEF CallSetCurrentMode, EndRun
  <1>8. ASSUME NEW mode \in DomainModes, CallSwitchToDomain(mode) PROVE MixerInv'
    <2>1. /\ mixer' \in MixerType /\ mixer'.mask = CreateMask(mixer'.mode)
          /\ mixer'.lastSwitch = mixer.lastSwitch
      BY <1>0, <1>8, EnterType DEF CallSwitchToDomain, SwitchToDomain
    <2> QED
      BY <1>0, <1>8, <2>1, CallPreserves DEF CallSwitchToDomain, EndRun
  <1>9. ASSUME NEW i \in Intervals, CallSetSwitchInterval(i) PROVE MixerInv'
    <2>1. /\ mixer' \in MixerType /\ mixer'.mask = mixer.mask /\ mixer'.mode = mixer.mode
          /\ mixer'.lastSwitch = mixer.lastSwitch
      BY <1>0, <1>9 DEF CallSetSwitchInterval, SetSwitchInterval, MixerType
    <2> QED
      BY <1>0, <1>9, <2>1, CallPreserves DEF CallSetSwitchInterval, EndRun
  <1>10. CASE Tick
    BY <1>0, <1>10 DEF Tick, MixerInv, TypeOK, MaskMatchesMode, SwitchNotAfterMask
  <1>11. CASE UNCHANGED vars
    BY <1>11 DEF vars, MixerInv, TypeOK, MaskMatchesMode, SwitchNotAfterMask
  <1> QED
    BY <1>1, <1>2, <1>3, <1>4, <1>5, <1>6, <1>7, <1>8, <1>9, <1>10, <1>11 DEF Next

\* The invariant holds in every reachable state.
THEOREM MixerInvariant == Spec => []MixerInv
  BY InitMixer, NextMixer, PTL DEF Spec

\* Type correctness: in particular no sequence of calls empties the pool.
THEOREM MixerTypeCorrect == Spec => []TypeOK
  <1>1. MixerInv => TypeOK
    BY DEF MixerInv
  <1> QED
    BY <1>1, MixerInvariant, PTL

\* The mixer parses with the mask of the mode it reports and wraps with.
THEOREM MaskAgreement == Spec => []MaskMatchesMode
  <1>1. MixerInv => MaskMatchesMode
    BY DEF MixerInv
  <1> QED
    BY <1>1, MixerInvariant, PTL

\* A mask handed out by GetCurrentMask is never older than the interval.
THEOREM MaskFreshness == Spec => HandedMaskFresh
  <1> DEFINE Fresh == CallGetCurrentMask =>
                        (mixer'.interval > 0 => now - born' <= mixer'.interval)
  <1>1. ASSUME MixerInv PROVE [Fresh]_vars
    <2> SUFFICES ASSUME CallGetCurrentMask, mixer'.interval > 0
                 PROVE  now - born' <= mixer'.interval
      OBVIOUS
    <2>a. /\ mixer \in MixerType /\ now \in 0..MaxTime /\ day \in BOOLEAN
          /\ born \in 0..MaxTime /\ mixer.lastSwitch <= born /\ born <= now
      BY <1>1 DEF MixerInv, TypeOK, SwitchNotAfterMask
    <2>b. mixer.lastSwitch \in 0..MaxTime /\ mixer.interval \in Intervals
      BY <2>a DEF MixerType
    <2>0. /\ mixer \in MixerType /\ now \in 0..MaxTime /\ day \in BOOLEAN
          /\ mixer.lastSwitch \in Nat /\ mixer.interval \in Nat
          /\ born \in Nat /\ mixer.lastSwitch <= born /\ born <= now
      <3>0. Intervals \subseteq Nat /\ MaxTime \in Nat
        BY CallsAssumption
      <3>1. mixer.lastSwitch \in Nat /\ mixer.interval \in Nat /\ born \in Nat
        <4>1. mixer.interval \in Nat
          BY <2>b, <3>0
        <4>2. mixer.lastSwitch \in Nat
          BY <2>b, <3>0
        <4>3. born \in Nat
          BY <2>a, <3>0
        <4> QED
          BY <4>1, <4>2, <4>3
      <3> QED
        BY <3>1, <2>a
    <2>1. /\ mixer' \in MixerType
          /\ \/ mixer' = mixer /\ ~Due(mixer, now)
             \/ mixer'.lastSwitch = now
      BY <2>0, GetCurrentMaskType DEF CallGetCurrentMask
    <2>2. mixer'.interval \in Nat
      BY <2>1, CallsAssumption DEF MixerType
    <2>3. CASE mixer' = mixer /\ ~Due(mixer, now)
      BY <2>0, <2>3 DEF Due, CallGetCurrentMask
    <2>4. CASE mixer'.lastSwitch = now
      BY <2>0, <2>2, <2>4 DEF CallGetCurrentMask
    <2> QED
      BY <2>1, <2>3, <2>4
  <1> QED
    BY <1>1, MixerInvariant, PTL DEF HandedMaskFresh

-----------------------------------------------------------------------------
(* A run of ForceRotate calls *)

\* The number of rotations that lead from position j of a pool of n modes to p.
Back(n, p, j) == IF j <= p THEN p - j ELSE p - j + n

\* In the middle of a run the mixer is in a mode of the pool, and the positions
\* before it, going round, have been visited as far back as the run is long.
RunInv ==
    rotations > 0 /\ Distinct(mixer.modes) =>
        \E p \in DOMAIN mixer.modes :
            /\ mixer.mode = mixer.modes[p]
            /\ \A j \in DOMAIN mixer.modes :
                 Back(Len(mixer.modes), p, j) < rotations => mixer.modes[j] \in visited

\* The first position of a mode is its only one when no mode is repeated.
LEMMA IndexOfDistinct ==
  ASSUME NEW ms \in Seq(Modes), Distinct(ms), NEW p \in DOMAIN ms
  PROVE  IndexOf(ms, ms[p]) = p
  <1>1. ms[p] \in Pool(ms)
    BY DEF Pool
  <1>2. DOMAIN ms = 1..Len(ms) /\ Len(ms) \in Nat
    OBVIOUS
  <1>3. ASSUME NEW j \in 1..(p - 1) PROVE ms[j] # ms[p]
    <2>1. j \in DOMAIN ms /\ j # p
      BY <1>2
    <2> QED
      BY <2>1 DEF Distinct
  <1>4. ASSUME NEW i \in DOMAIN ms, ms[i] = ms[p] PROVE i = p
    BY <1>4 DEF Distinct
  <1> DEFINE P(i) == ms[i] = ms[p] /\ \A j \in 1..(i - 1) : ms[j] # ms[p]
  <1>5. P(p) /\ \A i \in DOMAIN ms : P(i) => i = p
    BY <1>3, <1>4
  <1>6. IndexOf(ms, ms[p]) = CHOOSE i \in DOMAIN ms : P(i)
    BY <1>1 DEF IndexOf
  <1> HIDE DEF P
  <1> QED
    BY <1>5, <1>6

\* One more rotation: the next position is visited, and every other one is one
\* rotation further back.
LEMMA RotateRun == ASSUME MixerInv, RunInv, CallForceRotate PROVE RunInv'
  <1> DEFINE ms == mixer.modes
             n == Len(ms)
             q == NextIndex(ms, mixer.mode)
  <1>1. mixer \in MixerType /\ now \in 0..MaxTime /\ rotations \in Nat
    BY CallsAssumption DEF MixerInv, TypeOK
  <1>2. ms \in Seq(Modes) \ {<<>>}
    BY <1>1 DEF MixerType
  <1>3. n \in Nat /\ n > 0 /\ DOMAIN ms = 1..n
    BY <1>2
  <1>4. q \in DOMAIN ms
    BY <1>2, NextIndexInPool
  <1>5. mixer'.mode = ms[q] /\ mixer'.modes = ms
    <2>1. ms[q] \in Modes
      BY <1>2, <1>4
    <2>2. mixer' = EnterAt(mixer, ms[q], now)
      BY <1>2 DEF CallForceRotate, Rotate
    <2> HIDE DEF q
    <2> QED
      BY <1>1, <2>1, <2>2, EnterAtType
  <1>6. visited' = visited \cup {ms[q]} /\ rotations' \in Nat /\ rotations' <= rotations + 1
    BY <1>1, <1>5 DEF CallForceRotate
  <1> SUFFICES ASSUME Distinct(ms), NEW j \in DOMAIN ms, Back(n, q, j) < rotations'
               PROVE  ms[j] \in visited'
    BY <1>4, <1>5 DEF RunInv
  <1>7. CASE j = q
    BY <1>6, <1>7
  <1>8. CASE j # q
    <2>1. rotations > 0
      BY <1>1, <1>3, <1>4, <1>6, <1>8 DEF Back
    <2>2. PICK p \in DOMAIN ms :
            /\ mixer.mode = ms[p]
            /\ \A k \in DOMAIN ms : Back(n, p, k) < rotations => ms[k] \in visited
      BY <2>1 DEF RunInv
    <2>3. IndexOf(ms, mixer.mode) = p
      BY <1>2, <2>2, IndexOfDistinct
    <2>4. q = IF p = n THEN 1 ELSE p + 1
      <3>1. q = (p % n) + 1
        BY <2>3 DEF NextIndex
      <3>2. p \in 1..n
        BY <1>3
      <3> HIDE DEF q, n
      <3> QED
        BY <1>3, <3>1, <3>2
    <2> HIDE DEF q
    <2>5. Back(n, p, j) < rotations
      <3>1. p \in 1..n /\ j \in 1..n
        BY <1>3
      <3> HIDE DEF n
      <3> QED
        BY <1>1, <1>3, <1>6, <1>8, <2>4, <3>1 DEF Back
    <2> QED
      BY <1>6, <2>2, <2>5
  <1> QED
    BY <1>7, <1>8

LEMMA NextRun == MixerInv /\ RunInv /\ [Next]_vars => RunInv'
  <1> SUFFICES ASSUME MixerInv, RunInv, [Next]_vars PROVE RunInv'
    OBVIOUS
  <1>1. CASE EndRun
    BY <1>1 DEF EndRun, RunInv
  <1>2. CASE UNCHANGED <<mixer, visited, rotations>>
    BY <1>2 DEF RunInv
  <1> QED
    BY <1>1, <1>2, RotateRun
    DEF Next, vars, CallSetModes, CallAddMode, CallRemoveMode, CallGetCurrentMask, CallUnwrap,
        CallSetCurrentMode, CallSwitchToDomain, CallSetSwitchInterval, Tick

\* As many ForceRotate calls in a row as the pool has modes pass through all of them.
THEOREM RotationCovers == Spec => []RotationCoversPool
  <1>1. Init => RunInv
    BY DEF Init, RunInv
  <1>2. MixerInv /\ RunInv => RotationCoversPool
    <2> SUFFICES ASSUME MixerInv, RunInv, rotations >= Len(mixer.modes), Distinct(mixer.modes),
                        NEW j \in DOMAIN mixer.modes
                 PROVE  mixer.modes[j] \in visited
      BY DEF RotationCoversPool, Pool
    <2>1. mixer.modes \in Seq(Modes) \ {<<>>} /\ rotations \in Nat
      BY CallsAssumption DEF MixerInv, TypeOK, MixerType
    <2> DEFINE n == Len(mixer.modes)
    <2>2. n \in Nat /\ n > 0 /\ DOMAIN mixer.modes = 1..n
      BY <2>1
    <2>3. rotations > 0
      BY <2>1, <2>2
    <2>4. PICK p \in DOMAIN mixer.modes :
            \A k \in DOMAIN mixer.modes : Back(n, p, k) < rotations => mixer.modes[k] \in visited
      BY <2>3 DEF RunInv
    <2>5. Back(n, p, j) < rotations
      BY <2>1, <2>2 DEF Back
    <2> QED
      BY <2>4, <2>5
  <1> QED
    BY <1>1, <1>2, NextRun, InitMixer, NextMixer, PTL DEF Spec

-----------------------------------------------------------------------------
(* The masks: slices *)

LEMMA SliceInside ==
    ASSUME NEW from \in Nat, NEW to \in Nat, NEW size \in Nat, from <= to, to <= size
    PROVE  Slice(from, to, size) = [from |-> from, to |-> to] /\ Slice(from, to, size) # Panic
  <1>1. Slice(from, to, size) = [from |-> from, to |-> to]
    BY DEF Slice
  <1>2. [from |-> from, to |-> to] # Panic
    BY DEF Panic
  <1> QED
    BY <1>1, <1>2

LEMMA RejectIsNoPanic == Reject # Panic
  BY DEF Reject, Panic

-----------------------------------------------------------------------------
(* What each Unwrap cuts out of a datagram of any size *)

LEMMA FixedCut ==
    ASSUME NEW h \in Nat, NEW size \in Nat
    PROVE  /\ FixedUnwrap(h, size) # Panic
           /\ h <= size => FixedUnwrap(h, size) = [from |-> h, to |-> size]
  <1>1. CASE size < h
    BY <1>1, RejectIsNoPanic DEF FixedUnwrap
  <1>2. CASE h <= size
    BY <1>2, SliceInside DEF FixedUnwrap
  <1> QED
    BY <1>1, <1>2

\* A length of 16 bits is never too large for an int.
LEMMA Uint16Small == ASSUME NEW n \in Nat PROVE Uint16(n) \in Nat /\ 28 + Uint16(n) < Half
  <1>1. Uint16(n) \in Nat /\ Uint16(n) <= 65535
    BY DEF Uint16
  <1>2. Half \in Nat /\ Half >= 1000000
    BY LengthsAssumption
  <1> QED
    BY <1>1, <1>2

LEMMA SizedCut ==
    ASSUME NEW h \in Nat, NEW says \in Nat, NEW padding \in Nat, NEW size \in Nat,
           h + says + padding < Half
    PROVE  /\ SizedUnwrap(h, says, padding, size) # Panic
           /\ h + says + padding <= size =>
                SizedUnwrap(h, says, padding, size) = [from |-> h, to |-> h + says]
  <1>0. SizedUnwrap(h, says, padding, size) =
          IF size < h \/ size < h + says + padding THEN Reject ELSE Slice(h, h + says, size)
    <2>1. AsInt(h + says) = h + says /\ AsInt(h + says + padding) = h + says + padding
      BY LengthsAssumption DEF AsInt
    <2> QED
      BY <2>1 DEF SizedUnwrap
  <1>1. CASE size < h + says + padding
    BY <1>0, <1>1, RejectIsNoPanic
  <1>2. CASE h + says + padding <= size
    <2>1. h + says \in Nat /\ h <= h + says /\ h + says <= size /\ ~(size < h)
      BY <1>2
    <2>2. SizedUnwrap(h, says, padding, size) = Slice(h, h + says, size)
      BY <1>0, <1>2, <2>1
    <2> QED
      BY <2>1, <2>2, SliceInside
  <1> QED
    BY <1>1, <1>2

LEMMA BrowserCut ==
    ASSUME NEW says \in Nat, 28 + says < Half, NEW tlsStart \in BOOLEAN, NEW size \in Nat
    PROVE  /\ BrowserUnwrap(says, tlsStart, size) # Panic
           /\ ~tlsStart /\ 14 + says <= size =>
                BrowserUnwrap(says, tlsStart, size) = [from |-> 14, to |-> 14 + says]
  <1>1. SizedUnwrap(14, says, 0, size) # Panic
        /\ (14 + says <= size => SizedUnwrap(14, says, 0, size) = [from |-> 14, to |-> 14 + says])
    BY SizedCut, LengthsAssumption
  <1>2. Slice(0, size, size) # Panic
    BY SliceInside
  <1> QED
    BY <1>1, <1>2, RejectIsNoPanic DEF BrowserUnwrap

LEMMA DoHCut ==
    ASSUME NEW blank \in Nat, NEW size \in Nat
    PROVE  /\ DoHUnwrap(blank, size) # Panic
           /\ blank # 0 /\ blank + 12 <= size =>
                DoHUnwrap(blank, size) = [from |-> blank + 12, to |-> size]
  <1>1. CASE blank = 0 \/ size < blank + 12
    BY <1>1, RejectIsNoPanic DEF DoHUnwrap
  <1>2. CASE ~(blank = 0 \/ size < blank + 12)
    <2>1. blank + 12 \in Nat /\ blank + 12 <= size
      BY <1>2
    <2> QED
      BY <1>2, <2>1, SliceInside DEF DoHUnwrap
  <1> QED
    BY <1>1, <1>2

\* A STUN message is cut where it says, or 8 bytes before; only then backwards.
LEMMA STUNCut ==
    ASSUME NEW says \in Nat, NEW n \in {says, says - 8}, NEW size \in Nat, size >= 20 + n,
           Slice(20, 20 + n, size) = Panic
    PROVE  says < 8
  <1> SUFFICES ASSUME says >= 8 PROVE FALSE
    OBVIOUS
  <1>1. 20 + n \in Nat /\ 20 <= 20 + n
    OBVIOUS
  <1> QED
    BY <1>1, SliceInside

LEMMA TLSCut ==
    ASSUME NEW kind, NEW says \in Nat, NEW size \in Nat
    PROVE  /\ TLSUnwrap(kind, says, size) # Panic
           /\ kind = "record" /\ says # 0 /\ 5 + says <= size =>
                TLSUnwrap(kind, says, size) = [from |-> 5, to |-> 5 + says]
  <1>1. CASE size < 5 \/ kind # "record" \/ size < 5 + says \/ says = 0
    BY <1>1, RejectIsNoPanic DEF TLSUnwrap
  <1>2. CASE ~(size < 5 \/ kind # "record" \/ size < 5 + says \/ says = 0)
    <2>1. 5 + says \in Nat /\ 5 <= 5 + says /\ 5 + says <= size
      BY <1>2
    <2> QED
      BY <1>2, <2>1, SliceInside DEF TLSUnwrap
  <1> QED
    BY <1>1, <1>2

\* Only a first byte of 0x14 makes WebRTCMask cut past the end, between 35 and 79 bytes.
LEMMA WebRTCCut ==
    ASSUME NEW kind, NEW says \in Nat, NEW size \in Nat, WebRTCUnwrap(kind, says, size) = Panic
    PROVE  kind = "srtp" /\ size \in 35..79
  <1>1. size >= 12
    BY RejectIsNoPanic DEF WebRTCUnwrap
  <1>2. /\ Slice(12, size, size) # Panic
        /\ size >= 16 + says => Slice(16 + says, size, size) # Panic
        /\ size >= 20 + says => Slice(20 + says, size, size) # Panic
        /\ size >= 77 => Slice(77, size, size) # Panic
        /\ size > 24 => Slice(24, size, size) # Panic
        /\ size >= 80 => Slice(80, size, size) # Panic
    BY <1>1, SliceInside
  <1> QED
    BY <1>1, <1>2, RejectIsNoPanic DEF WebRTCUnwrap

LEMMA QUICCut ==
    ASSUME NEW kind, NEW says \in Nat, NEW size \in Nat, kind # "quic" \/ 21 + says < Half
    PROVE  QUICUnwrap(kind, says, size) # Panic
  <1>1. CASE kind = "short"
    <2> DEFINE from == 13 + (1 + (says % 4))
    <2>1. from \in 14..17
      OBVIOUS
    <2>2. QUICShort(1 + (says % 4), size) =
            IF size > from + 16 THEN Slice(from, size - 16, size) ELSE Slice(from, size, size)
      BY DEF QUICShort
    <2> HIDE DEF from
    <2>3. size > from + 16 => Slice(from, size - 16, size) # Panic
      BY <2>1, SliceInside
    <2>4. size > 17 => Slice(from, size, size) # Panic
      BY <2>1, SliceInside
    <2> QED
      BY <1>1, <2>2, <2>3, <2>4, RejectIsNoPanic DEF QUICUnwrap
  <1>2. CASE kind # "short" /\ size < 21
    BY <1>2, RejectIsNoPanic DEF QUICUnwrap
  <1>3. CASE kind # "short" /\ size >= 21
    <2>1. QUICUnwrap(kind, says, size) = QUICLong(kind, says, size)
      BY <1>3 DEF QUICUnwrap
    <2>2. /\ Nothing(size) # Panic
          /\ size >= 21 + says => Slice(21, 21 + says, size) # Panic
          /\ size >= 37 => Slice(37, size, size) # Panic
          /\ size > 49 => Slice(49, size, size) # Panic
          /\ Slice(21, size, size) # Panic
      BY <1>3, SliceInside DEF Nothing
    <2>3. CASE kind = "quic"
      <3>1. AsInt(21 + says) = 21 + says
        BY <2>3, LengthsAssumption DEF AsInt
      <3>2. QUICLong(kind, says, size) =
              IF size < 21 + says THEN Nothing(size) ELSE Slice(21, 21 + says, size)
        BY <2>3, <3>1 DEF QUICLong
      <3> QED
        BY <2>1, <2>2, <3>2
    <2>4. CASE kind = "retry"
      BY <1>3, <2>1, <2>2, <2>4 DEF QUICLong
    <2>5. CASE kind \in {"frame", "bare"}
      <3>1. CASE size \in 26..36
        BY <2>1, <2>5, <3>1, RejectIsNoPanic DEF QUICLong
      <3>2. CASE size \notin 26..36 /\ kind = "bare"
        BY <1>3, <2>1, <2>2, <3>2 DEF QUICLong
      <3>3. CASE size \notin 26..36 /\ kind = "frame"
        <4>1. PICK from \in Nat : from = 40 + Uint16(says)
          BY Uint16Small
        <4>2. from < size => Slice(from, size, size) # Panic
          BY SliceInside
        <4>3. QUICLong(kind, says, size) =
                IF size \in 38..39 THEN Reject
                ELSE IF size = 37 \/ size > 39
                     THEN IF from < size THEN Slice(from, size, size) ELSE Nothing(size)
                ELSE IF size > 49 THEN Slice(49, size, size) ELSE Slice(21, size, size)
          BY <3>3, <4>1 DEF QUICLong
        <4> QED
          BY <1>3, <2>1, <2>2, <4>2, <4>3, RejectIsNoPanic
      <3> QED
        BY <2>5, <3>1, <3>2, <3>3
    <2>6. CASE kind \notin {"quic", "retry", "frame", "bare"}
      BY <1>3, <2>1, <2>2, <2>6 DEF QUICLong
    <2> QED
      BY <2>3, <2>4, <2>5, <2>6
  <1> QED
    BY <1>1, <1>2, <1>3

-----------------------------------------------------------------------------
(* What a stateless mask makes of its own packets *)

\* Fixed, name by name.
LEMMA FixedNames ==
    /\ Fixed = {"vk", "ozon", "wildberries", "sberid", "gosuslugi", "yandex", "zoom"}
    /\ \A f \in Fixed : FixedHeader[f] \in Nat
  <1>1. Fixed = {"vk", "ozon", "wildberries", "sberid", "gosuslugi", "yandex", "zoom"}
    BY DEF Fixed, FixedHeader
  <1>2. \A f \in Fixed : FixedHeader[f] \in Nat
    BY <1>1 DEF FixedHeader, VKHeader, OzonHeader, WildberriesHeader, SberIDHeader, GosuslugiHeader,
                YandexHeader, ZoomHeader
  <1> QED
    BY <1>1, <1>2

LEMMA BrowserFields ==
    ASSUME NEW n \in Nat, n <= 65535, NEW t \in Nat
    PROVE  [Data(14, n, t) EXCEPT !.says = Uint16(n)] = Data(14, n, t)
  <1> DEFINE w == 14 + n + t
  <1>1. Uint16(n) = n
    BY DEF Uint16
  <1>2. Data(14, n, t) = [head |-> 14, body |-> n, tail |-> t, says |-> n, writes |-> w,
                          kind |-> "data", carries |-> TRUE]
    BY DEF Data
  <1> HIDE DEF w
  <1> QED
    BY <1>1, <1>2

\* A packet that its own mask reads as it should.
Reads(p, slice, whole) ==
    /\ p.writes = Size(p) /\ Size(p) \in Nat
    /\ slice # Panic
    /\ whole => slice = [from |-> p.head, to |-> p.head + p.body]

LEMMA DataReads ==
    ASSUME NEW h \in Nat, NEW n \in Nat, NEW t \in Nat, NEW p, p = Data(h, n, t),
           NEW s, s # Panic, NEW whole \in BOOLEAN, whole => s = [from |-> h, to |-> h + n]
    PROVE  Reads(p, s, whole)
  <1>1. p.head = h /\ p.body = n /\ p.writes = Size(p) /\ Size(p) \in Nat
    BY DEF Data, Size
  <1> QED
    BY <1>1 DEF Reads

LEMMA StatelessOwn ==
    ASSUME mask \in Stateless \ {"stun"}, tlsID \in BOOLEAN,
           NEW n \in Nat, n <= 65535, NEW r \in Nat, NEW tlsPayload \in BOOLEAN
    PROVE  LET p == WrapOnce(n, r, tlsPayload) IN Reads(p, UnwrapOwn(p), ~tlsID \/ mask # "browser")
  <1> DEFINE p == WrapOnce(n, r, tlsPayload)
             s == UnwrapOwn(p)
             whole == ~tlsID \/ mask # "browser"
  <1> SUFFICES Reads(p, s, whole)
    OBVIOUS
  <1>1. n \in Nat /\ r % 32 \in Nat /\ r % 64 \in Nat /\ whole \in BOOLEAN
    OBVIOUS
  <1>h. 28 + n < Half /\ 24 + n + (r % 32) < Half /\ r % 32 \in Nat
    BY LengthsAssumption
  <1>2. CASE mask \in Fixed
    <2> DEFINE h == FixedHeader[mask]
    <2>1. h \in Nat
      BY <1>2, FixedNames
    <2>2. p = Data(h, n, 0) /\ s = FixedUnwrap(h, Size(p))
      <3>1. p = Data(h, n, 0)
        BY <1>2, FixedNames DEF WrapOnce
      <3>2. s = FixedUnwrap(h, Size(p))
        BY <1>2, FixedNames DEF UnwrapOwn
      <3> QED
        BY <3>1, <3>2
    <2> HIDE DEF h, p, s, whole
    <2>3. Size(p) = h + n
      BY <1>1, <2>1, <2>2 DEF Data, Size
    <2>4. s # Panic /\ s = [from |-> h, to |-> h + n]
      BY <1>1, <2>1, <2>2, <2>3, FixedCut
    <2> QED
      BY <1>1, <2>1, <2>2, <2>4, DataReads
  <1>3. CASE mask = "rutube"
    <2>1. p = Data(24, n, r % 32) /\ s = SizedUnwrap(24, p.says, p.tail, Size(p))
      BY <1>3, FixedNames DEF WrapOnce, UnwrapOwn, RuTubeWrap
    <2> HIDE DEF p, s, whole
    <2>2. p.says = n /\ p.tail = r % 32 /\ Size(p) = 24 + n + (r % 32)
      BY <1>1, <2>1 DEF Data, Size
    <2>3. s # Panic /\ s = [from |-> 24, to |-> 24 + n]
      BY <1>1, <1>h, <2>1, <2>2, SizedCut
    <2> QED
      BY <1>1, <2>1, <2>3, DataReads
  <1>4. CASE mask = "teams"
    <2> DEFINE t == IF n < 1400 THEN r % 64 ELSE 0
    <2>1. p = Data(28, n, t) /\ s = SizedUnwrap(28, p.says, 0, Size(p))
      BY <1>4, FixedNames DEF WrapOnce, UnwrapOwn, TeamsWrap
    <2>2. t \in Nat
      BY <1>1
    <2> HIDE DEF p, s, whole, t
    <2>3. p.says = n /\ Size(p) = 28 + n + t
      BY <1>1, <2>1, <2>2 DEF Data, Size
    <2>4. s # Panic /\ s = [from |-> 28, to |-> 28 + n]
      BY <1>1, <1>h, <2>1, <2>2, <2>3, SizedCut
    <2> QED
      BY <1>1, <2>1, <2>2, <2>4, DataReads
  <1>5. CASE mask = "winupdate"
    <2>1. p = Data(18, n, 0)
      BY <1>5, FixedNames DEF WrapOnce, WinUpdateWrap
    <2>u. s = WinUpdateUnwrap(p.kind, p.says, Size(p))
      BY <1>5, FixedNames DEF UnwrapOwn
    <2> HIDE DEF p, s, whole
    <2>2. p.says = n /\ Size(p) = 18 + n /\ p.kind = "data"
      BY <1>1, <2>1 DEF Data, Size
    <2>a. Size(p) \in Nat /\ 18 + n + 0 <= Size(p)
      BY <1>1, <2>2
    <2>b. s # Panic /\ s = SizedUnwrap(18, n, 0, Size(p))
      <3>1. s = WinUpdateUnwrap("data", n, Size(p))
        BY <2>u, <2>2
      <3>2. s = SizedUnwrap(18, n, 0, Size(p))
        BY <3>1 DEF WinUpdateUnwrap
      <3>3. SizedUnwrap(18, n, 0, Size(p)) # Panic
        BY <1>1, <1>h, <2>a, SizedCut, LengthsAssumption
      <3> QED
        BY <3>2, <3>3
    <2>3. s # Panic /\ s = [from |-> 18, to |-> 18 + n]
      BY <1>1, <1>h, <2>a, <2>b, SizedCut, LengthsAssumption
    <2> QED
      BY <1>1, <2>1, <2>3, DataReads
  <1>6. CASE mask = "browser"
    <2> DEFINE t == IF (tlsPayload /\ n >= 5) \/ n >= 1400 THEN 0 ELSE r % 32
    <2>1. t \in Nat
      BY <1>1
    <2>2. p = [Data(14, n, t) EXCEPT !.says = Uint16(n)] /\ s = BrowserUnwrap(p.says, tlsID, Size(p))
      BY <1>6, FixedNames DEF WrapOnce, UnwrapOwn, BrowserWrap
    <2>3. whole <=> ~tlsID
      BY <1>6
    <2> HIDE DEF p, s, whole, t
    <2>4. p = Data(14, n, t)
      <3>1. [Data(14, n, t) EXCEPT !.says = Uint16(n)] = Data(14, n, t)
        BY <2>1, BrowserFields
      <3> QED
        BY <2>2, <3>1
    <2>5. p.says = n /\ Size(p) = 14 + n + t
      BY <1>1, <2>1, <2>4 DEF Data, Size
    <2>6. s # Panic /\ (~tlsID => s = [from |-> 14, to |-> 14 + n])
      BY <1>1, <1>h, <2>1, <2>2, <2>5, BrowserCut
    <2>7. whole => s = [from |-> 14, to |-> 14 + n]
      BY <2>3, <2>6
    <2>8. p.head = 14 /\ p.body = n /\ p.writes = Size(p) /\ Size(p) \in Nat
      BY <1>1, <2>1, <2>4 DEF Data, Size
    <2> QED
      BY <2>6, <2>7, <2>8 DEF Reads
  <1>7. CASE mask = "doh"
    <2> DEFINE h == TextLen
    <2>1. h \in Nat /\ h # 0
      BY LengthsAssumption
    <2>2. p = Data(h + 12, n, 0) /\ s = DoHUnwrap(p.head - 12, Size(p))
      BY <1>7, FixedNames DEF WrapOnce, UnwrapOwn, DoHWrap
    <2> HIDE DEF p, s, whole, h
    <2>3. p.head - 12 = h /\ Size(p) = h + 12 + n
      BY <1>1, <2>1, <2>2 DEF Data, Size
    <2>4. s # Panic /\ s = [from |-> h + 12, to |-> h + 12 + n]
      BY <1>1, <2>1, <2>2, <2>3, DoHCut
    <2> QED
      BY <1>1, <2>1, <2>2, <2>4, DataReads
  <1> QED
    BY <1>2, <1>3, <1>4, <1>5, <1>6, <1>7 DEF Stateless

-----------------------------------------------------------------------------
(* The inductive invariant of the masks *)

MaskerType ==
    /\ mask \in MaskNames
    /\ tlsID \in BOOLEAN /\ (tlsID => mask = "browser")
    /\ step \in Nat /\ preface \in BOOLEAN /\ stream \in 0..3 /\ swallowed \in Nat

\* A WebRTCMask does not survive its third packet.
WebRTCSteps == mask = "webrtc" => step < 3 \/ (step = 3 /\ crashed = "wrap")

\* How many payloads a TLSMask has swallowed follows from where it is: one per packet
\* of its handshake, one for the preface, and one for each of the streams 1 and 2.
\* The IDs 3 and 0 then alternate.
TLSProgress ==
    mask = "tls" =>
        /\ step <= TLSSteps
        /\ preface => stream = 1 /\ swallowed = step
        /\ ~preface => /\ step = TLSSteps
                       /\ swallowed = TLSSteps + (IF stream = 1 THEN 1 ELSE IF stream = 2 THEN 2 ELSE 3)

MaskerInv == MaskerType /\ WebRTCSteps /\ TLSProgress /\ RoundTrip /\ PanicsKnown

LEMMA InitMasker == MaskerInit => MaskerInv
  <1> SUFFICES ASSUME MaskerInit PROVE MaskerInv
    OBVIOUS
  <1>1. MaskerType /\ WebRTCSteps
    BY DEF MaskerInit, MaskerType, WebRTCSteps
  <1>2. TLSProgress
    BY DEF MaskerInit, TLSProgress, TLSSteps
  <1>3. ~packet.carries
    BY DEF MaskerInit, Decoy
  <1>4. RoundTrip /\ PanicsKnown
    BY <1>3 DEF MaskerInit, RoundTrip, PanicsKnown
  <1> QED
    BY <1>1, <1>2, <1>4 DEF MaskerInv

-----------------------------------------------------------------------------
(* Wrap *)

\* What Emit leaves behind when the packet fits its buffer.
LEMMA EmitFits ==
    ASSUME NEW p, NEW buffer \in Nat, p.writes \in Nat, p.writes <= buffer, Emit(p, buffer)
    PROVE  /\ packet' = p /\ got' = UnwrapOwn(p)
           /\ crashed' = IF got' = Panic THEN "unwrap" ELSE "no"
           /\ swallowed' = IF p.carries THEN swallowed ELSE swallowed + 1
  BY DEF Emit

LEMMA StatelessStep ==
    ASSUME MaskerInv, NEW n \in Lengths, NEW r \in Bytes, NEW tlsPayload \in BOOLEAN,
           WrapStateless(n, r, tlsPayload)
    PROVE  MaskerInv'
  <1> DEFINE p == WrapOnce(n, r, tlsPayload)
  <1>1. /\ mask \in Stateless /\ UNCHANGED <<mask, tlsID, step, preface, stream>>
        /\ Emit(p, Size(p))
    BY DEF WrapStateless, maskVars
  <1>2. n \in Nat /\ n <= 65535 /\ r \in Nat
    BY LengthsAssumption
  <1>3. p.carries /\ swallowed' = swallowed
    <2>1. p.carries
      BY <1>1 DEF WrapOnce, Data, RuTubeWrap, TeamsWrap, WinUpdateWrap, BrowserWrap, DoHWrap, STUNWrap
    <2> QED
      BY <1>1, <2>1 DEF Emit
  <1>4. MaskerType' /\ WebRTCSteps' /\ TLSProgress'
    BY <1>1, <1>3, FixedNames DEF MaskerInv, MaskerType, WebRTCSteps, TLSProgress, Stateless
  <1>5. CASE mask = "stun"
    <2>1. p = STUNWrap(n)
      BY <1>5, FixedNames DEF WrapOnce
    <2>2. p.writes > Size(p)
      BY <1>2, <2>1 DEF STUNWrap, Data, Size
    <2>3. crashed' = "wrap" /\ mask' = "stun"
      BY <1>1, <1>5, <2>2 DEF Emit
    <2> QED
      BY <1>4, <2>3 DEF MaskerInv, RoundTrip, PanicsKnown
  <1>6. CASE mask # "stun"
    <2>1. tlsID \in BOOLEAN
      BY DEF MaskerInv, MaskerType
    <2>2. Reads(p, UnwrapOwn(p), ~tlsID \/ mask # "browser")
      BY <1>1, <1>2, <1>6, <2>1, StatelessOwn
    <2> HIDE DEF p
    <2>3. packet' = p /\ got' = UnwrapOwn(p) /\ crashed' = "no"
      BY <1>1, <2>2 DEF Emit, Reads
    <2>4. ~tlsID => got' = [from |-> p.head, to |-> p.head + p.body]
      BY <2>2, <2>3 DEF Reads
    <2>5. mask # "tls"
      BY <1>1, FixedNames DEF Stateless
    <2>6. RoundTrip'
      BY <1>1, <2>3, <2>4, <2>5 DEF RoundTrip, Payload
    <2> QED
      BY <1>4, <2>3, <2>6 DEF MaskerInv, PanicsKnown
  <1> QED
    BY <1>5, <1>6

\* Of the packets that only look like their protocol.
LEMMA DecoyFields ==
    ASSUME NEW size \in Nat, NEW says, NEW writes, NEW kind, NEW p, p = Decoy(size, says, writes, kind)
    PROVE  /\ ~p.carries /\ Size(p) = size /\ p.says = says /\ p.writes = writes /\ p.kind = kind
  BY DEF Decoy, Size

LEMMA WebRTCStep ==
    ASSUME MaskerInv, NEW n \in Lengths, NEW r \in Bytes, WrapWebRTC(n, r) PROVE MaskerInv'
  <1>1. /\ mask = "webrtc" /\ crashed = "no" /\ step \in 0..2 /\ tlsID = FALSE
        /\ UNCHANGED <<mask, tlsID, preface, stream>>
    BY DEF WrapWebRTC, maskVars, MaskerInv, MaskerType, WebRTCSteps
  <1> DEFINE p == WebRTCDecoy(step + 1, r)
  <1>2. step' = step + 1 /\ Emit(p, Size(p))
    BY <1>1 DEF WrapWebRTC
  <1>3. /\ step = 0 => p = Decoy(20, 0, 20, "stun")
        /\ step = 1 => p = Decoy(28, 8, 28, "stun")
        /\ step = 2 => p = Decoy(77, 0, 78, "dtls")
    BY <1>1 DEF WebRTCDecoy
  <1> HIDE DEF p
  <1>4. /\ ~p.carries
        /\ step \in 0..1 => p.writes = Size(p) /\ Size(p) \in Nat /\ p.kind = "stun" /\ p.says \in Nat
        /\ step = 2 => p.writes > Size(p)
    BY <1>1, <1>3, DecoyFields
  <1>5. packet' = p /\ swallowed' = swallowed + 1
    BY <1>2, <1>4 DEF Emit
  <1>6. CASE step \in 0..1
    <2>1. got' = UnwrapOwn(p) /\ crashed' = IF got' = Panic THEN "unwrap" ELSE "no"
      BY <1>2, <1>4, <1>6 DEF Emit
    <2>2. UnwrapOwn(p) = WebRTCUnwrap(p.kind, p.says, Size(p))
      BY <1>1, <1>4, <1>6, FixedNames DEF UnwrapOwn
    <2>3. crashed' = "no"
      BY <1>4, <1>6, <2>1, <2>2, WebRTCCut
    <2> QED
      BY <1>1, <1>2, <1>4, <1>5, <1>6, <2>3
      DEF MaskerInv, MaskerType, WebRTCSteps, TLSProgress, RoundTrip, PanicsKnown
  <1>7. CASE step = 2
    <2>1. crashed' = "wrap"
      BY <1>2, <1>4, <1>7 DEF Emit
    <2> QED
      BY <1>1, <1>2, <1>4, <1>5, <1>7, <2>1
      DEF MaskerInv, MaskerType, WebRTCSteps, TLSProgress, RoundTrip, PanicsKnown
  <1> QED
    BY <1>1, <1>6, <1>7

LEMMA QUICStep == ASSUME MaskerInv, WrapQUIC PROVE MaskerInv'
  <1> DEFINE p == QUICInitial
  <1>1. /\ mask = "quic" /\ step' = step + 1 /\ UNCHANGED <<mask, tlsID, preface, stream>>
        /\ Emit(p, Size(p))
    BY DEF WrapQUIC, maskVars
  <1>2. ~p.carries /\ p.writes > Size(p)
    BY DEF QUICInitial, Decoy, Size
  <1>3. packet' = p /\ crashed' = "wrap" /\ swallowed' = swallowed + 1
    BY <1>1, <1>2 DEF Emit
  <1> QED
    BY <1>1, <1>2, <1>3
    DEF MaskerInv, MaskerType, WebRTCSteps, TLSProgress, RoundTrip, PanicsKnown

-----------------------------------------------------------------------------
(* Wrap of a TLSMask *)

\* Its packets fit their buffers, and its Unwrap does not panic on them.
LEMMA TLSEmit ==
    ASSUME mask = "tls", NEW p, NEW buffer \in Nat, p.writes \in Nat, p.writes <= buffer,
           p.says \in Nat, Size(p) \in Nat, Emit(p, buffer)
    PROVE  /\ packet' = p /\ crashed' = "no" /\ got' = TLSUnwrap(p.kind, p.says, Size(p))
           /\ swallowed' = IF p.carries THEN swallowed ELSE swallowed + 1
  <1>1. UnwrapOwn(p) = TLSUnwrap(p.kind, p.says, Size(p))
    BY FixedNames DEF UnwrapOwn
  <1>2. UnwrapOwn(p) # Panic
    BY <1>1, TLSCut
  <1> QED
    BY <1>1, <1>2 DEF Emit

LEMMA TLSDecoyFits ==
    ASSUME NEW nth \in 1..6
    PROVE  LET p == TLSDecoy(nth)
           IN  /\ ~p.carries /\ p.says \in Nat /\ Size(p) \in Nat
               /\ p.writes \in Nat /\ TLSBuffer(nth) \in Nat /\ p.writes <= TLSBuffer(nth)
  <1> DEFINE p == TLSDecoy(nth)
  <1> SUFFICES /\ ~p.carries /\ p.says \in Nat /\ Size(p) \in Nat
               /\ p.writes \in Nat /\ TLSBuffer(nth) \in Nat /\ p.writes <= TLSBuffer(nth)
    OBVIOUS
  <1>1. TLSBuffer(nth) = IF nth = 1 THEN 200 ELSE Size(p)
    BY DEF TLSBuffer
  <1>2. CertLen \in Nat /\ Uint16(9 + CertLen) \in Nat
    BY LengthsAssumption DEF Uint16
  <1>3. CASE nth = 1
    <2>1. p = Decoy(104, 195, 200, "record")
      BY <1>3 DEF TLSDecoy
    <2> HIDE DEF p
    <2> QED
      BY <1>1, <1>3, <2>1, DecoyFields
  <1>4. CASE nth # 1
    <2>1. \E size \in Nat, says \in Nat : p = Decoy(size, says, size, "record")
      BY <1>2, <1>4 DEF TLSDecoy
    <2> HIDE DEF p
    <2> QED
      BY <1>1, <1>4, <2>1, DecoyFields
  <1> QED
    BY <1>3, <1>4

\* A record of a TLSMask that is past its handshake: it carries the payload exactly on
\* the streams other than 1 and 2, and is then read whole if its length fits 16 bits.
LEMMA TLSRecord ==
    ASSUME NEW n \in Nat, preface \in BOOLEAN, stream \in 0..3
    PROVE  LET p == TLSWrap(n, preface, stream)
           IN  /\ p.carries <=> ~preface /\ stream \notin {1, 2}
               /\ p.says \in Nat /\ Size(p) \in Nat /\ p.writes = Size(p)
               /\ p.carries => /\ p.kind = "record" /\ p.head = 14 /\ p.body \in Nat
                               /\ Size(p) = 14 + p.body /\ p.says = Uint16(9 + p.body)
  <1> DEFINE p == TLSWrap(n, preface, stream)
             Goal == /\ p.carries <=> ~preface /\ stream \notin {1, 2}
                     /\ p.says \in Nat /\ Size(p) \in Nat /\ p.writes = Size(p)
                     /\ p.carries => /\ p.kind = "record" /\ p.head = 14 /\ p.body \in Nat
                                     /\ Size(p) = 14 + p.body /\ p.says = Uint16(9 + p.body)
  <1> SUFFICES Goal
    OBVIOUS
  <1>1. CASE preface \/ stream \in {1, 2}
    <2>1. \E size \in Nat : p = EmptyRecord(size)
      BY <1>1 DEF TLSWrap, HTTP2Preface, HTTP2Frame
    <2>2. PICK size \in Nat : p = Decoy(5 + size, Uint16(size), 5 + size, "record")
      BY <2>1 DEF EmptyRecord
    <2> HIDE DEF p
    <2>3. ~p.carries /\ p.says = Uint16(size) /\ Size(p) = 5 + size /\ p.writes = 5 + size
      BY <2>2, DecoyFields
    <2>4. Uint16(size) \in Nat
      BY DEF Uint16
    <2> QED
      BY <1>1, <2>3, <2>4
  <1>2. CASE ~preface /\ stream \notin {1, 2}
    <2> DEFINE b == IF n = 0 THEN 100 ELSE n
    <2>1. b \in Nat
      OBVIOUS
    <2>2. p = [Data(14, b, 0) EXCEPT !.says = Uint16(9 + b), !.kind = "record"]
      BY <1>2 DEF TLSWrap, HTTP2Frame
    <2> HIDE DEF p, b
    <2>3. /\ p.carries /\ p.kind = "record" /\ p.head = 14 /\ p.body = b /\ p.tail = 0
          /\ p.says = Uint16(9 + b) /\ p.writes = 14 + b
      BY <2>1, <2>2 DEF Data
    <2>4. Uint16(9 + b) \in Nat
      BY <2>1 DEF Uint16
    <2> QED
      BY <1>2, <2>1, <2>3, <2>4 DEF Size
  <1> QED
    BY <1>1, <1>2

LEMMA TLSStep == ASSUME MaskerInv, NEW n \in Lengths, WrapTLS(n) PROVE MaskerInv'
  <1>1. mask = "tls" /\ UNCHANGED <<mask, tlsID>>
    BY DEF WrapTLS, maskVars
  <1>2. /\ MaskerType /\ step <= 6
        /\ preface => stream = 1 /\ swallowed = step
        /\ ~preface => /\ step = 6
                       /\ swallowed = 6 + (IF stream = 1 THEN 1 ELSE IF stream = 2 THEN 2 ELSE 3)
    BY <1>1 DEF MaskerInv, TLSProgress, TLSSteps
  <1>3. CASE step < TLSSteps
    <2> DEFINE p == TLSDecoy(step + 1)
    <2>1. step' = step + 1 /\ Emit(p, TLSBuffer(step + 1)) /\ UNCHANGED <<preface, stream>>
      BY <1>3 DEF WrapTLS
    <2>2. step + 1 \in 1..6 /\ preface
      BY <1>2, <1>3 DEF MaskerType, TLSSteps
    <2>3. /\ ~p.carries /\ p.says \in Nat /\ Size(p) \in Nat
          /\ p.writes \in Nat /\ TLSBuffer(step + 1) \in Nat /\ p.writes <= TLSBuffer(step + 1)
      BY <2>2, TLSDecoyFits
    <2> HIDE DEF p
    <2>4. packet' = p /\ crashed' = "no" /\ swallowed' = swallowed + 1
      BY <1>1, <2>1, <2>3, TLSEmit
    <2>5. MaskerType' /\ WebRTCSteps' /\ TLSProgress'
      BY <1>1, <1>2, <2>1, <2>2, <2>4 DEF MaskerType, WebRTCSteps, TLSProgress, TLSSteps
    <2> QED
      BY <2>3, <2>4, <2>5 DEF MaskerInv, RoundTrip, PanicsKnown
  <1>4. CASE ~(step < TLSSteps)
    <2> DEFINE p == TLSWrap(n, preface, stream)
    <2>1. /\ Emit(p, Size(p)) /\ preface' = FALSE /\ step' = step /\ step = 6
          /\ stream' = IF preface THEN stream ELSE TLSStream(stream)
      BY <1>2, <1>4 DEF WrapTLS, MaskerType, TLSSteps
    <2>2. n \in Nat
      BY LengthsAssumption
    <2>3. /\ p.carries <=> ~preface /\ stream \notin {1, 2}
          /\ p.says \in Nat /\ Size(p) \in Nat /\ p.writes = Size(p)
          /\ p.carries => /\ p.kind = "record" /\ p.head = 14 /\ p.body \in Nat
                          /\ Size(p) = 14 + p.body /\ p.says = Uint16(9 + p.body)
      BY <1>2, <2>2, TLSRecord DEF MaskerType
    <2> HIDE DEF p
    <2>4. /\ packet' = p /\ crashed' = "no" /\ got' = TLSUnwrap(p.kind, p.says, Size(p))
          /\ swallowed' = IF p.carries THEN swallowed ELSE swallowed + 1
      BY <1>1, <2>1, <2>3, TLSEmit
    <2>5. /\ stream = 1 => TLSStream(stream) = 2
          /\ stream = 2 => TLSStream(stream) = 3
          /\ stream = 3 => TLSStream(stream) = 0
          /\ stream = 0 => TLSStream(stream) = 3
      BY DEF TLSStream
    <2>6. MaskerType'
      <3>1. stream' \in 0..3
        BY <1>2, <2>1, <2>5 DEF MaskerType
      <3>2. swallowed' \in Nat
        BY <1>2, <2>4 DEF MaskerType
      <3>3. preface' \in BOOLEAN
        BY <2>1
      <3> QED
        BY <1>1, <1>2, <2>1, <3>1, <3>2, <3>3 DEF MaskerType
    <2>7. WebRTCSteps' /\ TLSProgress'
      <3>1. CASE preface
        <4>1. stream' = 1 /\ swallowed' = swallowed + 1 /\ swallowed = 6
          BY <1>2, <2>1, <2>3, <2>4, <3>1
        <4>2. ~preface' /\ stream' = 1 /\ swallowed' = 7
          BY <2>1, <4>1
        <4> QED
          BY <1>1, <2>1, <2>6, <4>2 DEF WebRTCSteps, TLSProgress, TLSSteps
      <3>2. CASE ~preface
        <4>1. swallowed' = IF stream \in {1, 2} THEN swallowed + 1 ELSE swallowed
          BY <2>3, <2>4, <3>2
        <4>2. stream' = TLSStream(stream)
          BY <2>1, <3>2
        <4>3. /\ stream' \in {2, 3, 0} /\ (stream' = 2 <=> stream = 1)
              /\ swallowed' = 6 + (IF stream' = 2 THEN 2 ELSE 3)
          BY <1>2, <2>5, <3>2, <4>1, <4>2 DEF MaskerType
        <4> QED
          BY <1>1, <2>1, <2>6, <4>3 DEF WebRTCSteps, TLSProgress, TLSSteps
      <3> QED
        BY <3>1, <3>2
    <2>8. ASSUME p.carries, p.body <= 65526
          PROVE  got'.from <= p.head /\ got'.to >= p.head + p.body
      <3>1. p.says = 9 + p.body
        BY <2>3, <2>8 DEF Uint16
      <3>2. got' = [from |-> 5, to |-> 14 + p.body]
        BY <2>3, <2>4, <2>8, <3>1, TLSCut
      <3> QED
        BY <2>3, <2>8, <3>2
    <2>9. mask' \notin Stateless
      BY <1>1, FixedNames DEF Stateless
    <2>10. RoundTrip'
      BY <2>4, <2>8, <2>9 DEF RoundTrip, Payload
    <2> QED
      BY <2>4, <2>7, <2>10, <2>6 DEF MaskerInv, PanicsKnown
  <1> QED
    BY <1>3, <1>4

-----------------------------------------------------------------------------
(* Unwrap of foreign datagrams *)

\* Which of them make which mask panic.
LEMMA ForeignCut ==
    ASSUME mask \in MaskNames, NEW size \in Nat, NEW says \in Nat, NEW look,
           NEW padding \in Nat, padding <= 65535,
           UnwrapOther(size, says, padding, look) = Panic
    PROVE  \/ mask = "webrtc" /\ look = "srtp" /\ size \in 35..79
           \/ mask = "stun" /\ Uint16(says) < 8
           \/ mask \in {"rutube", "teams", "winupdate"} /\ TooLarge(says)
           \/ mask = "quic" /\ look = "quic" /\ TooLarge(says)
  <1>1. mask \notin Fixed
    <2> SUFFICES ASSUME mask \in Fixed PROVE FALSE
      OBVIOUS
    <2>1. UnwrapOther(size, says, padding, look) = FixedUnwrap(FixedHeader[mask], size)
      BY FixedNames DEF UnwrapOther
    <2>2. FixedHeader[mask] \in Nat
      BY FixedNames
    <2> QED
      BY <2>1, <2>2, FixedCut
  <1>u. Uint16(says) \in Nat /\ 28 + Uint16(says) < Half
    BY Uint16Small
  <1>t. TooLarge(says) \/ (28 + says < Half /\ 24 + says + padding < Half)
    BY LengthsAssumption DEF TooLarge
  <1>2. mask \notin {"rutube", "teams", "winupdate"} \/ TooLarge(says)
    <2>1. ASSUME mask = "rutube" PROVE TooLarge(says)
      <3>1. SizedUnwrap(24, says, padding, size) = Panic
        BY <1>1, <2>1 DEF UnwrapOther
      <3> QED
        BY <1>t, <3>1, SizedCut
    <2>2. ASSUME mask = "teams" PROVE TooLarge(says)
      <3>1. SizedUnwrap(28, says, 0, size) = Panic
        BY <1>1, <2>2 DEF UnwrapOther
      <3>2. 28 + says < Half => 28 + says + 0 < Half
        BY LengthsAssumption
      <3> QED
        BY <1>t, <3>1, <3>2, SizedCut
    <2>3. ASSUME mask = "winupdate" PROVE TooLarge(says)
      <3>1. WinUpdateUnwrap(look, says, size) = Panic
        BY <1>1, <2>3 DEF UnwrapOther
      <3>2. SizedUnwrap(18, says, 0, size) = Panic
        BY <3>1, RejectIsNoPanic DEF WinUpdateUnwrap
      <3>3. 28 + says < Half => 18 + says + 0 < Half
        BY LengthsAssumption
      <3> QED
        BY <1>t, <3>2, <3>3, SizedCut
    <2> QED
      BY <2>1, <2>2, <2>3
  <1>3. mask # "browser"
    <2> SUFFICES ASSUME mask = "browser" PROVE FALSE
      OBVIOUS
    <2>1. BrowserUnwrap(Uint16(says), look = "marked", size) = Panic
      BY <1>1 DEF UnwrapOther
    <2>2. SizedUnwrap(14, Uint16(says), 0, size) = Panic \/ Slice(0, size, size) = Panic
      BY <2>1, RejectIsNoPanic DEF BrowserUnwrap
    <2>3. 14 + Uint16(says) + 0 < Half
      BY <1>u, LengthsAssumption
    <2> QED
      BY <1>u, <2>2, <2>3, SizedCut, SliceInside
  <1>4. mask # "doh"
    <2> SUFFICES ASSUME mask = "doh" PROVE FALSE
      OBVIOUS
    <2>1. PICK blank \in Nat : DoHUnwrap(blank, size) = Panic
      BY <1>1 DEF UnwrapOther
    <2> QED
      BY <2>1, DoHCut
  <1>5. mask # "tls"
    BY <1>1, <1>u, TLSCut DEF UnwrapOther
  <1>6. mask # "quic" \/ (look = "quic" /\ TooLarge(says))
    <2>1. 28 + says < Half => 21 + says < Half
      BY LengthsAssumption
    <2> QED
      BY <1>1, <1>t, <2>1, QUICCut DEF UnwrapOther
  <1>7. CASE mask = "webrtc"
    BY <1>1, <1>u, <1>7, WebRTCCut DEF UnwrapOther
  <1>8. CASE mask = "stun"
    <2>1. STUNUnwrap(Uint16(says), look = "marked", size) = Panic
      BY <1>1, <1>8 DEF UnwrapOther
    <2>2. PICK n \in {Uint16(says), Uint16(says) - 8} :
            Panic = IF size < 20 \/ size < 20 + n THEN Reject ELSE Slice(20, 20 + n, size)
      BY <2>1 DEF STUNUnwrap
    <2>3. size >= 20 + n /\ Slice(20, 20 + n, size) = Panic
      BY <1>u, <2>2, RejectIsNoPanic
    <2>4. Uint16(says) < 8
      BY <1>u, <2>3, STUNCut
    <2> QED
      BY <1>8, <2>4
  <1> QED
    BY <1>1, <1>2, <1>3, <1>4, <1>5, <1>6, <1>7, <1>8 DEF MaskNames, Stateless

LEMMA ForeignStep ==
    ASSUME MaskerInv, NEW size \in Sizes, NEW says \in Says, NEW padding \in Paddings, NEW look,
           UnwrapForeign(size, says, padding, look)
    PROVE  MaskerInv'
  <1>1. /\ packet' = Decoy(size, says, size, look)
        /\ got' = UnwrapOther(size, says, padding, look)
        /\ crashed' = IF got' = Panic THEN "unwrap" ELSE "no"
        /\ crashed = "no" /\ UNCHANGED <<mask, tlsID, step, preface, stream, swallowed>>
    BY DEF UnwrapForeign, maskVars
  <1>2. /\ size \in Nat /\ says \in Nat /\ mask \in MaskNames
        /\ padding \in Nat /\ padding <= 65535
    BY LengthsAssumption DEF MaskerInv, MaskerType
  <1>3. /\ ~packet'.carries /\ Size(packet') = size
        /\ packet'.says = says /\ packet'.kind = look
    BY <1>1, <1>2, DecoyFields
  <1>4. MaskerType' /\ WebRTCSteps' /\ TLSProgress'
    BY <1>1 DEF MaskerInv, MaskerType, WebRTCSteps, TLSProgress
  <1>5. RoundTrip'
    BY <1>3 DEF RoundTrip
  <1>6. PanicsKnown'
    BY <1>1, <1>2, <1>3, ForeignCut DEF PanicsKnown, TooLarge
  <1> QED
    BY <1>4, <1>5, <1>6 DEF MaskerInv

LEMMA NextMasker == MaskerInv /\ [MaskerNext]_maskerVars => MaskerInv'
  <1>1. MaskerInv /\ UNCHANGED maskerVars => MaskerInv'
    BY DEF maskerVars, maskVars, MaskerInv, MaskerType, WebRTCSteps, TLSProgress, RoundTrip,
           PanicsKnown, TooLarge, Payload, Size
  <1> QED
    BY <1>1, StatelessStep, WebRTCStep, TLSStep, QUICStep, ForeignStep DEF MaskerNext

-----------------------------------------------------------------------------
(* The properties of the masks *)

\* The inductive invariant holds in every reachable state.
THEOREM MaskerInvariant == MaskerSpec => []MaskerInv
  BY InitMasker, NextMasker, PTL DEF MaskerSpec

\* Unwrap gives back what Wrap was given, for payloads of any length up to 65535 and any
\* random padding, by every mask that gets that far.
THEOREM PayloadsReturn == MaskerSpec => []RoundTrip
  <1>1. MaskerInv => RoundTrip
    BY DEF MaskerInv
  <1> QED
    BY <1>1, MaskerInvariant, PTL

\* A TLSMask swallows at most nine payloads, however long it is used.
THEOREM NineSwallowed == MaskerSpec => []SwallowsNine
  <1>1. MaskerInv => SwallowsNine
    BY DEF MaskerInv, MaskerType, TLSProgress, TLSSteps, SwallowsNine
  <1> QED
    BY <1>1, MaskerInvariant, PTL

\* No call of Wrap or Unwrap leaves its buffer but the ones PanicsKnown lists, for
\* foreign datagrams of any size that say anything about their length, whatever the
\* width of an int; in a 64-bit build, where no length of 32 bits is too large, Unwrap
\* panics in WebRTCMask and STUNMask only.
THEOREM PanicsListed == MaskerSpec => []PanicsKnown
  <1>1. MaskerInv => PanicsKnown
    BY DEF MaskerInv
  <1> QED
    BY <1>1, MaskerInvariant, PTL
===============================================================================
