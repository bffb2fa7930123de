----------------------------- MODULE InputProofs -----------------------------
(***************************************************************************)
(* Proofs about the input of the remote: keys, the touch device and the    *)
(* slider on the screen.                                                   *)
(*                                                                         *)
(* InputController, for every set of views, scopes and keys: no scope is   *)
(* left with a key that is up except in the known ways, a press runs one   *)
(* action, and the hold of the power key ends with the key.                *)
(*                                                                         *)
(* TouchDevice, for every set of positions and every size of the kernel's  *)
(* buffer: the driver implements TouchStream and hands out the last        *)
(* position of a touch before its release.  The inductive invariant says   *)
(* that the outputs that wait are a legal continuation of the signals      *)
(* emitted so far, that the filter's m_touching agrees with the last of    *)
(* them, and that a position not handed out yet is pending.                *)
(*                                                                         *)
(* TouchSlider, for every set of values: whether a release ends what its   *)
(* press began follows from the order of the signals, which the device     *)
(* keeps; during a touch that was accepted the slider is active.           *)
(***************************************************************************)
EXTENDS InputController, TouchDevice, TouchSlider, TLAPS

-----------------------------------------------------------------------------
(* Keys                                                                    *)

\* A scope that regards a key as held is the recorded owner of the key, or sees every release,
\* or missed its release.
ReceiverIsKnown ==
  \A p \in repeats : \/ p[1] \in Overriding
                     \/ keyOwner[p[2]] = p[1]
                     \/ p \in swallowed \cup strayed

FreshTimers == \A p \in timers : ran[p] = 0

PowerInv == PowerHoldIsReal /\ (blocked => ~powerPressed)

IInv ==
  /\ alive \subseteq Views
  /\ KeysTypeOK
  /\ NoStuckKey
  /\ ReceiverIsKnown
  /\ OneActionPerPress
  /\ FreshTimers
  /\ PowerInv

\* What keys and scopes consist of: a step that leaves it alone keeps the invariant.
keyState == <<alive, keyOwner, deferred, blocked, power, handlers, held, history>>

LEMMA InitIInv == Init => IInv
<1> SUFFICES ASSUME Init PROVE IInv
  OBVIOUS
<1>1. ran = [p \in Scopes \X Keys |-> 0]
  BY DEF Init
<1>2. ran \in [Scopes \X Keys -> 0..2] /\ OneActionPerPress
  BY <1>1 DEF OneActionPerPress
<1>3. keyOwner \in [Keys -> Views \cup {None}]
  BY DEF Init
<1>4. repeats = {} /\ timers = {} /\ swallowed = {} /\ strayed = {}
  BY DEF Init
<1>5. KeysTypeOK
  BY <1>2, <1>3, <1>4 DEF Init, KeysTypeOK
<1>6. NoStuckKey /\ ReceiverIsKnown /\ FreshTimers
  BY <1>4 DEF NoStuckKey, ReceiverIsKnown, FreshTimers
<1>7. alive \subseteq Views /\ PowerInv
  BY DEF Init, PowerInv, PowerHoldIsReal
<1> QED BY <1>2, <1>5, <1>6, <1>7 DEF IInv

LEMMA KeysKeepInv == IInv /\ UNCHANGED keyState => IInv'
  BY DEF keyState, power, handlers, history, IInv, KeysTypeOK, NoStuckKey, ReceiverIsKnown,
         OneActionPerPress, FreshTimers, PowerInv, PowerHoldIsReal

\* Who is in front is a view, or nobody.
LEMMA FrontIsLive ==
  ASSUME alive \subseteq Views
  PROVE  InFront \in alive \cup {None} /\ \A v : Live(v) # None => v \in alive
  BY DEF InFront, Live

\* A press makes the scopes that see it regard the key as held; whoever did so already is not
\* disturbed, and a new long-press timer starts with nothing run.
LEMMA PressEffect ==
  ASSUME KeysTypeOK, OneActionPerPress, FreshTimers, alive \subseteq Views,
         NEW k \in Keys, NEW o \in alive \cup {None}, PressFor(o, k)
  PROVE  /\ repeats' = repeats \cup (Receivers(o) \X {k})
         /\ repeats' \subseteq (alive \cup Overriding) \X Keys
         /\ timers' \subseteq LongPress \cap repeats'
         /\ ran' \in [Scopes \X Keys -> 0..2]
         /\ \A p \in Scopes \X Keys : ran'[p] <= 1
         /\ \A p \in timers' : ran'[p] = 0
<1> DEFINE first == (Receivers(o) \X {k}) \ repeats
<1>1. /\ repeats' = repeats \cup first
      /\ timers' = timers \cup (first \cap LongPress)
      /\ ran' = [p \in DOMAIN ran |-> IF p \in first THEN 0 ELSE ran[p]]
  BY DEF PressFor
<1>2. Receivers(o) \subseteq alive \cup Overriding
  BY ScopesAssumption DEF Receivers, Scopes
<1>3. first \subseteq (alive \cup Overriding) \X Keys
  BY <1>2
<1>4. ran \in [Scopes \X Keys -> 0..2] /\ DOMAIN ran = Scopes \X Keys
  BY DEF KeysTypeOK
<1>5. (alive \cup Overriding) \X Keys \subseteq Scopes \X Keys
  BY DEF Scopes
<1>6. /\ repeats' = repeats \cup (Receivers(o) \X {k})
      /\ repeats' \subseteq (alive \cup Overriding) \X Keys
      /\ timers' \subseteq LongPress \cap repeats'
  BY <1>1, <1>3 DEF KeysTypeOK
<1> HIDE DEF first
<1>7. ran' \in [Scopes \X Keys -> 0..2] /\ \A p \in Scopes \X Keys : ran'[p] <= 1
  BY <1>1, <1>4 DEF OneActionPerPress
<1>8. ASSUME NEW p \in timers' PROVE ran'[p] = 0
  <2>1. p \in Scopes \X Keys
    BY <1>5, <1>6
  <2>2. CASE p \in first
    BY <1>1, <1>4, <2>1, <2>2
  <2>3. CASE p \notin first
    BY <1>1, <1>4, <2>1, <2>3 DEF FreshTimers
  <2> QED BY <2>2, <2>3
<1> QED BY <1>6, <1>7, <1>8

\* A release takes the key off the scopes that see it, with their timers, and runs the short
\* action of those whose timer was still running.
LEMMA ReleaseEffect ==
  ASSUME KeysTypeOK, OneActionPerPress, FreshTimers, alive \subseteq Views,
         NEW k \in Keys, NEW o \in alive \cup {None}, ReleaseFor(o, k)
  PROVE  /\ repeats' = repeats \ (Receivers(o) \X {k})
         /\ swallowed' = swallowed \ (Receivers(o) \X {k})
         /\ strayed' = strayed \ (Receivers(o) \X {k})
         /\ timers' \subseteq LongPress \cap repeats'
         /\ ran' \in [Scopes \X Keys -> 0..2]
         /\ \A p \in Scopes \X Keys : ran'[p] <= 1
         /\ \A p \in timers' : ran'[p] = 0
<1> DEFINE these == Receivers(o) \X {k}
<1>1. /\ repeats' = repeats \ these
      /\ timers' = timers \ these
      /\ ran' = Counted(timers \cap these)
      /\ swallowed' = swallowed \ these /\ strayed' = strayed \ these
  BY DEF ReleaseFor
<1>2. ran \in [Scopes \X Keys -> 0..2] /\ DOMAIN ran = Scopes \X Keys
  BY DEF KeysTypeOK
<1>3. timers \subseteq LongPress \cap repeats /\ repeats \subseteq Scopes \X Keys
  BY DEF KeysTypeOK, Scopes
<1> HIDE DEF these
<1>4. \A p \in Scopes \X Keys :
        ran'[p] = IF p \in timers \cap these /\ ran[p] < 2 THEN ran[p] + 1 ELSE ran[p]
  BY <1>1, <1>2 DEF Counted
<1>5. ran' \in [Scopes \X Keys -> 0..2]
  BY <1>1, <1>2 DEF Counted
<1>6. \A p \in Scopes \X Keys : ran'[p] <= 1
  BY <1>2, <1>4 DEF OneActionPerPress, FreshTimers
<1>7. \A p \in timers' : ran'[p] = 0
  BY <1>1, <1>2, <1>3, <1>4 DEF FreshTimers
<1> QED BY <1>1, <1>3, <1>5, <1>6, <1>7 DEF these

\* Delivering the release of a key reaches every scope that still waits for it.
LEMMA EmitKeepsIInv ==
  ASSUME IInv, NEW k \in Keys, EmitKeyRelease(k), UNCHANGED <<alive, blocked>>,
         held' \in {held, held \ {k}}, deferred' = deferred \ {k}
  PROVE  IInv'
<1> DEFINE o == IF Live(keyOwner[k]) # None THEN keyOwner[k] ELSE InFront
           these == Receivers(o) \X {k}
<1>1. ReleaseFor(o, k)
  BY DEF EmitKeyRelease
<1>2. o \in alive \cup {None}
  BY FrontIsLive DEF IInv
<1> HIDE DEF o
<1>3. /\ repeats' = repeats \ these
      /\ swallowed' = swallowed \ these /\ strayed' = strayed \ these
      /\ timers' \subseteq LongPress \cap repeats'
      /\ ran' \in [Scopes \X Keys -> 0..2]
      /\ OneActionPerPress' /\ FreshTimers'
  BY <1>1, <1>2, ReleaseEffect DEF IInv, OneActionPerPress, FreshTimers
<1>4. keyOwner' = [keyOwner EXCEPT ![k] = None]
  BY DEF EmitKeyRelease
<1>5. keyOwner \in [Keys -> Views \cup {None}] /\ keyOwner' \in [Keys -> Views \cup {None}]
  BY <1>4 DEF IInv, KeysTypeOK
<1>6. power' = <<powerPressed /\ k # Power, powerTimer /\ k # Power>>
  BY DEF EmitKeyRelease, power
<1>7. KeysTypeOK'
  <2>1. powerPressed' \in BOOLEAN /\ powerTimer' \in BOOLEAN
    BY DEF EmitKeyRelease
  <2> QED BY <1>3, <1>5, <2>1 DEF IInv, KeysTypeOK
<1>8. ASSUME NEW p \in repeats', p[2] = k PROVE p \in swallowed' \cup strayed'
  <2>1. p \in repeats /\ p \notin these /\ p \in (alive \cup Overriding) \X Keys
    BY <1>3 DEF IInv, KeysTypeOK
  <2>2. p = <<p[1], k>> /\ p[1] \notin Receivers(o)
    BY <1>8, <2>1
  <2>3. p[1] \notin Overriding /\ p[1] # o /\ p[1] \in alive
    BY <2>1, <2>2 DEF Receivers, Scopes, IInv
  <2>4. keyOwner[k] # p[1]
    <3> SUFFICES ASSUME keyOwner[k] = p[1] PROVE FALSE
      OBVIOUS
    <3>1. keyOwner[k] \in alive /\ keyOwner[k] # None
      BY <2>3, ScopesAssumption DEF IInv, Scopes
    <3>2. o = keyOwner[k]
      BY <3>1 DEF o, Live
    <3> QED BY <2>3, <3>2
  <2>5. p \in swallowed \cup strayed
    BY <1>8, <2>1, <2>3, <2>4 DEF IInv, ReceiverIsKnown
  <2> QED BY <1>3, <2>1, <2>5
<1>9. NoStuckKey'
  <2> SUFFICES ASSUME NEW p \in repeats', p[2] # k
               PROVE  p[2] \in held' \cup deferred' \/ p \in swallowed' \cup strayed'
    BY <1>8 DEF NoStuckKey
  <2>1. p \in repeats /\ p \notin these
    BY <1>3
  <2> QED BY <1>3, <2>1 DEF IInv, NoStuckKey
<1>10. ReceiverIsKnown'
  <2> SUFFICES ASSUME NEW p \in repeats', p[2] # k
               PROVE  \/ p[1] \in Overriding
                      \/ keyOwner'[p[2]] = p[1]
                      \/ p \in swallowed' \cup strayed'
    BY <1>8 DEF ReceiverIsKnown
  <2>1. p \in repeats /\ p \notin these /\ p[2] \in Keys
    BY <1>3 DEF IInv, KeysTypeOK
  <2>2. keyOwner'[p[2]] = keyOwner[p[2]]
    BY <1>4, <1>5, <2>1
  <2> QED BY <1>3, <2>1, <2>2 DEF IInv, ReceiverIsKnown
<1>11. PowerInv'
  <2>1. powerPressed' = (powerPressed /\ k # Power) /\ powerTimer' = (powerTimer /\ k # Power)
    BY DEF EmitKeyRelease
  <2>2. powerTimer' => powerPressed'
    BY <2>1 DEF IInv, PowerInv, PowerHoldIsReal
  <2>3. powerPressed' => Power \in held' \cup deferred'
    BY <2>1 DEF IInv, PowerInv, PowerHoldIsReal
  <2>4. blocked' => ~powerPressed'
    BY <2>1 DEF IInv, PowerInv
  <2> QED BY <2>2, <2>3, <2>4 DEF PowerInv, PowerHoldIsReal
<1> QED BY <1>3, <1>7, <1>9, <1>10, <1>11 DEF IInv

\* The first press of a hold is recorded, and a deferred release it cancels is accounted for.
LEMMA PressKeepsIInv ==
  ASSUME IInv, NEW k \in Keys, KeyPress(k)
  PROVE  IInv'
<1> DEFINE these == Receivers(InFront) \X {k}
<1>1. CASE blocked
  <2>1. /\ held' = held \cup {k}
        /\ UNCHANGED <<alive, keyOwner, deferred, blocked, power, handlers, history>>
    BY <1>1 DEF KeyPress, views
  <2> QED BY <2>1 DEF power, handlers, history, IInv, KeysTypeOK, NoStuckKey, ReceiverIsKnown,
                      OneActionPerPress, FreshTimers, PowerInv, PowerHoldIsReal
<1>2. CASE ~blocked
  <2>1. /\ held' = held \cup {k} /\ deferred' = deferred \ {k}
        /\ keyOwner' = [keyOwner EXCEPT ![k] = InFront]
        /\ powerPressed' = (powerPressed \/ k = Power)
        /\ powerTimer' = (powerTimer \/ (k = Power /\ ~powerPressed))
        /\ PressFor(InFront, k)
        /\ swallowed' = swallowed \ these
        /\ strayed' = IF k \in deferred
                      THEN (strayed \cup (repeats \cap (Scopes \X {k}))) \ these
                      ELSE strayed \ these
        /\ UNCHANGED <<alive, blocked>> /\ k \notin held
    BY <1>2 DEF KeyPress, views
  <2>2. InFront \in alive \cup {None}
    BY FrontIsLive DEF IInv
  <2>3. /\ repeats' = repeats \cup these
        /\ repeats' \subseteq (alive \cup Overriding) \X Keys
        /\ timers' \subseteq LongPress \cap repeats'
        /\ ran' \in [Scopes \X Keys -> 0..2]
        /\ OneActionPerPress' /\ FreshTimers'
    BY <2>1, <2>2, PressEffect DEF IInv, OneActionPerPress, FreshTimers
  <2>4. keyOwner \in [Keys -> Views \cup {None}] /\ keyOwner' \in [Keys -> Views \cup {None}]
    BY <2>1, <2>2 DEF IInv, KeysTypeOK
  <2>5. KeysTypeOK'
    BY <2>1, <2>3, <2>4 DEF IInv, KeysTypeOK
  <2>6. NoStuckKey'
    BY <2>1, <2>3 DEF IInv, NoStuckKey, KeysTypeOK
  <2>7. ReceiverIsKnown'
    <3> SUFFICES ASSUME NEW p \in repeats'
                 PROVE  \/ p[1] \in Overriding
                        \/ keyOwner'[p[2]] = p[1]
                        \/ p \in swallowed' \cup strayed'
      BY DEF ReceiverIsKnown
    <3>1. p \in (alive \cup Overriding) \X Keys
      BY <2>3
    <3>2. CASE p \in these
      <4>1. p[2] = k /\ (p[1] = InFront \/ p[1] \in Overriding)
        BY <3>2 DEF Receivers
      <4> QED BY <2>1, <2>4, <4>1
    <3>3. CASE p \notin these /\ p[2] # k
      <4>1. keyOwner'[p[2]] = keyOwner[p[2]]
        BY <2>1, <2>4, <3>1, <3>3
      <4> QED BY <2>1, <2>3, <3>3, <4>1 DEF IInv, ReceiverIsKnown
    <3>4. CASE p \notin these /\ p[2] = k
      <4>1. p \in repeats /\ p \in Scopes \X {k}
        BY <2>3, <3>1, <3>4 DEF Scopes, IInv
      <4>2. k \in deferred \/ p \in swallowed \cup strayed
        BY <2>1, <3>4, <4>1 DEF IInv, NoStuckKey
      <4> QED BY <2>1, <3>4, <4>1, <4>2
    <3> QED BY <3>2, <3>3, <3>4
  <2>8. PowerInv'
    BY <1>2, <2>1 DEF IInv, PowerInv, PowerHoldIsReal
  <2> QED BY <2>1, <2>3, <2>5, <2>6, <2>7, <2>8 DEF IInv
<1> QED BY <1>1, <1>2

\* An auto-repeat press goes to the recorded owner, or makes whoever is in front stray.
LEMMA RepeatKeepsIInv ==
  ASSUME IInv, NEW k \in Keys, AutoRepeatPress(k)
  PROVE  IInv'
<1> DEFINE o == IF Live(keyOwner[k]) # None THEN keyOwner[k] ELSE InFront
           these == Receivers(o) \X {k}
<1>1. /\ k \in held /\ deferred' = deferred \ {k}
      /\ PressFor(o, k)
      /\ UNCHANGED <<alive, keyOwner, blocked, power, held>>
  BY DEF AutoRepeatPress, views
<1>2. /\ swallowed' = swallowed
      /\ strayed' = IF Live(keyOwner[k]) # None
                    THEN strayed ELSE strayed \cup ((Views \cap {InFront}) \X {k})
  BY DEF AutoRepeatPress, history
<1>3. o \in alive \cup {None}
  BY FrontIsLive DEF IInv
<1>4. /\ repeats' = repeats \cup these
      /\ repeats' \subseteq (alive \cup Overriding) \X Keys
      /\ timers' \subseteq LongPress \cap repeats'
      /\ ran' \in [Scopes \X Keys -> 0..2]
      /\ OneActionPerPress' /\ FreshTimers'
  <2> HIDE DEF o
  <2> QED BY <1>1, <1>3, PressEffect DEF IInv, OneActionPerPress, FreshTimers
<1>5. strayed' \subseteq repeats'
  <2>1. Live(keyOwner[k]) = None => (Views \cap {InFront}) \X {k} \subseteq these
    BY DEF Receivers, Scopes
  <2> QED BY <1>2, <1>4, <2>1 DEF IInv, KeysTypeOK
<1>6. KeysTypeOK'
  <2> HIDE DEF o
  <2> QED BY <1>1, <1>2, <1>4, <1>5 DEF IInv, KeysTypeOK, power
<1>7. NoStuckKey'
  <2> HIDE DEF o
  <2>1. ASSUME NEW p \in these PROVE p[2] = k
    OBVIOUS
  <2> QED BY <1>1, <1>2, <1>4, <2>1 DEF IInv, NoStuckKey
<1>8. ReceiverIsKnown'
  <2> SUFFICES ASSUME NEW p \in these
               PROVE  \/ p[1] \in Overriding
                      \/ keyOwner[p[2]] = p[1]
                      \/ p \in swallowed' \cup strayed'
    <3> HIDE DEF o
    <3> QED BY <1>1, <1>2, <1>4 DEF IInv, ReceiverIsKnown
  <2>1. p = <<p[1], k>> /\ (p[1] \in Overriding \/ (p[1] = o /\ o \in Scopes))
    BY DEF Receivers
  <2>2. CASE p[1] \in Overriding
    BY <2>2
  <2>3. CASE p[1] = o /\ Live(keyOwner[k]) # None
    BY <2>1, <2>3
  <2>4. CASE p[1] = o /\ o \in Scopes /\ Live(keyOwner[k]) = None
    <3>1. p[1] = InFront /\ InFront \in Views
      BY <2>4, <1>3, ScopesAssumption DEF IInv
    <3> QED BY <1>2, <2>1, <2>4, <3>1
  <2> QED BY <2>1, <2>2, <2>3, <2>4
<1>9. PowerInv'
  BY <1>1 DEF IInv, PowerInv, PowerHoldIsReal, power
<1> QED BY <1>1, <1>4, <1>6, <1>7, <1>8, <1>9 DEF IInv

\* The button navigation of a destroyed view is gone with what it regarded as held.
LEMMA DestroyedKeepsIInv ==
  ASSUME IInv, NEW v \in Views, OwnerDestroyed(v)
  PROVE  IInv'
<1>1. /\ alive' = alive \ {v}
      /\ repeats' = repeats \ ({v} \X Keys) /\ timers' = timers \ ({v} \X Keys)
      /\ swallowed' = swallowed \ ({v} \X Keys) /\ strayed' = strayed \ ({v} \X Keys)
      /\ UNCHANGED <<ran, keyOwner, deferred, blocked, power, held>>
  BY DEF OwnerDestroyed, Keep
<1>2. repeats' \subseteq (alive' \cup Overriding) \X Keys
  BY <1>1 DEF IInv, KeysTypeOK
<1>3. KeysTypeOK'
  BY <1>1, <1>2 DEF IInv, KeysTypeOK, power
<1>4. NoStuckKey' /\ ReceiverIsKnown'
  BY <1>1 DEF IInv, NoStuckKey, ReceiverIsKnown
<1> QED BY <1>1, <1>3, <1>4
        DEF IInv, OneActionPerPress, FreshTimers, PowerInv, PowerHoldIsReal, power

LEMMA LongPressKeepsIInv ==
  ASSUME IInv, NEW p \in timers, LongPressTimeout(p)
  PROVE  IInv'
<1>1. /\ timers' = timers \ {p} /\ ran' = Counted({p})
      /\ UNCHANGED <<alive, repeats, history, keyOwner, deferred, blocked, power, held>>
  BY DEF LongPressTimeout, Keep, views
<1>2. ran \in [Scopes \X Keys -> 0..2] /\ DOMAIN ran = Scopes \X Keys
  BY DEF IInv, KeysTypeOK
<1>3. /\ ran' \in [Scopes \X Keys -> 0..2]
      /\ \A q \in Scopes \X Keys :
           ran'[q] = IF q = p /\ ran[q] < 2 THEN ran[q] + 1 ELSE ran[q]
  BY <1>1, <1>2 DEF Counted
<1>4. timers \subseteq Scopes \X Keys /\ ran[p] = 0
  BY DEF IInv, KeysTypeOK, Scopes, FreshTimers
<1>5. OneActionPerPress'
  <2> SUFFICES ASSUME NEW q \in Scopes \X Keys PROVE ran'[q] <= 1
    BY DEF OneActionPerPress
  <2> QED BY <1>2, <1>3, <1>4 DEF IInv, OneActionPerPress
<1>6. FreshTimers'
  BY <1>1, <1>3, <1>4 DEF IInv, FreshTimers
<1> QED BY <1>1, <1>3, <1>5, <1>6
        DEF IInv, KeysTypeOK, NoStuckKey, ReceiverIsKnown, PowerInv, PowerHoldIsReal, power,
            history

-----------------------------------------------------------------------------
LEMMA NextKeepsIInv == IInv /\ [Next]_vars => IInv'
<1> SUFFICES ASSUME IInv, [Next]_vars PROVE IInv'
  OBVIOUS
<1>1. ASSUME NEW v \in Views,
             SetBaseOwner(v) \/ TakeControl(v) \/ ReleaseControl(v)
               \/ ViewShown(v) \/ ViewHidden(v)
      PROVE  IInv'
  <2>1. UNCHANGED keyState
    BY <1>1 DEF SetBaseOwner, TakeControl, ReleaseControl, ReleaseTop, ViewShown, ViewHidden,
                Keep, views, keyState
  <2> QED BY <2>1, KeysKeepInv
<1>2. ASSUME ReleaseTop PROVE IInv'
  <2>1. UNCHANGED keyState
    BY <1>2 DEF ReleaseTop, Keep, views, keyState
  <2> QED BY <2>1, KeysKeepInv
<1>3. ASSUME NEW v \in Views, OwnerDestroyed(v) PROVE IInv'
  BY <1>3, DestroyedKeepsIInv
<1>4. ASSUME NEW b \in BOOLEAN, BlockInput(b) PROVE IInv'
  BY <1>4 DEF BlockInput, views, power, handlers, history, IInv, KeysTypeOK, NoStuckKey,
              ReceiverIsKnown, OneActionPerPress, FreshTimers, PowerInv, PowerHoldIsReal
<1>5. ASSUME NEW k \in Keys, KeyPress(k) PROVE IInv'
  BY <1>5, PressKeepsIInv
<1>6. ASSUME NEW k \in Keys, AutoRepeatPress(k) PROVE IInv'
  BY <1>6, RepeatKeepsIInv
<1>7. ASSUME NEW k \in Keys, KeyRelease(k) \/ DeferredRelease(k) PROVE IInv'
  <2>1. /\ EmitKeyRelease(k) /\ deferred' = deferred \ {k} /\ held' \in {held, held \ {k}}
        /\ UNCHANGED <<alive, blocked>>
    BY <1>7 DEF KeyRelease, DeferredRelease, views
  <2> QED BY <2>1, EmitKeepsIInv
<1>8. ASSUME NEW k \in Keys, AutoRepeatRelease(k) PROVE IInv'
  BY <1>8 DEF AutoRepeatRelease, views, power, handlers, history, IInv, KeysTypeOK, NoStuckKey,
              ReceiverIsKnown, OneActionPerPress, FreshTimers, PowerInv, PowerHoldIsReal
<1>9. ASSUME NEW k \in Keys, ReleaseSwallowed(k) PROVE IInv'
  <2>1. /\ blocked /\ held' = held \ {k}
        /\ swallowed' = swallowed \cup (repeats \cap (Scopes \X {k}))
        /\ UNCHANGED <<alive, keyOwner, deferred, blocked, power, handlers, strayed>>
    BY <1>9 DEF ReleaseSwallowed, views
  <2>2. repeats \subseteq Scopes \X Keys
    BY DEF IInv, KeysTypeOK, Scopes
  <2>3. NoStuckKey'
    <3> SUFFICES ASSUME NEW p \in repeats
                 PROVE  p[2] \in held' \cup deferred \/ p \in swallowed' \cup strayed
      BY <2>1 DEF NoStuckKey, handlers
    <3>1. p[2] = k => p \in Scopes \X {k}
      BY <2>2
    <3> QED BY <2>1, <3>1 DEF IInv, NoStuckKey
  <2> QED BY <2>1, <2>3 DEF power, handlers, IInv, KeysTypeOK, ReceiverIsKnown,
                            OneActionPerPress, FreshTimers, PowerInv, PowerHoldIsReal
<1>10. ASSUME NEW p \in timers, LongPressTimeout(p) PROVE IInv'
  BY <1>10, LongPressKeepsIInv
<1>11. ASSUME PowerHeld PROVE IInv'
  BY <1>11 DEF PowerHeld, views, handlers, history, IInv, KeysTypeOK, NoStuckKey,
               ReceiverIsKnown, OneActionPerPress, FreshTimers, PowerInv, PowerHoldIsReal
<1>12. CASE UNCHANGED vars
  BY <1>12, KeysKeepInv DEF vars, views, keyState
<1> QED BY <1>1, <1>2, <1>3, <1>4, <1>5, <1>6, <1>7, <1>8, <1>9, <1>10, <1>11, <1>12
        DEF Next, ControlStep, KeyStep

LEMMA Invariance == Spec => []IInv
  BY InitIInv, NextKeepsIInv, PTL DEF Spec

\* A scope regards a key as held only while the key is down or its release deferred, or it
\* missed the release in a known way; the hold of the power key ends with the key, and with a
\* block of the input.
THEOREM KeysAreReleased == Spec => []HoldsAreReal
<1>1. IInv => HoldsAreReal
  BY DEF IInv, PowerInv, HoldsAreReal
<1> QED BY <1>1, Invariance, PTL

\* A press a scope sees runs its short or its long action, not both.
THEOREM PressRunsOnce == Spec => []OneActionPerPress
<1>1. IInv => OneActionPerPress
  BY DEF IInv
<1> QED BY <1>1, Invariance, PTL

-----------------------------------------------------------------------------
(* The touch device                                                        *)

Outputs == [signal : Signals, x : Positions]

LastSignal(outs, s) == IF outs = <<>> THEN s ELSE outs[Len(outs)].signal

ChainOf(outs, s) == \A i \in 1..Len(outs) :
  Stream!Legal(IF i = 1 THEN s ELSE outs[i - 1].signal, outs[i].signal)

Chain == ChainOf(outputs, signal)
TouchingIsLast == touching = (LastSignal(outputs, signal) \in {"pressed", "moved"})
PositionKept == touching /\ ~pendingMove /\ ~gap => LastX(outputs) = currentX

DeviceInv == DeviceTypeOK /\ Chain /\ TouchingIsLast /\ PositionKept

-----------------------------------------------------------------------------
(***************************************************************************)
(* Sequences of outputs.                                                   *)
(***************************************************************************)

\* An output may be appended when it may follow the last one.
LEMMA ChainAppend ==
  ASSUME NEW outs \in Seq(Outputs), NEW s, NEW o \in Outputs,
         ChainOf(outs, s), Stream!Legal(LastSignal(outs, s), o.signal)
  PROVE  /\ Append(outs, o) \in Seq(Outputs)
         /\ ChainOf(Append(outs, o), s)
         /\ LastSignal(Append(outs, o), s) = o.signal
<1> DEFINE new == Append(outs, o)
<1>1. /\ new \in Seq(Outputs) /\ Len(new) = Len(outs) + 1 /\ new # <<>>
      /\ \A i \in 1..Len(outs) : new[i] = outs[i]
      /\ new[Len(outs) + 1] = o
  OBVIOUS
<1>2. ChainOf(new, s)
  <2> HIDE DEF new
  <2> SUFFICES ASSUME NEW i \in 1..Len(new)
               PROVE  Stream!Legal(IF i = 1 THEN s ELSE new[i - 1].signal, new[i].signal)
    BY DEF ChainOf
  <2>1. CASE i \in 1..Len(outs)
    <3>1. i # 1 => i - 1 \in 1..Len(outs)
      BY <2>1
    <3>2. (IF i = 1 THEN s ELSE new[i - 1].signal) = (IF i = 1 THEN s ELSE outs[i - 1].signal)
      BY <1>1, <3>1
    <3> QED BY <1>1, <2>1, <3>2 DEF ChainOf
  <2>2. CASE i = Len(outs) + 1
    <3>1. Len(outs) \in Nat /\ (outs = <<>> <=> Len(outs) = 0)
      OBVIOUS
    <3>2. (IF i = 1 THEN s ELSE new[i - 1].signal) = LastSignal(outs, s)
      <4>1. CASE outs = <<>>
        BY <2>2, <3>1, <4>1 DEF LastSignal
      <4>2. CASE outs # <<>>
        <5>1. Len(outs) \in 1..Len(outs) /\ i # 1 /\ i - 1 = Len(outs)
          BY <2>2, <3>1, <4>2
        <5> QED BY <1>1, <4>2, <5>1 DEF LastSignal
      <4> QED BY <4>1, <4>2
    <3> QED BY <1>1, <2>2, <3>2
  <2> QED BY <1>1, <2>1, <2>2
<1>3. LastSignal(new, s) = o.signal
  BY <1>1 DEF LastSignal
<1> QED BY <1>1, <1>2, <1>3

\* The first output may be emitted, and the rest may follow it.
LEMMA ChainTail ==
  ASSUME NEW outs \in Seq(Outputs), NEW s, outs # <<>>, ChainOf(outs, s)
  PROVE  /\ Head(outs) \in Outputs /\ Tail(outs) \in Seq(Outputs)
         /\ Stream!Legal(s, Head(outs).signal)
         /\ ChainOf(Tail(outs), Head(outs).signal)
         /\ LastSignal(Tail(outs), Head(outs).signal) = LastSignal(outs, s)
<1> DEFINE rest == Tail(outs)
<1>1. /\ Len(outs) \in Nat \ {0} /\ Head(outs) = outs[1] /\ Head(outs) \in Outputs
      /\ rest \in Seq(Outputs) /\ Len(rest) = Len(outs) - 1
      /\ \A i \in 1..Len(rest) : rest[i] = outs[i + 1]
  OBVIOUS
<1>2. Stream!Legal(s, Head(outs).signal)
  <2>1. 1 \in 1..Len(outs)
    BY <1>1
  <2> QED BY <1>1, <2>1 DEF ChainOf
<1> HIDE DEF rest
<1>3. ChainOf(rest, Head(outs).signal)
  <2> SUFFICES ASSUME NEW i \in 1..Len(rest)
               PROVE  Stream!Legal(IF i = 1 THEN Head(outs).signal ELSE rest[i - 1].signal,
                                   rest[i].signal)
    BY DEF ChainOf
  <2>1. i + 1 \in 1..Len(outs) /\ i + 1 # 1 /\ (i + 1) - 1 = i
    BY <1>1
  <2>2. (IF i = 1 THEN Head(outs).signal ELSE rest[i - 1].signal) = outs[i].signal
    <3>1. CASE i = 1
      BY <1>1, <3>1
    <3>2. CASE i # 1
      <4>1. i - 1 \in 1..Len(rest) /\ (i - 1) + 1 = i
        BY <1>1, <3>2
      <4>2. rest[i - 1] = outs[i]
        BY <1>1, <4>1
      <4> QED BY <3>2, <4>2
    <3> QED BY <3>1, <3>2
  <2>3. Stream!Legal(outs[i].signal, outs[i + 1].signal)
    BY <2>1 DEF ChainOf
  <2> QED BY <1>1, <2>2, <2>3
<1>4. LastSignal(rest, Head(outs).signal) = LastSignal(outs, s)
  <2>1. CASE rest = <<>>
    <3>1. Len(outs) = 1
      BY <1>1, <2>1
    <3> QED BY <1>1, <2>1, <3>1 DEF LastSignal
  <2>2. CASE rest # <<>>
    <3>1. Len(rest) \in 1..Len(rest) /\ Len(rest) + 1 = Len(outs)
      BY <1>1, <2>2
    <3> QED BY <1>1, <2>2, <3>1 DEF LastSignal
  <2> QED BY <2>1, <2>2
<1> QED BY <1>1, <1>2, <1>3, <1>4 DEF rest

-----------------------------------------------------------------------------
(***************************************************************************)
(* The invariant.                                                          *)
(***************************************************************************)

LEMMA DeviceInitially == DeviceInit => DeviceInv
<1> SUFFICES ASSUME DeviceInit PROVE DeviceInv
  OBVIOUS
<1>1. DeviceTypeOK
  <2>1. <<>> \in Seq(Events) /\ <<>> \in Seq([signal : Signals, x : Positions])
    OBVIOUS
  <2>2. NoFrame \in [x : Positions \cup {NoValue}, btn : {0, 1, NoValue}]
    BY DEF NoFrame
  <2>3. "none" \in Signals \cup {"none"}
    OBVIOUS
  <2> QED BY <2>1, <2>2, <2>3 DEF DeviceInit, DeviceTypeOK
<1>2. Chain
  <2>1. outputs = <<>> /\ Len(outputs) = 0
    BY DEF DeviceInit
  <2> QED BY <2>1 DEF Chain, ChainOf
<1>3. TouchingIsLast
  <2>1. ~touching /\ touching \in BOOLEAN /\ LastSignal(outputs, signal) = "none"
    BY DEF DeviceInit, LastSignal
  <2> QED BY <2>1 DEF TouchingIsLast
<1>4. PositionKept
  BY DEF DeviceInit, PositionKept
<1> QED BY <1>1, <1>2, <1>3, <1>4 DEF DeviceInv

\* What the filter appends is legal and it remembers the end of it.
FilterKept ==
  /\ touching' \in BOOLEAN /\ dropped' \in BOOLEAN /\ gap' \in BOOLEAN
  /\ pendingMove' \in BOOLEAN /\ (pendingMove' => touching')
  /\ currentX' \in Positions /\ frame' \in [x : Positions \cup {NoValue}, btn : {0, 1, NoValue}]
  /\ outputs' \in Seq(Outputs)
  /\ ChainOf(outputs', signal)
  /\ touching' = (LastSignal(outputs', signal) \in {"pressed", "moved"})
  /\ touching' /\ ~pendingMove' /\ ~gap' => LastX(outputs') = currentX'

\* The position after an output was appended is that of the output.
LEMMA LastXAppend ==
  ASSUME NEW outs \in Seq(Outputs), NEW o \in Outputs
  PROVE  /\ LastX(Append(outs, o)) = o.x
         /\ SubSeq(Append(outs, o), 1, Len(Append(outs, o)) - 1) = outs
<1>1. LastX(Append(outs, o)) = o.x
  BY DEF LastX
<1>2. SubSeq(Append(outs, o), 1, Len(Append(outs, o)) - 1) = outs
  OBVIOUS
<1> QED BY <1>1, <1>2

LEMMA CommitFrameKeeps ==
  ASSUME DeviceInv, CommitFrame, frame' = NoFrame, UNCHANGED dropped
  PROVE  /\ FilterKept
         /\ touching /\ ~touching' =>
              gap \/ LastX(SubSeq(outputs', 1, Len(outputs') - 1)) = currentX'
<1> DEFINE x == IF frame.x = NoValue THEN currentX ELSE frame.x
           moved == pendingMove \/ frame.x # NoValue
           down == frame.btn = 1 /\ ~touching
           up == frame.btn = 0 /\ touching
<1>1. /\ x \in Positions /\ currentX' = x
      /\ NoFrame \in [x : Positions \cup {NoValue}, btn : {0, 1, NoValue}]
      /\ touching' = ((touching \/ down) /\ ~up)
      /\ pendingMove' = (touching /\ ~up /\ moved)
      /\ gap' = (gap /\ ~down /\ ~(up /\ moved))
      /\ touching \in BOOLEAN /\ pendingMove \in BOOLEAN /\ gap \in BOOLEAN /\ dropped \in BOOLEAN
      /\ outputs \in Seq(Outputs) /\ signal \in Signals \cup {"none"}
  BY DEF CommitFrame, DeviceInv, DeviceTypeOK, Outputs, NoFrame
<1>2. /\ touching' \in BOOLEAN /\ dropped' \in BOOLEAN /\ gap' \in BOOLEAN
      /\ pendingMove' \in BOOLEAN /\ (pendingMove' => touching')
      /\ currentX' \in Positions /\ frame' \in [x : Positions \cup {NoValue}, btn : {0, 1, NoValue}]
  BY <1>1
<1>3. ChainOf(outputs, signal) /\ touching = (LastSignal(outputs, signal) \in {"pressed", "moved"})
  BY DEF DeviceInv, Chain, TouchingIsLast
<1>4. LastSignal(outputs, signal) \in Signals \cup {"none"}
  <2>1. outputs # <<>> => outputs[Len(outputs)] \in Outputs
    BY <1>1
  <2> QED BY <1>1, <2>1 DEF LastSignal, Outputs
<1>5. ASSUME NEW s \in Signals
      PROVE  Out(s, x) \in Outputs /\ Out(s, x).signal = s /\ Out(s, x).x = x
  BY <1>1, <1>5 DEF Out, Outputs
<1>6. CASE down
  <2>1. outputs' = Append(outputs, Out("pressed", x))
    BY <1>6 DEF CommitFrame
  <2>2. Stream!Legal(LastSignal(outputs, signal), Out("pressed", x).signal)
    BY <1>3, <1>4, <1>5, <1>6 DEF Stream!Legal, Signals
  <2>3. /\ outputs' \in Seq(Outputs) /\ ChainOf(outputs', signal)
        /\ LastSignal(outputs', signal) = "pressed"
    <3> HIDE DEF x
    <3> QED BY <1>1, <1>3, <1>5, <2>1, <2>2, ChainAppend DEF Signals
  <2>4. LastX(outputs') = x
    <3> HIDE DEF x
    <3> QED BY <1>1, <1>5, <2>1, LastXAppend DEF Signals
  <2>5. touching'
    BY <1>1, <1>6
  <2> QED BY <1>1, <1>2, <2>3, <2>4, <2>5, <1>6 DEF FilterKept
<1>7. CASE up
  <2> DEFINE moves == IF moved THEN <<Out("moved", x)>> ELSE <<>>
             outs == outputs \o moves
  <2>1. outputs' = Append(outs, Out("released", x))
    BY <1>7 DEF CommitFrame
  <2>2. outs = IF moved THEN Append(outputs, Out("moved", x)) ELSE outputs
    <3> HIDE DEF x, moved
    <3> QED BY <1>1
  <2>3. /\ outs \in Seq(Outputs) /\ ChainOf(outs, signal)
        /\ LastSignal(outs, signal) \in {"pressed", "moved"}
    <3>1. CASE moved
      <4>1. Stream!Legal(LastSignal(outputs, signal), Out("moved", x).signal)
        BY <1>3, <1>5, <1>7 DEF Stream!Legal, Signals
      <4> HIDE DEF x, outs, moved
      <4> QED BY <1>1, <1>3, <1>5, <2>2, <3>1, <4>1, ChainAppend DEF Signals
    <3>2. CASE ~moved
      BY <1>1, <1>3, <1>7, <2>2, <3>2
    <3> QED BY <3>1, <3>2
  <2>4. Stream!Legal(LastSignal(outs, signal), Out("released", x).signal)
    <3> HIDE DEF x, outs
    <3> QED BY <1>5, <2>3 DEF Stream!Legal, Signals
  <2>5. /\ outputs' \in Seq(Outputs) /\ ChainOf(outputs', signal)
        /\ LastSignal(outputs', signal) = "released"
    <3> HIDE DEF x, outs
    <3> QED BY <1>5, <2>1, <2>3, <2>4, ChainAppend DEF Signals
  <2>6. ~touching'
    BY <1>1, <1>7
  <2>7. SubSeq(outputs', 1, Len(outputs') - 1) = outs
    <3> HIDE DEF x, outs
    <3> QED BY <1>5, <2>1, <2>3, LastXAppend DEF Signals
  <2>8. gap \/ LastX(outs) = x
    <3>1. CASE moved
      <4> HIDE DEF x, outs, moved
      <4> QED BY <1>1, <1>5, <2>2, <3>1, LastXAppend DEF Signals
    <3>2. CASE ~moved
      <4>1. x = currentX /\ ~pendingMove
        BY <3>2
      <4>2. gap \/ LastX(outputs) = currentX
        BY <1>1, <1>7, <4>1 DEF DeviceInv, PositionKept
      <4> HIDE DEF x, outs, moved
      <4> QED BY <2>2, <3>2, <4>1, <4>2
    <3> QED BY <3>1, <3>2
  <2>9. FilterKept
    <3>1. touching' = (LastSignal(outputs', signal) \in {"pressed", "moved"})
      BY <1>2, <2>5, <2>6
    <3> QED BY <1>2, <2>5, <2>6, <3>1 DEF FilterKept
  <2>10. gap \/ LastX(SubSeq(outputs', 1, Len(outputs') - 1)) = currentX'
    <3>1. currentX' = x
      BY <1>1
    <3> HIDE DEF x, outs
    <3> QED BY <2>7, <2>8, <3>1
  <2> QED BY <2>9, <2>10
<1>8. CASE ~down /\ ~up
  <2>1. outputs' = outputs /\ touching' = touching /\ (gap' = gap)
        /\ pendingMove' = (touching /\ moved)
    BY <1>1, <1>8 DEF CommitFrame
  <2>2. touching' /\ ~pendingMove' /\ ~gap' => LastX(outputs') = currentX'
    <3> SUFFICES ASSUME touching', ~pendingMove', ~gap' PROVE LastX(outputs') = currentX'
      OBVIOUS
    <3>1. ~moved /\ x = currentX
      BY <2>1
    <3>2. LastX(outputs) = currentX
      BY <1>1, <2>1, <3>1 DEF DeviceInv, PositionKept
    <3>3. LastX(outputs') = LastX(outputs)
      BY <2>1 DEF LastX
    <3> QED BY <1>1, <3>1, <3>2, <3>3
  <2> QED BY <1>1, <1>2, <1>3, <2>1, <2>2 DEF FilterKept
<1> QED BY <1>6, <1>7, <1>8

LEMMA ProcessEventKeeps ==
  ASSUME DeviceInv, NEW e \in Events, ProcessEvent(e)
  PROVE  /\ FilterKept
         /\ touching /\ ~touching' =>
              gap \/ LastX(SubSeq(outputs', 1, Len(outputs') - 1)) = currentX'
<1>1. /\ touching \in BOOLEAN /\ pendingMove \in BOOLEAN /\ gap \in BOOLEAN /\ dropped \in BOOLEAN
      /\ outputs \in Seq(Outputs) /\ currentX \in Positions /\ (pendingMove => touching)
      /\ frame \in [x : Positions \cup {NoValue}, btn : {0, 1, NoValue}]
      /\ NoFrame \in [x : Positions \cup {NoValue}, btn : {0, 1, NoValue}]
  BY DEF DeviceInv, DeviceTypeOK, Outputs, NoFrame
<1>2. /\ ChainOf(outputs, signal)
      /\ touching = (LastSignal(outputs, signal) \in {"pressed", "moved"})
      /\ (touching /\ ~pendingMove /\ ~gap => LastX(outputs) = currentX)
  BY DEF DeviceInv, Chain, TouchingIsLast, PositionKept
<1>3. CASE CommitFrame /\ frame' = NoFrame /\ UNCHANGED dropped
  BY <1>3, CommitFrameKeeps
<1>4. CASE EventsDropped
  BY <1>1, <1>2, <1>4 DEF EventsDropped, FilterKept, LastX
<1>5. CASE /\ UNCHANGED <<touching, pendingMove, currentX, gap, outputs>>
           /\ dropped' \in BOOLEAN
           /\ frame' \in [x : Positions \cup {NoValue}, btn : {0, 1, NoValue}]
  BY <1>1, <1>2, <1>5 DEF FilterKept, LastX
<1>6. CASE dropped /\ dropped' = (e.kind # "report") /\ frame' = NoFrame
             /\ UNCHANGED <<touching, pendingMove, currentX, gap, outputs>>
  BY <1>1, <1>5, <1>6
<1>7. CASE /\ e.kind \in {"x", "btn"} /\ frame' = [frame EXCEPT ![e.kind] = e.val]
           /\ UNCHANGED <<touching, dropped, pendingMove, currentX, gap, outputs>>
  <2>1. \/ e.kind = "x" /\ e.val \in Positions
        \/ e.kind = "btn" /\ e.val \in {0, 1}
    BY <1>7 DEF Events
  <2>2. frame' \in [x : Positions \cup {NoValue}, btn : {0, 1, NoValue}]
    BY <1>1, <1>7, <2>1
  <2> QED BY <1>1, <1>5, <1>7, <2>2
<1> QED BY <1>3, <1>4, <1>6, <1>7 DEF ProcessEvent

\* The last output of a drain: the coalesced move.
LEMMA EndOfDrainKeeps ==
  ASSUME DeviceInv, EndOfDrain
  PROVE  FilterKept
<1>1. /\ touching \in BOOLEAN /\ pendingMove \in BOOLEAN /\ gap \in BOOLEAN /\ dropped \in BOOLEAN
      /\ outputs \in Seq(Outputs) /\ currentX \in Positions /\ (pendingMove => touching)
      /\ frame \in [x : Positions \cup {NoValue}, btn : {0, 1, NoValue}]
      /\ UNCHANGED <<touching, dropped, currentX, frame>> /\ ~pendingMove'
      /\ pendingMove' \in BOOLEAN /\ gap' \in BOOLEAN
  BY DEF EndOfDrain, DeviceInv, DeviceTypeOK, Outputs
<1>2. /\ ChainOf(outputs, signal)
      /\ touching = (LastSignal(outputs, signal) \in {"pressed", "moved"})
  BY DEF DeviceInv, Chain, TouchingIsLast
<1>3. CASE pendingMove
  <2>1. Out("moved", currentX) \in Outputs /\ Out("moved", currentX).signal = "moved"
        /\ Out("moved", currentX).x = currentX
    BY <1>1 DEF Out, Outputs, Signals
  <2>2. outputs' = Append(outputs, Out("moved", currentX))
    BY <1>3 DEF EndOfDrain
  <2>3. Stream!Legal(LastSignal(outputs, signal), Out("moved", currentX).signal)
    BY <1>1, <1>2, <1>3, <2>1 DEF Stream!Legal
  <2>4. /\ outputs' \in Seq(Outputs) /\ ChainOf(outputs', signal)
        /\ LastSignal(outputs', signal) = "moved"
    BY <1>1, <1>2, <2>1, <2>2, <2>3, ChainAppend
  <2>5. LastX(outputs') = currentX
    BY <1>1, <2>1, <2>2, LastXAppend
  <2> QED BY <1>1, <1>3, <2>4, <2>5 DEF FilterKept
<1>4. CASE ~pendingMove
  <2>1. outputs' = outputs /\ (gap' <=> gap)
    BY <1>4 DEF EndOfDrain
  <2>2. touching /\ ~gap => LastX(outputs) = currentX
    BY <1>4 DEF DeviceInv, PositionKept
  <2>3. LastX(outputs') = LastX(outputs)
    BY <2>1 DEF LastX
  <2> QED BY <1>1, <1>2, <2>1, <2>2, <2>3 DEF FilterKept
<1> QED BY <1>1, <1>3, <1>4

\* A step of the filter within readData keeps the invariant.
LEMMA FilterStep ==
  ASSUME DeviceInv, FilterKept, finger' \in BOOLEAN, queue' \in Seq(Events),
         device' \in {"open", "failed", "closed"},
         reading' \in {"waiting", "draining", "emitting"}, UNCHANGED <<touchX, signal>>
  PROVE  DeviceInv'
<1>1. DeviceTypeOK'
  BY DEF DeviceInv, DeviceTypeOK, FilterKept, Outputs
<1>2. Chain' /\ TouchingIsLast'
  BY DEF FilterKept, Chain, TouchingIsLast
<1>3. PositionKept'
  BY DEF FilterKept, PositionKept, LastX
<1> QED BY <1>1, <1>2, <1>3 DEF DeviceInv

\* What leaves the filter alone keeps the invariant.
LEMMA Unfiltered ==
  ASSUME DeviceInv, finger' \in BOOLEAN, queue' \in Seq(Events),
         device' \in {"open", "failed", "closed"},
         reading' \in {"waiting", "draining", "emitting"}, gap' \in BOOLEAN, gap => gap',
         UNCHANGED <<touching, dropped, pendingMove, currentX, frame, outputs, touchX, signal>>
  PROVE  DeviceInv'
<1>1. DeviceTypeOK'
  BY DEF DeviceInv, DeviceTypeOK
<1>2. Chain' /\ TouchingIsLast'
  BY DEF DeviceInv, Chain, TouchingIsLast
<1>3. PositionKept'
  BY DEF DeviceInv, PositionKept, LastX
<1> QED BY <1>1, <1>2, <1>3 DEF DeviceInv

LEMMA TouchedKeeps ==
  ASSUME DeviceInv, NEW events \in Seq(Events), Touched(events), finger' \in BOOLEAN
  PROVE  DeviceInv'
<1>1. queue' \in Seq(Events)
  <2>1. Event("report", NoValue) \in Events /\ Event("dropped", NoValue) \in Events
    BY DEF Event, Events
  <2>2. events \o <<Event("report", NoValue)>> \in Seq(Events)
    BY <2>1
  <2>3. <<Event("dropped", NoValue), Event("report", NoValue)>> \in Seq(Events)
    BY <2>1
  <2>4. queue \in Seq(Events) /\ <<>> \in Seq(Events)
    BY DEF DeviceInv, DeviceTypeOK
  <2> HIDE DEF Event
  <2> QED BY <2>2, <2>3, <2>4 DEF Touched, Enqueue
<1>2. /\ UNCHANGED <<touching, dropped, pendingMove, currentX, frame, outputs, touchX, signal>>
      /\ UNCHANGED <<device, reading, gap>>
  BY DEF Touched, filter
<1> QED BY <1>1, <1>2, Unfiltered DEF DeviceInv, DeviceTypeOK

LEMMA EmitOutputKeeps ==
  ASSUME DeviceInv, EmitOutput
  PROVE  DeviceInv' /\ Stream!Emit(signal')
<1> DEFINE o == Head(outputs)
<1>1. /\ outputs # <<>> /\ outputs \in Seq(Outputs) /\ ChainOf(outputs, signal)
      /\ signal' = o.signal /\ outputs' = Tail(outputs)
      /\ touchX' = (IF o.signal = "released" THEN touchX ELSE o.x)
      /\ UNCHANGED <<finger, queue, device, reading>>
      /\ UNCHANGED <<touching, dropped, pendingMove, currentX, frame, gap>>
  BY DEF EmitOutput, DeviceInv, DeviceTypeOK, Outputs, Chain, filter
<1>2. /\ o \in Outputs /\ outputs' \in Seq(Outputs)
      /\ Stream!Legal(signal, signal') /\ ChainOf(outputs', signal')
      /\ LastSignal(outputs', signal') = LastSignal(outputs, signal)
  <2> HIDE DEF o
  <2>1. /\ Head(outputs) \in Outputs /\ Tail(outputs) \in Seq(Outputs)
        /\ Stream!Legal(signal, Head(outputs).signal)
        /\ ChainOf(Tail(outputs), Head(outputs).signal)
        /\ LastSignal(Tail(outputs), Head(outputs).signal) = LastSignal(outputs, signal)
    BY <1>1, ChainTail
  <2> QED BY <1>1, <2>1 DEF o
<1>3. o.signal \in Signals /\ o.x \in Positions
  BY <1>2 DEF Outputs
<1>4. DeviceTypeOK'
  BY <1>1, <1>2, <1>3 DEF DeviceInv, DeviceTypeOK, Outputs
<1>5. Chain' /\ TouchingIsLast'
  BY <1>1, <1>2 DEF DeviceInv, Chain, TouchingIsLast
<1>6. PositionKept'
  <2> SUFFICES ASSUME touching', ~pendingMove', ~gap' PROVE LastX(outputs)' = currentX'
    BY DEF PositionKept
  <2>1. LastX(outputs) = currentX
    BY <1>1 DEF DeviceInv, PositionKept
  <2>2. CASE outputs' = <<>>
    <3>1. Len(outputs) = 1 /\ o = outputs[1]
      <4>1. /\ Len(outputs') = Len(outputs) - 1 /\ Len(outputs) \in Nat
            /\ Head(outputs) = outputs[1] /\ outputs' \in Seq(Outputs)
        BY <1>1
      <4> QED BY <2>2, <4>1
    <3>2. LastSignal(outputs, signal) = o.signal /\ LastX(outputs) = o.x
      BY <1>1, <3>1 DEF LastSignal, LastX
    <3>3. o.signal # "released"
      BY <1>1, <3>2 DEF DeviceInv, TouchingIsLast
    <3> QED BY <1>1, <2>1, <2>2, <3>2, <3>3 DEF LastX
  <2>3. CASE outputs' # <<>>
    <3>1. Len(outputs') \in Nat /\ Len(outputs') = Len(outputs) - 1
          /\ outputs'[Len(outputs')] = outputs[Len(outputs)]
      BY <1>1, <2>3
    <3> QED BY <1>1, <2>1, <2>3, <3>1 DEF LastX
  <2> QED BY <2>2, <2>3
<1> QED BY <1>2, <1>4, <1>5, <1>6 DEF DeviceInv, Stream!Emit

LEMMA ReopenKeeps ==
  ASSUME DeviceInv, Reopen
  PROVE  DeviceInv' /\ Stream!Reset
<1> PICK x \in Positions : /\ device' = "open" /\ touchX' = x /\ ResyncState(x)
                          /\ signal' = "none" /\ UNCHANGED <<finger, queue, reading>>
  BY DEF Reopen
<1>1. NoFrame \in [x : Positions \cup {NoValue}, btn : {0, 1, NoValue}]
      /\ <<>> \in Seq([signal : Signals, x : Positions])
  BY DEF NoFrame
<1>2. DeviceTypeOK'
  BY <1>1 DEF DeviceInv, DeviceTypeOK, ResyncState
<1>3. outputs' = <<>> /\ ~touching' /\ touching' \in BOOLEAN /\ signal' = "none"
  BY DEF ResyncState
<1>4. Chain' /\ TouchingIsLast' /\ PositionKept'
  BY <1>3 DEF Chain, ChainOf, TouchingIsLast, LastSignal, PositionKept
<1> QED BY <1>2, <1>4 DEF DeviceInv, Stream!Reset

-----------------------------------------------------------------------------
(***************************************************************************)
(* Every step.                                                             *)
(***************************************************************************)

LEMMA DeviceStepKeeps ==
  ASSUME DeviceInv, [DeviceNext]_deviceVars
  PROVE  /\ DeviceInv'
         /\ Stream!Next \/ UNCHANGED signal
         /\ reading' = "draining" /\ touching /\ ~touching' =>
              gap \/ LastX(SubSeq(outputs', 1, Len(outputs') - 1)) = currentX'
<1> USE DEF quiet
<1>0. /\ finger \in BOOLEAN /\ queue \in Seq(Events) /\ gap \in BOOLEAN
      /\ device \in {"open", "failed", "closed"}
      /\ reading \in {"waiting", "draining", "emitting"}
  BY DEF DeviceInv, DeviceTypeOK
<1>1. CASE Device
  <2>1. PICK events \in Seq(Events) : Touched(events) /\ finger' \in BOOLEAN
    <3>1. \A p \in Positions : Event("x", p) \in Events
      BY DEF Event, Events
    <3>2. \A b \in {0, 1} : Event("btn", b) \in Events
      BY DEF Event, Events
    <3>3. CASE FingerDown
      <4>1. <<Event("btn", 1)>> \in Seq(Events)
            /\ \A p \in Positions : <<Event("x", p), Event("btn", 1)>> \in Seq(Events)
        BY <3>1, <3>2
      <4> QED BY <3>3, <4>1 DEF FingerDown
    <3>4. CASE FingerMoves
      <4>1. \A p \in Positions : <<Event("x", p)>> \in Seq(Events)
        BY <3>1
      <4> QED BY <1>0, <3>4, <4>1 DEF FingerMoves
    <3>5. CASE FingerUp
      <4>1. <<Event("btn", 0)>> \in Seq(Events)
            /\ \A p \in Positions : <<Event("x", p), Event("btn", 0)>> \in Seq(Events)
        BY <3>1, <3>2
      <4> QED BY <3>5, <4>1 DEF FingerUp
    <3> QED BY <1>1, <3>3, <3>4, <3>5 DEF Device
  <2>2. DeviceInv'
    BY <2>1, TouchedKeeps
  <2> QED BY <2>1, <2>2 DEF Touched, filter
<1>2. CASE ReadEvent
  <2>1. Head(queue) \in Events /\ Tail(queue) \in Seq(Events)
    BY <1>0, <1>2 DEF ReadEvent
  <2>2. /\ ProcessEvent(Head(queue)) /\ queue' = Tail(queue) /\ reading' = "draining"
        /\ UNCHANGED <<finger, device, touchX, signal>>
    BY <1>2 DEF ReadEvent
  <2>3. /\ FilterKept
        /\ touching /\ ~touching' =>
              gap \/ LastX(SubSeq(outputs', 1, Len(outputs') - 1)) = currentX'
    BY <2>1, <2>2, ProcessEventKeeps
  <2>4. DeviceInv'
    BY <1>0, <2>1, <2>2, <2>3, FilterStep
  <2> QED BY <2>2, <2>3, <2>4
<1>3. CASE Drained
  <2>1. EndOfDrain /\ reading' = "emitting" /\ UNCHANGED <<finger, queue, device, touchX, signal>>
    BY <1>3 DEF Drained
  <2>2. FilterKept
    BY <2>1, EndOfDrainKeeps
  <2>3. DeviceInv'
    BY <1>0, <2>1, <2>2, FilterStep
  <2> QED BY <2>1, <2>3
<1>4. CASE EmitOutput
  <2>1. Stream!Next
    <3>1. Head(outputs) \in Outputs
      <4>1. outputs # <<>> /\ outputs \in Seq(Outputs)
        BY <1>4 DEF EmitOutput, DeviceInv, DeviceTypeOK, Outputs
      <4> QED BY <4>1
    <3>2. signal' \in {"pressed", "moved", "released"}
      BY <1>4, <3>1 DEF EmitOutput, Outputs, Signals
    <3> QED BY <1>4, <3>2, EmitOutputKeeps DEF Stream!Next
  <2> QED BY <1>4, <2>1, EmitOutputKeeps DEF EmitOutput, filter
<1>5. CASE EmitDone
  <2>1. DeviceInv'
    BY <1>0, <1>5, Unfiltered DEF EmitDone, filter
  <2> QED BY <1>5, <2>1 DEF EmitDone
<1>6. CASE ReadError
  <2>1. <<>> \in Seq(Events)
    OBVIOUS
  <2>2. DeviceInv'
    BY <1>0, <1>6, <2>1, Unfiltered DEF ReadError
  <2> QED BY <1>6, <2>2 DEF ReadError
<1>7. CASE ReopenFails \/ ReopenRangeless
  <2>1. DeviceInv'
    BY <1>0, <1>7, Unfiltered DEF ReopenFails, ReopenRangeless, filter
  <2> QED BY <1>7, <2>1 DEF ReopenFails, ReopenRangeless, filter
<1>8. CASE Reopen
  <2>1. reading' = "waiting"
    BY <1>8 DEF Reopen
  <2> QED BY <1>8, <2>1, ReopenKeeps DEF Stream!Next
<1>9. CASE UNCHANGED deviceVars
  <2>1. DeviceInv'
    BY <1>0, <1>9, Unfiltered DEF deviceVars, filter
  <2> QED BY <1>9, <2>1 DEF deviceVars, filter
<1> QED BY <1>1, <1>2, <1>3, <1>4, <1>5, <1>6, <1>7, <1>8, <1>9 DEF DeviceNext, Driver, Recovery

LEMMA DeviceInvariance == DeviceSpec => []DeviceInv
<1>1. DeviceInv /\ [DeviceNext]_deviceVars => DeviceInv'
  BY DeviceStepKeeps
<1> QED BY DeviceInitially, <1>1, PTL DEF DeviceSpec

(***************************************************************************)
(* The driver implements TouchStream: whatever the kernel drops and        *)
(* however often the device is lost, the views see presses, moves and      *)
(* releases in a legal order (readData, TouchSliderEventFilter).           *)
(***************************************************************************)
THEOREM DriverImplementsStream == DeviceSpec => ImplementsStream
<1>1. DeviceInit => Stream!Init
  BY DEF DeviceInit, Stream!Init
<1>2. DeviceInv /\ [DeviceNext]_deviceVars => [Stream!Next]_signal
  BY DeviceStepKeeps
<1> QED BY <1>1, <1>2, DeviceInvariance, PTL DEF DeviceSpec, ImplementsStream, Stream!Spec

(***************************************************************************)
(* The position handed out last before a release is the one the finger had *)
(* when it left (CommitFrame flushes the coalesced move first).            *)
(***************************************************************************)
THEOREM LastPositionGetsOut == DeviceSpec => FinalPositionFirst
<1>1. DeviceInv /\ [DeviceNext]_deviceVars =>
        [reading' = "draining" /\ touching /\ ~touching' =>
           \/ gap
           \/ LastX(SubSeq(outputs', 1, Len(outputs') - 1)) = currentX']_deviceVars
  BY DeviceStepKeeps
<1> QED BY <1>1, DeviceInvariance, PTL DEF DeviceSpec, FinalPositionFirst

(***************************************************************************)
(* Type correctness, with the coalesced move that belongs to a touch.      *)
(***************************************************************************)
THEOREM DeviceTypeCorrect == DeviceSpec => []DeviceTypeOK
<1>1. DeviceInv => DeviceTypeOK
  BY DEF DeviceInv
<1> QED BY <1>1, DeviceInvariance, PTL

-----------------------------------------------------------------------------
(* The slider                                                              *)

\* During a touch that was accepted the slider is active.
AcceptedIsActive == heard \in {"pressed", "moved"} /\ taken = "accepted" => sliderActive

SliderInv == SliderTypeOK /\ StopsOnRelease /\ AcceptedIsActive

\* What SendsInGesture says of a step.
SendAllowed == command' # NoCommand => sliderActive \/ (taken # "accepted" /\ heard' = "released")

LEMMA SliderInitially == SliderInit => SliderInv
  BY RestAssumption DEF SliderInit, Heard!Init, SliderInv, SliderTypeOK, StopsOnRelease,
      AcceptedIsActive

-----------------------------------------------------------------------------
\* A press is accepted and starts the timer, or leaves the slider as it is.
LEMMA PressKeeps ==
  ASSUME SliderInv, heard' = "pressed", OnTouchPressed, UNCHANGED <<entity, armed>>
  PROVE  SliderInv' /\ SendAllowed
<1>1. CASE armed /\ enabled
  <2>1. /\ sliderActive' \in BOOLEAN /\ closing' \in BOOLEAN
        /\ sliderActive' = TRUE /\ target' = value /\ updating' = TRUE /\ closing' = FALSE
        /\ overlay' = TRUE /\ taken' = "accepted" /\ ignored' = FALSE /\ orphaned' = FALSE
        /\ command' = NoCommand /\ UNCHANGED <<enabled, value, armed>>
    BY <1>1 DEF OnTouchPressed, entity
  <2>2. /\ sliderActive' \in BOOLEAN /\ updating' = sliderActive' /\ closing' \in BOOLEAN
        /\ (sliderActive' => armed') /\ (closing' => armed')
    <3>1. armed' /\ sliderActive' \in BOOLEAN /\ closing' \in BOOLEAN
      BY <1>1, <2>1
    <3>2. updating' = sliderActive'
      BY <2>1
    <3> QED BY <3>1, <3>2
  <2>3. SliderTypeOK'
    BY <2>1, <2>2 DEF SliderInv, SliderTypeOK
  <2>4. StopsOnRelease' /\ AcceptedIsActive' /\ SendAllowed
    BY <2>1 DEF StopsOnRelease, AcceptedIsActive, SendAllowed
  <2> QED BY <2>3, <2>4 DEF SliderInv
<1>2. CASE ~(armed /\ enabled)
  <2>1. /\ taken' \in {"unavailable", "unarmed"}
        /\ UNCHANGED <<sliderActive, target, updating, closing, overlay, ignored, orphaned>>
        /\ command' = NoCommand /\ UNCHANGED <<enabled, value, armed>>
    BY <1>2 DEF OnTouchPressed, entity
  <2> QED BY <2>1 DEF SliderInv, SliderTypeOK, StopsOnRelease, AcceptedIsActive, SendAllowed
<1> QED BY <1>1, <1>2

\* A move changes only the target.
LEMMA MoveKeeps ==
  ASSUME SliderInv, Heard!Emit("moved"), OnTouchXChanged, UNCHANGED <<entity, armed>>
  PROVE  SliderInv' /\ SendAllowed
<1>1. heard \in {"pressed", "moved"} /\ heard' = "moved"
  BY DEF Heard!Emit, Heard!Legal
<1>2. /\ target' \in Values /\ command' = NoCommand
      /\ UNCHANGED <<sliderActive, updating, closing, overlay, taken, ignored, orphaned>>
      /\ UNCHANGED <<enabled, value, armed>>
  BY DEF OnTouchXChanged, entity, SliderInv, SliderTypeOK
<1> QED BY <1>1, <1>2 DEF SliderInv, SliderTypeOK, StopsOnRelease, AcceptedIsActive, SendAllowed

\* A release sends the target and ends the touch, or is ignored.
LEMMA ReleaseKeeps ==
  ASSUME SliderInv, Heard!Emit("released"), OnTouchReleased, UNCHANGED <<entity, armed>>
  PROVE  SliderInv' /\ SendAllowed
<1>1. heard \in {"pressed", "moved"} /\ heard' = "released"
  BY DEF Heard!Emit, Heard!Legal
<1>2. CASE armed /\ enabled
  <2>1. /\ command' \in Values \cup {NoCommand} /\ sliderActive' \in BOOLEAN /\ closing' \in BOOLEAN
        /\ sliderActive' = FALSE /\ updating' = FALSE /\ closing' = TRUE /\ ignored' = FALSE
        /\ UNCHANGED <<target, overlay, taken, orphaned>> /\ UNCHANGED <<enabled, value, armed>>
    BY <1>2 DEF OnTouchReleased, Send, entity, SliderInv, SliderTypeOK
  <2>2. taken = "accepted" => sliderActive
    BY <1>1 DEF SliderInv, AcceptedIsActive
  <2>3. /\ sliderActive' \in BOOLEAN /\ updating' = sliderActive' /\ closing' \in BOOLEAN
        /\ (sliderActive' => armed') /\ (closing' => armed')
    <3>1. armed' /\ sliderActive' \in BOOLEAN /\ closing' \in BOOLEAN
      BY <1>2, <2>1
    <3>2. updating' = sliderActive'
      BY <2>1
    <3> QED BY <3>1, <3>2
  <2>4. SliderTypeOK'
    BY <1>1, <2>1, <2>3 DEF SliderInv, SliderTypeOK
  <2>5. StopsOnRelease' /\ AcceptedIsActive' /\ SendAllowed
    BY <1>1, <2>1, <2>2 DEF StopsOnRelease, AcceptedIsActive, SendAllowed
  <2> QED BY <2>4, <2>5 DEF SliderInv
<1>3. CASE ~(armed /\ enabled)
  <2>1. /\ command' = NoCommand /\ ignored' = TRUE
        /\ UNCHANGED <<sliderActive, updating, closing, target, overlay, taken, orphaned>>
        /\ UNCHANGED <<enabled, value, armed>>
    BY <1>3 DEF OnTouchReleased, entity
  <2> QED BY <1>1, <2>1 DEF SliderInv, SliderTypeOK, StopsOnRelease, AcceptedIsActive, SendAllowed
<1> QED BY <1>2, <1>3

-----------------------------------------------------------------------------
LEMMA SliderStepKeeps ==
  ASSUME SliderInv, [SliderNext]_sliderVars
  PROVE  SliderInv' /\ (SendAllowed \/ UNCHANGED sliderVars)
<1> USE DEF SliderInv, SliderTypeOK, StopsOnRelease, AcceptedIsActive, SendAllowed, entity, slider
<1>1. CASE Signal
  BY <1>1, PressKeeps, MoveKeeps, ReleaseKeeps DEF Signal, Heard!Emit
<1>2. CASE DeviceReset
  BY <1>2 DEF DeviceReset, Heard!Reset
<1>3. CASE UpdateTimeout
  BY <1>3 DEF UpdateTimeout, Send
<1>4. CASE ReleaseTimeout
  BY <1>4 DEF ReleaseTimeout
<1>5. CASE CloseOverlay
  BY <1>5 DEF CloseOverlay
<1>6. ASSUME NEW on \in BOOLEAN, Rearm(on) PROVE SliderInv' /\ SendAllowed
  BY <1>6, RestAssumption DEF Rearm
<1>7. CASE EntityEvent
  BY <1>7 DEF EntityEvent
<1>8. CASE UNCHANGED sliderVars
  BY <1>8 DEF sliderVars
<1> QED BY <1>1, <1>2, <1>3, <1>4, <1>5, <1>6, <1>7, <1>8 DEF SliderNext

LEMMA SliderInvariance == SliderSpec => []SliderInv
<1>1. SliderInv /\ [SliderNext]_sliderVars => SliderInv'
  BY SliderStepKeeps
<1> QED BY SliderInitially, <1>1, PTL DEF SliderSpec

(***************************************************************************)
(* After a release the timer that forces the entity to the target is off,  *)
(* unless the release was ignored (onTouchReleased).                       *)
(***************************************************************************)
THEOREM ReleaseStopsTimer == SliderSpec => []StopsOnRelease
<1>1. SliderInv => StopsOnRelease
  BY DEF SliderInv
<1> QED BY <1>1, SliderInvariance, PTL

(***************************************************************************)
(* Commands are sent while an accepted touch lasts, or by the release of   *)
(* one that was not accepted (updateDataTimer, onTouchReleased).           *)
(***************************************************************************)
THEOREM TouchSends == SliderSpec => SendsInGesture
<1>1. SliderInv /\ [SliderNext]_sliderVars =>
        [command' # NoCommand => \/ sliderActive
                                 \/ taken # "accepted" /\ heard' = "released"]_sliderVars
  BY SliderStepKeeps DEF SendAllowed
<1> QED BY <1>1, SliderInvariance, PTL DEF SliderSpec, SendsInGesture

=============================================================================
