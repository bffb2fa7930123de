--------------------------- MODULE InputController ---------------------------
(***************************************************************************)
(* Keys and their owners (ui/inputController.cpp) with the button          *)
(* navigation of each scope (qml/components/ButtonNavigation.qml).  Views  *)
(* take and release control of the keys, appear, disappear and are         *)
(* destroyed while keys are held, repeat, or are let go.  A press goes to  *)
(* the view in front; its release has to find the same view, or that view  *)
(* goes on regarding the key as held.                                      *)
(***************************************************************************)
EXTENDS Sequences, SequencesExt

CONSTANTS Views,      \* items that may take control
          Overriding, \* scopes with overrideActive, which see the keys of every owner
          Keys,
          Power,      \* the key with the hold timer of its own
          None,       \* the null pointer
          LongPress   \* pairs of a scope and a key it has a long_press handler for

Scopes == Views \cup Overriding

ASSUME KeysAssumption == Power \in Keys
ASSUME ScopesAssumption == None \notin Scopes /\ Views \cap Overriding = {}

VARIABLES
  alive, visible,           \* the views, as Qt and QML have them
  stack, active, baseOwner, \* m_stack, m_activeItem, m_baseOwner
  keyOwner, deferred,       \* m_keyOwner, running timers of m_deferredRelease
  blocked,                  \* m_blockInput
  powerPressed, powerTimer, \* m_globalPowerPressed, m_globalPowerHoldTimer
  repeats, timers,          \* repeats and running timers of each ButtonNavigation
  held,                     \* the keys that are down
  swallowed, strayed, ran   \* history

views == <<alive, visible>>
owners == <<stack, active, baseOwner>>
power == <<powerPressed, powerTimer>>
handlers == <<repeats, timers, ran>>
history == <<swallowed, strayed>>
vars == <<views, owners, keyOwner, deferred, blocked, power, handlers, held, history>>

\* The keys and the scopes that handle them.
KeysTypeOK ==
  /\ keyOwner \in [Keys -> Views \cup {None}]
  /\ deferred \subseteq Keys /\ held \subseteq Keys
  /\ blocked \in BOOLEAN /\ powerPressed \in BOOLEAN /\ powerTimer \in BOOLEAN
  /\ repeats \subseteq (alive \cup Overriding) \X Keys
  /\ timers \subseteq LongPress \cap repeats
  /\ swallowed \subseteq repeats /\ strayed \subseteq repeats
  /\ ran \in [Scopes \X Keys -> 0..2]

TypeOK ==
  /\ alive \subseteq Views /\ visible \subseteq alive
  /\ stack \in Seq(Views)
  /\ active \in Views \cup {None} /\ baseOwner \in Views \cup {None}
  /\ KeysTypeOK

Init ==
  /\ alive = Views /\ visible = {}
  /\ stack = <<>> /\ active = None /\ baseOwner = None
  /\ keyOwner = [k \in Keys |-> None]
  /\ deferred = {} /\ held = {}
  /\ blocked = FALSE /\ powerPressed = FALSE /\ powerTimer = FALSE
  /\ repeats = {} /\ timers = {}
  /\ swallowed = {} /\ strayed = {}
  /\ ran = [p \in Scopes \X Keys |-> 0]

-----------------------------------------------------------------------------
(***************************************************************************)
(* Control of the keys.                                                    *)
(***************************************************************************)

\* A QPointer is null once its object is gone.
Live(v) == IF v \in alive THEN v ELSE None

CleanupStack(s) == SelectSeq(s, LAMBDA v : v \in alive' \cap visible')

UpdateActive(s, base) ==
  /\ stack' = CleanupStack(s)
  /\ active' = IF stack' = <<>> THEN base ELSE Last(stack')

Keep == UNCHANGED <<keyOwner, deferred, blocked, power, held>>

SetBaseOwner(v) ==
  /\ v \in alive
  /\ baseOwner' = v
  /\ UNCHANGED <<views, handlers, history>> /\ Keep
  /\ UpdateActive(stack, v)

TakeControl(v) ==
  /\ v \in alive
  /\ UNCHANGED <<views, baseOwner, handlers, history>> /\ Keep
  /\ UpdateActive(Append(Remove(stack, v), v), Live(baseOwner))

ReleaseControl(v) ==
  /\ v \in alive
  /\ UNCHANGED <<views, baseOwner, handlers, history>> /\ Keep
  /\ UpdateActive(Remove(stack, v), Live(baseOwner))

\* releaseControl() without an item.
ReleaseTop ==
  /\ UNCHANGED <<views, baseOwner, handlers, history>> /\ Keep
  /\ UpdateActive(IF stack = <<>> THEN stack ELSE Front(stack), Live(baseOwner))

\* Showing or hiding a view tells the controller nothing.
ViewShown(v) ==
  /\ v \in alive /\ visible' = visible \cup {v}
  /\ UNCHANGED <<alive, owners, handlers, history>> /\ Keep

ViewHidden(v) ==
  /\ v \in alive /\ visible' = visible \ {v}
  /\ UNCHANGED <<alive, owners, handlers, history>> /\ Keep

\* The button navigation is a child of its view and goes with it.  A view that never took
\* control is not watched: then the stack is not looked at.
OwnerDestroyed(v) ==
  /\ v \in alive
  /\ alive' = alive \ {v} /\ visible' = visible \ {v}
  /\ repeats' = repeats \ ({v} \X Keys) /\ timers' = timers \ ({v} \X Keys)
  /\ swallowed' = swallowed \ ({v} \X Keys) /\ strayed' = strayed \ ({v} \X Keys)
  /\ \/ UpdateActive(stack, IF baseOwner \in alive' THEN baseOwner ELSE None)
     \/ v \notin Range(stack) /\ UNCHANGED <<stack, active>>
  /\ UNCHANGED <<baseOwner, ran>> /\ Keep

BlockInput(b) ==
  /\ blocked' = b
  /\ IF b THEN powerPressed' = FALSE /\ powerTimer' = FALSE ELSE UNCHANGED power
  /\ UNCHANGED <<views, owners, keyOwner, deferred, handlers, held, history>>

-----------------------------------------------------------------------------
(***************************************************************************)
(* The handlers of the scopes.                                             *)
(***************************************************************************)

InFront == IF Live(active) = None THEN Live(baseOwner) ELSE active

\* The scopes that handle a key announced for owner o.
Receivers(o) == (Scopes \cap {o}) \cup Overriding

\* Mutant: an auto-repeat press starts the long-press timer again.
PressForRestarts(o, k) ==
  LET first == (Receivers(o) \X {k}) \ repeats
  IN  /\ repeats' = repeats \cup first
      /\ timers' = timers \cup ((Receivers(o) \X {k}) \cap LongPress)
      /\ ran' = [p \in DOMAIN ran |-> IF p \in first THEN 0 ELSE ran[p]]

PressFor(o, k) ==
  LET first == (Receivers(o) \X {k}) \ repeats
  IN  /\ repeats' = repeats \cup first
      /\ timers' = timers \cup (first \cap LongPress)
      /\ ran' = [p \in DOMAIN ran |-> IF p \in first THEN 0 ELSE ran[p]]

\* Runs a short or a long press: counted until the scope sees the next press.
Counted(P) == [p \in DOMAIN ran |-> IF p \in P /\ ran[p] < 2 THEN ran[p] + 1 ELSE ran[p]]

ReleaseFor(o, k) ==
  LET these == Receivers(o) \X {k}
  IN  /\ repeats' = repeats \ these
      /\ timers' = timers \ these
      /\ ran' = Counted(timers \cap these)
      /\ swallowed' = swallowed \ these /\ strayed' = strayed \ these

LongPressTimeout(p) ==
  /\ p \in timers
  /\ timers' = timers \ {p}
  /\ ran' = Counted({p})
  /\ UNCHANGED <<views, owners, repeats, history>> /\ Keep

-----------------------------------------------------------------------------
(***************************************************************************)
(* Key events.                                                             *)
(***************************************************************************)

\* The first press of a hold.  A release that is still deferred is dropped with its timer: the
\* view it was meant for will not see it.
KeyPress(k) ==
  /\ k \notin held
  /\ held' = held \cup {k}
  /\ UNCHANGED <<views, owners, blocked>>
  /\ \/ blocked /\ UNCHANGED <<keyOwner, deferred, power, handlers, history>>
     \/ /\ ~blocked
        /\ deferred' = deferred \ {k}
        /\ keyOwner' = [keyOwner EXCEPT ![k] = InFront]
        /\ powerPressed' = (powerPressed \/ k = Power)
        /\ powerTimer' = (powerTimer \/ (k = Power /\ ~powerPressed))
        /\ PressFor(InFront, k)
        /\ LET these == Receivers(InFront) \X {k}
           IN  /\ swallowed' = swallowed \ these
               /\ strayed' = IF k \in deferred
                             THEN (strayed \cup (repeats \cap (Scopes \X {k}))) \ these
                             ELSE strayed \ these

\* An auto-repeat press.  It is not recorded: without a recorded owner the release will go to
\* whoever is in front by then.
AutoRepeatPress(k) ==
  /\ k \in held /\ ~blocked
  /\ deferred' = deferred \ {k}
  /\ IF Live(keyOwner[k]) # None
     THEN PressFor(keyOwner[k], k) /\ UNCHANGED history
     ELSE /\ PressFor(InFront, k)
          /\ strayed' = strayed \cup ((Views \cap {InFront}) \X {k})
          /\ UNCHANGED swallowed
  /\ UNCHANGED <<views, owners, keyOwner, blocked, power, held>>

\* Mutant: the release goes to whoever is in front.
EmitKeyReleaseToFront(k) ==
  /\ ReleaseFor(InFront, k)
  /\ keyOwner' = [keyOwner EXCEPT ![k] = None]
  /\ powerPressed' = (powerPressed /\ k # Power)
  /\ powerTimer' = (powerTimer /\ k # Power)

EmitKeyRelease(k) ==
  /\ ReleaseFor(IF Live(keyOwner[k]) # None THEN keyOwner[k] ELSE InFront, k)
  /\ keyOwner' = [keyOwner EXCEPT ![k] = None]
  /\ powerPressed' = (powerPressed /\ k # Power)
  /\ powerTimer' = (powerTimer /\ k # Power)

\* The key is let go while the input is blocked: the event ends in the filter.
ReleaseSwallowed(k) ==
  /\ blocked /\ k \in held
  /\ held' = held \ {k}
  /\ swallowed' = swallowed \cup (repeats \cap (Scopes \X {k}))
  /\ UNCHANGED <<views, owners, keyOwner, deferred, blocked, power, handlers, strayed>>

KeyRelease(k) ==
  /\ ~blocked /\ k \in held
  /\ held' = held \ {k}
  /\ deferred' = deferred \ {k}
  /\ EmitKeyRelease(k)
  /\ UNCHANGED <<views, owners, blocked>>

\* A release flagged as auto-repeat: the end of the hold, or one of the pairs of a key that is
\* still down.
AutoRepeatRelease(k) ==
  /\ ~blocked /\ k \in held
  /\ \/ held' = held \ {k}
     \/ held' = held
  /\ deferred' = deferred \cup {k}
  /\ UNCHANGED <<views, owners, keyOwner, blocked, power, handlers, history>>

\* The timer does not ask whether the input is blocked, or the key still down: a press of a pair
\* that comes later than 150 ms finds the release delivered.
DeferredRelease(k) ==
  /\ k \in deferred
  /\ deferred' = deferred \ {k}
  /\ EmitKeyRelease(k)
  /\ UNCHANGED <<views, owners, blocked, held>>

PowerHeld ==
  /\ powerTimer
  /\ powerTimer' = FALSE
  /\ UNCHANGED <<views, owners, keyOwner, deferred, blocked, powerPressed, handlers, held,
                 history>>

-----------------------------------------------------------------------------
ControlStep(v) ==
  \/ SetBaseOwner(v) \/ TakeControl(v) \/ ReleaseControl(v)
  \/ ViewShown(v) \/ ViewHidden(v) \/ OwnerDestroyed(v)

KeyStep(k) ==
  \/ KeyPress(k) \/ AutoRepeatPress(k) \/ KeyRelease(k) \/ AutoRepeatRelease(k)
  \/ ReleaseSwallowed(k) \/ DeferredRelease(k)

Next ==
  \/ \E v \in Views : ControlStep(v)
  \/ ReleaseTop
  \/ \E b \in BOOLEAN : BlockInput(b)
  \/ \E k \in Keys : KeyStep(k)
  \/ \E p \in timers : LongPressTimeout(p)
  \/ PowerHeld

Spec == Init /\ [][Next]_vars

-----------------------------------------------------------------------------
(***************************************************************************)
(* A scope regards a key as held (repeats, and with it a running           *)
(* long-press timer) only while the key is down or its release deferred.   *)
(* Otherwise it missed the release in one of the known ways: the release   *)
(* was swallowed by a blocked input, its deferral was cancelled by a press *)
(* that went to another view, or the press was an auto-repeat whose owner  *)
(* nobody had recorded.                                                    *)
(***************************************************************************)
NoStuckKey ==
  \A p \in repeats : p[2] \in held \cup deferred \/ p \in swallowed \cup strayed

(***************************************************************************)
(* The hold of the power key, which opens the power-off dialog, runs only  *)
(* while that key is down or its release deferred: blocking the input ends *)
(* it, since the release will not be seen (blockInput).  A hold left       *)
(* behind would open the dialog by itself, or never again.                 *)
(***************************************************************************)
PowerHoldIsReal ==
  /\ powerTimer => powerPressed
  /\ powerPressed => Power \in held \cup deferred

(***************************************************************************)
(* What the controller and the scopes believe of the keys is true: neither *)
(* regards a key as held that is up, but for the ways named above.         *)
(***************************************************************************)
HoldsAreReal == NoStuckKey /\ PowerHoldIsReal

(***************************************************************************)
(* A press a scope sees runs its short or its long action, never both      *)
(* (onKeyReleasedFor against the long-press timer).                        *)
(***************************************************************************)
OneActionPerPress == \A p \in Scopes \X Keys : ran[p] <= 1

=============================================================================
