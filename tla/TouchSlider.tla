----------------------------- MODULE TouchSlider -----------------------------
(***************************************************************************)
(* The slider on the screen that turns a touch into commands for an entity *)
(* (qml/components/TouchSliderVolume.qml and its five siblings, loaded by  *)
(* TouchSlider.qml).  The signals come as TouchStream has them, which is   *)
(* what TouchDevice implements.  Distances and gains are abstracted: a     *)
(* move sets any target.                                                   *)
(***************************************************************************)
CONSTANTS Values,
          Rest, \* the target of a slider that saw no press yet
          NoCommand

ASSUME NoCommandAssumption == NoCommand \notin Values
ASSUME RestAssumption == Rest \in Values

VARIABLES
  heard,                   \* the last signal of the device
  enabled, value,           \* the entity
  armed, sliderActive, target,    \* a slider is loaded; touchSliderActive; targetVolume
  updating, closing,        \* updateDataTimer, releaseTimer
  overlay,                  \* the popup is open
  command,                  \* what this step asks of the entity
  taken,                    \* history: how the last press was taken
  ignored, orphaned         \* history

entity == <<enabled, value>>
slider == <<armed, sliderActive, target, updating, closing, overlay, taken, ignored, orphaned>>
sliderVars == <<heard, entity, slider, command>>

Heard == INSTANCE TouchStream WITH signal <- heard

\* The slider agrees with its timer.
SliderTypeOK ==
  /\ heard \in {"none", "pressed", "moved", "released"}
  /\ enabled \in BOOLEAN /\ value \in Values /\ target \in Values
  /\ armed \in BOOLEAN /\ sliderActive \in BOOLEAN
  /\ updating = sliderActive /\ (sliderActive => armed)
  /\ closing \in BOOLEAN /\ (closing => armed) /\ overlay \in BOOLEAN
  /\ command \in Values \cup {NoCommand}
  /\ taken \in {"accepted", "unavailable", "unarmed"} /\ ignored \in BOOLEAN /\ orphaned \in BOOLEAN

SliderInit ==
  /\ Heard!Init
  /\ enabled \in BOOLEAN /\ value \in Values /\ target = Rest
  /\ armed = FALSE /\ sliderActive = FALSE /\ updating = FALSE /\ closing = FALSE /\ overlay = FALSE
  /\ command = NoCommand /\ taken = "unarmed" /\ ignored = FALSE /\ orphaned = FALSE

-----------------------------------------------------------------------------
(***************************************************************************)
(* The slider on the screen, which handles each signal as it is emitted.   *)
(***************************************************************************)
Send(v) == command' = IF value # v THEN v ELSE NoCommand

OnTouchPressed ==
  /\ command' = NoCommand
  /\ \/ /\ armed /\ enabled
        /\ sliderActive' = TRUE /\ target' = value /\ updating' = TRUE
        /\ closing' = FALSE /\ overlay' = TRUE
        /\ taken' = "accepted" /\ ignored' = FALSE /\ orphaned' = FALSE
     \/ /\ ~(armed /\ enabled)
        /\ taken' = IF armed THEN "unavailable" ELSE "unarmed"
        /\ UNCHANGED <<sliderActive, target, updating, closing, overlay, ignored, orphaned>>

OnTouchXChanged ==
  /\ command' = NoCommand
  /\ IF armed /\ enabled /\ sliderActive THEN target' \in Values ELSE target' = target
  /\ UNCHANGED <<sliderActive, updating, closing, overlay, taken, ignored, orphaned>>

\* Mutant: the timer runs on after the release.
OnTouchReleasedKeepsTimer ==
  /\ IF armed /\ enabled
       THEN /\ Send(target)
            /\ closing' = TRUE
            /\ UNCHANGED <<sliderActive, updating, ignored>>
       ELSE /\ command' = NoCommand /\ ignored' = TRUE
            /\ UNCHANGED <<sliderActive, updating, closing>>
  /\ UNCHANGED <<target, overlay, taken, orphaned>>

\* Mutant: without a change of the value there is nothing to end.
OnTouchReleasedUnchanged ==
  /\ IF armed /\ enabled
       THEN /\ Send(target)
            /\ sliderActive' = FALSE /\ updating' = FALSE
            /\ closing' = (closing \/ value # target) /\ ignored' = FALSE
       ELSE /\ command' = NoCommand /\ ignored' = TRUE
            /\ UNCHANGED <<sliderActive, updating, closing>>
  /\ UNCHANGED <<target, overlay, taken, orphaned>>

OnTouchReleased ==
  /\ IF armed /\ enabled
       THEN /\ Send(target)
            /\ sliderActive' = FALSE /\ updating' = FALSE
            /\ closing' = TRUE /\ ignored' = FALSE
       ELSE /\ command' = NoCommand /\ ignored' = TRUE
            /\ UNCHANGED <<sliderActive, updating, closing>>
  /\ UNCHANGED <<target, overlay, taken, orphaned>>

Signal ==
  /\ \/ Heard!Emit("pressed") /\ OnTouchPressed
     \/ Heard!Emit("moved") /\ OnTouchXChanged
     \/ Heard!Emit("released") /\ OnTouchReleased
  /\ UNCHANGED <<entity, armed>>

\* The device was reopened: nothing tells the slider.
DeviceReset ==
  /\ Heard!Reset /\ command' = NoCommand
  /\ UNCHANGED <<entity, slider>>

UpdateTimeout ==
  /\ updating /\ value # target
  /\ Send(target)
  /\ UNCHANGED <<heard, entity, slider>>

ReleaseTimeout ==
  /\ closing
  /\ closing' = FALSE /\ overlay' = FALSE /\ orphaned' = FALSE /\ command' = NoCommand
  /\ UNCHANGED <<heard, entity, armed, sliderActive, target, updating, taken, ignored>>

\* BACK, HOME or a tap next to the slider.
CloseOverlay ==
  /\ overlay
  /\ overlay' = FALSE /\ orphaned' = FALSE /\ command' = NoCommand
  /\ UNCHANGED <<heard, entity, armed, sliderActive, target, updating, closing, taken, ignored>>

\* The loader drops the slider with its timers, or loads another one: the
\* screen, the entity, its features or the setting changed.
Rearm(on) ==
  /\ armed' = on /\ sliderActive' = FALSE /\ target' = Rest /\ updating' = FALSE /\ closing' = FALSE
  /\ taken' = "unarmed" /\ ignored' = FALSE /\ orphaned' = overlay /\ command' = NoCommand
  /\ UNCHANGED <<heard, entity, overlay>>

EntityEvent ==
  /\ enabled' \in BOOLEAN /\ value' \in Values /\ command' = NoCommand
  /\ UNCHANGED <<heard, slider>>

-----------------------------------------------------------------------------
SliderNext ==
  \/ Signal \/ DeviceReset
  \/ UpdateTimeout \/ ReleaseTimeout
  \/ CloseOverlay \/ (\E on \in BOOLEAN : Rearm(on)) \/ EntityEvent

SliderSpec == SliderInit /\ [][SliderNext]_sliderVars

\* A running timer fires.
SliderFairSpec == SliderSpec /\ WF_sliderVars(ReleaseTimeout)

-----------------------------------------------------------------------------
(***************************************************************************)
(* The entity is asked for a value only during a touch the slider accepted *)
(* or, by a known fault, at the end of one it did not accept:              *)
(* onTouchReleased() asks whether the entity is available by then, not     *)
(* whether the touch was accepted.                                         *)
(***************************************************************************)
SendsInGesture ==
  [][command' # NoCommand => \/ sliderActive
                             \/ taken # "accepted" /\ heard' = "released"]_sliderVars

(***************************************************************************)
(* Once the finger is gone the 200 ms timer does not go on forcing the     *)
(* entity to the value of the touch, unless the release came when the      *)
(* entity was unavailable and onTouchReleased returned early.              *)
(***************************************************************************)
StopsOnRelease == updating /\ heard = "released" => ignored

(***************************************************************************)
(* The popup of a touch that ended goes away by itself, or a finger is     *)
(* back.  There are two exceptions: the slider in it was replaced and took *)
(* the timer with it, or the touch ended when the entity was unavailable   *)
(* and onTouchReleased() returned before it started the timer.  A touch    *)
(* that was lost with its device has no release and is not spoken of.      *)
(***************************************************************************)
OverlayCloses ==
  overlay /\ heard = "released" /\ ~orphaned /\ ~(ignored /\ updating)
    ~> ~overlay \/ heard \in {"pressed", "moved"} \/ orphaned

=============================================================================
