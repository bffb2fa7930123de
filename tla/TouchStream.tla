------------------------------ MODULE TouchStream ------------------------------
(***************************************************************************)
(* What the touch slider of the remote promises the views that listen to   *)
(* it (the signals of hardware/touchSlider.h): a touch is one press, any   *)
(* number of moves and at most one release, in that order.  Only when the  *)
(* device was lost and found again may a touch end without a release.      *)
(***************************************************************************)

VARIABLE signal \* the last signal, "none" before the first one

Legal(before, after) ==
  IF after = "pressed" THEN before \in {"none", "released"}
                       ELSE before \in {"pressed", "moved"}

Init == signal = "none"

Emit(s) == Legal(signal, s) /\ signal' = s

\* The device was reopened: a touch under way is forgotten.
Reset == signal' = "none"

Next == Reset \/ \E s \in {"pressed", "moved", "released"} : Emit(s)

Spec == Init /\ [][Next]_signal

=============================================================================
