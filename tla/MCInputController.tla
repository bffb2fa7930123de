-------------------------- MODULE MCInputController --------------------------
(***************************************************************************)
(* Values for TLC: the main container with a popup, the global handlers of *)
(* the window, and the power key, which has long-press handlers.  Keys     *)
(* share only the stack and the block of the input, which the steps of one *)
(* key do not change, so one key shows what any of them may meet.          *)
(***************************************************************************)
EXTENDS InputController

CONSTANTS main, popup, window, off

LongPressKeys == {main, window} \X {off}

=============================================================================
