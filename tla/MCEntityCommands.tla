-------------------------- MODULE MCEntityCommands --------------------------
(***************************************************************************)
(* Values for TLC: a device whose key is held, and an assistant with the   *)
(* sessions of its voice overlay.  The end of a session stands for every   *)
(* command that may be repeated and asks the user when it cannot be sent.  *)
(***************************************************************************)
EXTENDS EntityCommands

CONSTANTS tv, assistant

Command(x, k, s) == [entity |-> x, kind |-> k, session |-> s]

AllCommands == {Command(tv, "repeat", 1),
                Command(assistant, "voice_start", 1),
                Command(assistant, "voice_end", AnySession)}

=============================================================================
