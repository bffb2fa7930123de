------------------------------ MODULE Activity ------------------------------
(***************************************************************************)
(* An activity as the UI sees it (ui/entity/activity.cpp): its state, the  *)
(* list of running activities, the progress screen of a sequence started   *)
(* here, and what counts as a start from outside the remote.               *)
(*                                                                         *)
(* External and modelled from its use: the core, which runs the sequences, *)
(* accepts or refuses a command, and reports every state in order; and     *)
(* other clients, which start and stop the activity too.  A command is     *)
(* outstanding until the core has answered it, see EntityCommands.         *)
(***************************************************************************)
EXTENDS Naturals, Sequences

CONSTANTS
  MaxStarts,    \* bound: times the activity is turned on
  MaxChanges,   \* bound: changes of its state in the core
  MaxLosses,    \* bound: connections lost
  MaxCommands   \* bound: commands of the user

ASSUME ActivityAssumption ==
  MaxStarts \in Nat /\ MaxChanges \in Nat /\ MaxLosses \in Nat /\ MaxCommands \in Nat

\* The states that do not say whether the activity is on: lastReported is kept behind them.
Vague == {"Unavailable", "Unknown"}

\* The states a sequence ends in, besides On and Off.
Outcomes == {"Error", "Timeout", "Completed"} \cup Vague
States == {"On", "Off", "Running"} \cup Outcomes
Directions == {"On", "Off"}
Starts == 1..MaxStarts

VARIABLES
  core,               \* in the core: state, direction of a run, number of the last start, and
                      \* whether the activity is still on behind a vague state
  changes,            \* bound: state changes of the core
  connected,
  losses,             \* bound: connections lost
  commands,           \* bound: commands of the user
  outstanding,        \* commands the core has not answered
  offered,            \* failed commands with a "Try again" notification
  command,            \* history: the last command
  accepted,           \* history: the core accepted it
  inbox,              \* state reports on their way
  state,              \* m_state
  lastReported,       \* m_lastReportedState
  startedFromRemote,  \* m_startedFromRemote
  sequencePending,    \* m_sequencePending
  running,            \* the activity is in m_activities
  progress,           \* the progress screen waits for the outcome of a run
  externals           \* history: startedExternally() signals for each start

coreVars == <<core, changes>>
uiVars == <<state, lastReported, startedFromRemote, sequencePending, running, progress, externals>>
linkVars == <<connected, losses>>
commandVars == <<commands, outstanding, offered, command, accepted>>
vars == <<coreVars, uiVars, linkVars, commandVars, inbox>>

Report == [state : States, start : 0..MaxStarts]

TypeOK ==
  /\ core \in [state : States, direction : Directions, start : 0..MaxStarts, faded : BOOLEAN]
  /\ changes \in 0..MaxChanges /\ losses \in 0..MaxLosses /\ commands \in 0..MaxCommands
  /\ connected \in BOOLEAN /\ accepted \in BOOLEAN
  /\ outstanding \subseteq Directions /\ offered \subseteq Directions /\ command \in Directions
  /\ inbox \in Seq(Report)
  /\ state \in States
  /\ lastReported \in (States \ Vague) \cup {"None"}
  /\ startedFromRemote \in BOOLEAN /\ sequencePending \in BOOLEAN
  /\ running \in BOOLEAN /\ progress \in BOOLEAN
  /\ externals \in [Starts -> Nat]

\* addEntityObject(): the activity is created from what the core reports of it.
Init ==
  /\ \E s \in States \ {"On", "Running"} :
       core = [state |-> s, direction |-> "On", start |-> 0, faded |-> FALSE]
  /\ changes = 0
  /\ connected = TRUE /\ losses = 0 /\ commands = 0
  /\ outstanding = {} /\ offered = {} /\ command = "On" /\ accepted = FALSE /\ inbox = <<>>
  /\ state = core.state
  /\ lastReported = IF state \in Vague THEN "None" ELSE state
  /\ startedFromRemote = FALSE /\ sequencePending = FALSE
  /\ running = FALSE /\ progress = FALSE
  /\ externals = [s \in Starts |-> 0]

-----------------------------------------------------------------------------
(* The core                                                                *)

\* The core counts the activity as started, also while it cannot tell its state.
Counts(c) == c.state = "On" \/ c.faded

\* What the core reports; the start the activity is on from is history.
Current(c) == [state |-> c.state, start |-> IF Counts(c) THEN c.start ELSE 0]

\* Every change is reported to the remote, if it is connected.
CoreTurns(c) ==
  /\ changes < MaxChanges
  /\ changes' = changes + 1
  /\ core' = c
  /\ inbox' = IF connected THEN Append(inbox, Current(c)) ELSE inbox

\* A run begins, for this remote or for another client.
Begin(direction) ==
  /\ core.state # "Running"
  /\ direction = "On" => core.start < MaxStarts
  /\ LET n == IF direction = "On" THEN core.start + 1 ELSE core.start
     IN \E s \in {"Running", direction} :
          CoreTurns([state |-> s, direction |-> direction, start |-> n, faded |-> FALSE])

OtherClientRuns(direction) ==
  /\ core.state # direction
  /\ Begin(direction)
  /\ UNCHANGED <<linkVars, uiVars, commandVars>>

RunEnds ==
  /\ core.state = "Running"
  /\ \E s \in Outcomes \cup {core.direction} : CoreTurns([core EXCEPT !.state = s])
  /\ UNCHANGED <<linkVars, uiVars, commandVars>>

\* The core cannot tell the state of an activity that is on.
StateLost ==
  /\ core.state = "On"
  /\ \E s \in Vague : CoreTurns([core EXCEPT !.state = s, !.faded = TRUE])
  /\ UNCHANGED <<linkVars, uiVars, commandVars>>

\* It is still on: nobody started it.
StateBack ==
  /\ core.faded
  /\ CoreTurns([core EXCEPT !.state = "On", !.faded = FALSE])
  /\ UNCHANGED <<linkVars, uiVars, commandVars>>

\* A run that fails at once, without a Running state in between.
RunFails ==
  /\ core.state # "Running"
  /\ \E s \in Outcomes : CoreTurns([core EXCEPT !.state = s, !.faded = FALSE])

CoreAccepts(direction) ==
  /\ direction \in outstanding
  /\ outstanding' = outstanding \ {direction}
  /\ accepted' = (accepted \/ direction = command)
  /\ Begin(direction) \/ RunFails
  /\ UNCHANGED <<linkVars, uiVars, commands, offered, command>>

CoreRefuses(direction) ==
  /\ direction \in outstanding
  /\ outstanding' = outstanding \ {direction}
  /\ offered' \in {offered, offered \cup {direction}}
  /\ UNCHANGED <<coreVars, linkVars, uiVars, commands, command, accepted, inbox>>

-----------------------------------------------------------------------------
(* Commands                                                                *)

\* Without a connection a command fails at once.
Send(direction) ==
  IF connected
  THEN outstanding' = outstanding \cup {direction} /\ UNCHANGED offered
  ELSE offered' = offered \cup {direction} /\ UNCHANGED outstanding

(***************************************************************************)
(* turnOn(), turnOff() and the part of onEntityCommand() that concerns the *)
(* activity.  A command that is still outstanding is not sent again.       *)
(***************************************************************************)
Turn(direction) ==
  /\ commands < MaxCommands
  /\ state # direction
  /\ commands' = commands + 1
  /\ sequencePending' = TRUE
  /\ startedFromRemote' = (startedFromRemote \/ direction = "On")
  /\ progress' = TRUE
  /\ Send(direction)
  /\ command' = direction
  /\ accepted' = FALSE
  /\ UNCHANGED <<coreVars, linkVars, inbox, state, lastReported, running, externals>>

\* The action of the notification sends the command alone: not through onEntityCommand().
TryAgain(direction) ==
  /\ direction \in offered \ outstanding
  /\ commands < MaxCommands
  /\ commands' = commands + 1
  /\ IF connected
     THEN outstanding' = outstanding \cup {direction} /\ offered' = offered \ {direction}
     ELSE UNCHANGED <<outstanding, offered>>
  /\ UNCHANGED <<coreVars, linkVars, uiVars, command, accepted, inbox>>

\* BACK and HOME close the progress screen.
CloseProgress ==
  /\ progress
  /\ progress' = FALSE
  /\ UNCHANGED <<coreVars, linkVars, commandVars, inbox, state, lastReported,
                 startedFromRemote, sequencePending, running, externals>>

-----------------------------------------------------------------------------
(* State reports                                                           *)

IsResult(s) == s # "Running"

\* Mutant: every repeated state is dropped as churn.
ConcludesNothing(s) == FALSE

\* concludesOurSequence: On and Off are left out, they always change the state.
ConcludesOurSequence(s) == sequencePending /\ IsResult(s) /\ s \notin {"On", "Off"}

\* Mutant: the state shown before decides, and that is Unavailable after a reconnect.
WasOnScreen == state = "On"

\* wasOn
WasOn == lastReported = "On"

\* Mutant: that the activity is unavailable is remembered like any other state.
LastReportedAfterAny(s) == s

LastReportedAfter(s) == IF s \in Vague THEN lastReported ELSE s

\* Mutant: an activity that was on before is taken to be in the list still.
EnlistedOnce(s) ==
  CASE s = "On" -> ~WasOn \/ running
    [] s \in {"Off", "Error", "Timeout"} -> FALSE
    [] OTHER -> running

\* addToActivities and removeFromActivities
Enlisted(s) ==
  CASE s = "On" -> TRUE
    [] s \in {"Off", "Error", "Timeout"} -> FALSE
    [] OTHER -> running

\* m_startedFromRemote after the state was reported
Mark(s) == startedFromRemote /\ s \notin {"On", "Off", "Error", "Timeout"}

IsExternalStart(s) == s = "On" /\ ~startedFromRemote /\ ~WasOn

\* LoadingScreen.qml onStateChanged(): the progress screen names the states that end the run it
\* shows.  Neither Running nor Unknown is among them, although Unknown is a result above.
ProgressAfter(s) == progress /\ s \in {"Running", "Unknown"}

\* updateAttribute("State")
StateReported(report) ==
  LET s == report.state
  IN IF state = s /\ ~ConcludesOurSequence(s)
     THEN UNCHANGED uiVars
     ELSE /\ state' = s
          /\ sequencePending' = (sequencePending /\ ~IsResult(s))
          /\ lastReported' = LastReportedAfter(s)
          /\ progress' = ProgressAfter(s)
          /\ running' = Enlisted(s)
          /\ startedFromRemote' = Mark(s)
          /\ externals' = IF IsExternalStart(s)
                          THEN [externals EXCEPT ![report.start] = @ + 1] ELSE externals

Receive ==
  /\ inbox # <<>>
  /\ StateReported(Head(inbox))
  /\ inbox' = Tail(inbox)
  /\ UNCHANGED <<coreVars, linkVars, commandVars>>

\* onCoreDisconnected(): setState() bypasses updateAttribute(); pending commands are dropped and the
\* list of running activities is cleared.
CoreDisconnected ==
  /\ connected
  /\ losses < MaxLosses
  /\ losses' = losses + 1
  /\ connected' = FALSE
  /\ inbox' = <<>>
  /\ outstanding' = {}
  /\ state' = "Unavailable"
  /\ progress' = ProgressAfter("Unavailable")
  /\ running' = FALSE
  /\ UNCHANGED <<coreVars, commands, offered, command, accepted, lastReported, startedFromRemote,
                 sequencePending, externals>>

\* The reload after a connection reports the state again.
CoreConnected ==
  /\ ~connected
  /\ connected' = TRUE
  /\ inbox' = Append(inbox, Current(core))
  /\ UNCHANGED <<coreVars, losses, uiVars, commandVars>>

-----------------------------------------------------------------------------

Next ==
  \/ \E d \in Directions : OtherClientRuns(d) \/ CoreAccepts(d) \/ CoreRefuses(d)
  \/ \E d \in Directions : Turn(d) \/ TryAgain(d)
  \/ RunEnds \/ StateLost \/ StateBack
  \/ CloseProgress
  \/ Receive
  \/ CoreDisconnected
  \/ CoreConnected

Spec == Init /\ [][Next]_vars

-----------------------------------------------------------------------------
(* Properties                                                              *)

\* Everything that was sent in either direction was received.
Quiet == connected /\ inbox = <<>> /\ outstanding = {}

(***************************************************************************)
(* The list of running activities (the activity bar, "Turn off all") is    *)
(* cleared with the connection.  Whatever was missed meanwhile and however *)
(* runs ended, it has the activity again while it is On, also one that was *)
(* On before, and not once it is Off or has failed.                        *)
(***************************************************************************)
ListMatchesCore ==
  Quiet => /\ core.state = "On" => running
           /\ core.state \in {"Off", "Error", "Timeout"} => ~running

(***************************************************************************)
(* The progress screen never waits for an outcome that was already         *)
(* reported: once a command was accepted and its run has ended in a state  *)
(* that the screen ends on (On, Off and Completed, Error, Timeout and      *)
(* Unavailable), it has ended, also for a run that ends in the state it    *)
(* started from.  Unknown is the exception: it clears m_sequencePending    *)
(* like every outcome, but the screen goes on.                             *)
(***************************************************************************)
ProgressEnds ==
  Quiet /\ accepted /\ core.state \notin {"Running", "Unknown"} => ~progress

(***************************************************************************)
(* A start is reported as one from outside at most once: an activity that  *)
(* is shown unavailable while the core is away and is On again after it    *)
(* was not started by anyone.                                              *)
(***************************************************************************)
ReportedOncePerStart == \A n \in Starts : externals[n] <= 1

=============================================================================
