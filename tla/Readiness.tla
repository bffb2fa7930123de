----------------------------- MODULE Readiness -----------------------------
(***************************************************************************)
(* The readiness check before a sequence runs, for one activity and one    *)
(* direction: checkActivityReadiness() of qml/main.qml, which waits for    *)
(* the devices after a wakeup, on checkSequenceReadiness() of              *)
(* entityController.cpp, which answers from the core or after 4 seconds.   *)
(*                                                                         *)
(* External and modelled from its use: the core, which answers a check,    *)
(* fails it or never does, and the clock, which lets a deadline pass at    *)
(* any time.  The answer of an earlier check of the same press is settled  *)
(* and changes nothing: only the last one is kept.                         *)
(***************************************************************************)
EXTENDS Naturals, FiniteSets

CONSTANT Presses     \* bound: the presses of the user

ASSUME PressesAssumption == IsFiniteSet(Presses)

VARIABLES
  phase,          \* of each press: its way through checkActivityReadiness()
  check,          \* of each press: the timer, the request and the results of its last check
  late,           \* presses whose deadline has passed
  waitFor,        \* presses with waitForDevices
  windowSeen,     \* presses with windowSeen
  waits,          \* activityReadinessWaits[key]
  ran,            \* presses whose proceed() was called
  together,       \* history: presses that waited at the same time
  exists,         \* the activity is there
  readyCheck,     \* its ready_check option
  devicesReady,   \* the core would report the run as ready
  coreConnected,  \* ui.coreConnected
  wasSuspended,   \* EntityController: m_wasSuspended
  resumeWindow    \* EntityController: m_resumeWindow

pressVars == <<phase, check, late, waitFor, windowSeen, waits, ran, together>>
envVars == <<exists, readyCheck, devicesReady, coreConnected, wasSuspended, resumeWindow>>
readinessVars == <<pressVars, envVars>>

Phases == {"idle", "checking", "waiting", "asked", "done"}
NoCheck == [ceiling |-> FALSE, response |-> FALSE, results |-> 0]

In(phases) == {p \in Presses : phase[p] \in phases}

\* Among others: the same decision is never asked twice at once.
ReadinessTypeOK ==
  /\ phase \in [Presses -> Phases]
  /\ Cardinality(In({"asked"})) <= 1
  /\ check \in [Presses -> [ceiling : BOOLEAN, response : BOOLEAN, results : Nat]]
  /\ late \subseteq Presses /\ waitFor \subseteq Presses /\ windowSeen \subseteq Presses
  /\ waits \in BOOLEAN /\ ran \subseteq Presses /\ together \subseteq SUBSET Presses
  /\ exists \in BOOLEAN /\ readyCheck \in BOOLEAN /\ devicesReady \in BOOLEAN
  /\ coreConnected \in BOOLEAN /\ wasSuspended \in BOOLEAN /\ resumeWindow \in BOOLEAN

ReadinessInit ==
  /\ phase = [p \in Presses |-> "idle"]
  /\ check = [p \in Presses |-> NoCheck]
  /\ late = {} /\ waitFor = {} /\ windowSeen = {} /\ waits = FALSE /\ ran = {} /\ together = {}
  /\ exists = TRUE /\ coreConnected = TRUE
  /\ readyCheck \in BOOLEAN /\ devicesReady \in BOOLEAN
  /\ wasSuspended = FALSE /\ resumeWindow = FALSE

\* getResumePending()
ResumePending == wasSuspended \/ resumeWindow

-----------------------------------------------------------------------------
(* The ways a press ends                                                   *)

Enters(p, next) == phase' = [phase EXCEPT ![p] = next]

\* Mutant: an early exit leaves the wait behind.
LeaveForgetful(p) == Enters(p, "done") /\ UNCHANGED <<waits, ran, together>>

\* The activity is gone.
Leave(p) == Enters(p, "done") /\ waits' = FALSE /\ UNCHANGED <<ran, together>>

Proceed(p) == Enters(p, "done") /\ waits' = FALSE /\ ran' = ran \cup {p} /\ UNCHANGED together

Wait(p) ==
  /\ Enters(p, "waiting")
  /\ waits' = TRUE
  /\ together' = together \cup {{p, q} : q \in In({"waiting"}) \ {p}}
  /\ UNCHANGED ran

\* readinessCheck.show(): the same report is not shown twice.
Ask(p) ==
  /\ Enters(p, IF In({"asked"}) = {} THEN "asked" ELSE "done")
  /\ waits' = FALSE
  /\ UNCHANGED <<ran, together>>

\* Mutant: the window extends the deadline with every check.
ExtendsAlways(p, seen) == resumeWindow

\* The wakeup was reported while the press was waiting already: once, it gets the full window.
Extends(p, seen) == p \notin seen /\ resumeWindow

(***************************************************************************)
(* The callback of requestSequenceReadiness(), with the verdict "ready",   *)
(* "notReady" (which stands for warnings too) or "none" without a report.  *)
(* The sets are the presses with windowSeen and with waitForDevices.       *)
(***************************************************************************)
Decide(p, verdict, seen, waiters) ==
  IF ~exists
  THEN Leave(p) /\ windowSeen' = seen /\ UNCHANGED late
  ELSE IF verdict = "ready"
  THEN Proceed(p) /\ windowSeen' = seen /\ UNCHANGED late
  ELSE /\ windowSeen' = IF Extends(p, seen) THEN seen \cup {p} ELSE seen
       /\ late' = IF Extends(p, seen) THEN late \ {p} ELSE late
       /\ IF p \in waiters /\ ResumePending /\ coreConnected /\ p \notin late'
          THEN Wait(p)
          ELSE IF verdict = "none" \/ ~readyCheck THEN Proceed(p) ELSE Ask(p)

-----------------------------------------------------------------------------
(* Checks                                                                  *)

\* checkSequenceReadiness()
Request(p) ==
  /\ check' = [check EXCEPT ![p] = [ceiling |-> TRUE, response |-> TRUE, results |-> 0]]
  /\ Enters(p, "checking")
  /\ UNCHANGED <<waits, ran, together, late>>

\* step(); without a connection nothing is requested and there is no report.
Step(p, seen, waiters) ==
  /\ waitFor' = waiters
  /\ IF ~exists THEN Leave(p) /\ windowSeen' = seen /\ UNCHANGED <<check, late>>
     ELSE IF ~readyCheck /\ p \notin waiters
     THEN Proceed(p) /\ windowSeen' = seen /\ UNCHANGED <<check, late>>
     ELSE IF coreConnected THEN Request(p) /\ windowSeen' = seen
     ELSE Decide(p, "none", seen, waiters) /\ UNCHANGED check

\* checkActivityReadiness(): a press is ignored while another one is waiting.
Press(p) ==
  /\ phase[p] = "idle"
  /\ exists
  /\ IF waits
     THEN /\ Enters(p, "done")
          /\ UNCHANGED <<check, late, waitFor, windowSeen, waits, ran, together>>
     ELSE Step(p, IF resumeWindow THEN windowSeen \cup {p} ELSE windowSeen,
                  IF ResumePending THEN waitFor \cup {p} ELSE waitFor)
  /\ UNCHANGED envVars

\* The callback of ui.setTimeOut(1000, step)
PollTimer(p) ==
  /\ phase[p] = "waiting"
  /\ Step(p, windowSeen, waitFor)
  /\ UNCHANGED envVars

\* Mutant: the first answer does not keep the other one quiet.
IsSettledNever(p) == FALSE

\* *settled
IsSettled(p) == check[p].results > 0

\* sequenceReadinessResult() reaches the press that waits for this check.
Answer(p, part, verdict) ==
  LET rest == [check[p] EXCEPT ![part] = FALSE]
  IN IF IsSettled(p)
     THEN /\ check' = [check EXCEPT ![p] = rest]
          /\ UNCHANGED <<phase, late, windowSeen, waits, ran, together>>
     ELSE /\ check' = [check EXCEPT ![p] = [rest EXCEPT !.results = @ + 1]]
          /\ IF phase[p] = "checking" THEN Decide(p, verdict, windowSeen, waitFor)
             ELSE UNCHANGED <<phase, late, windowSeen, waits, ran, together>>

\* readinessCheckTimeout
CeilingPasses(p) ==
  /\ check[p].ceiling
  /\ Answer(p, "ceiling", "none")
  /\ UNCHANGED <<waitFor, envVars>>

\* The report, or the error of the request or of its timeout.
CoreAnswers(p) ==
  /\ check[p].response
  /\ \E verdict \in {IF devicesReady THEN "ready" ELSE "notReady", "none"} :
       Answer(p, "response", verdict)
  /\ UNCHANGED <<waitFor, envVars>>

DeadlinePasses(p) ==
  /\ phase[p] \in {"checking", "waiting"}
  /\ late' = late \cup {p}
  /\ UNCHANGED <<phase, check, waitFor, windowSeen, waits, ran, together, envVars>>

\* Proceed and Cancel of the report shown; the activity may be gone by then.
UserDecides(p) ==
  /\ phase[p] = "asked"
  /\ Enters(p, "done")
  /\ ran' \in IF exists THEN {ran, ran \cup {p}} ELSE {ran}
  /\ UNCHANGED <<check, late, waitFor, windowSeen, waits, together, envVars>>

-----------------------------------------------------------------------------
(* What happens around it                                                  *)

ActivityDeleted ==
  /\ exists
  /\ exists' = FALSE
  /\ UNCHANGED <<pressVars, readyCheck, devicesReady, coreConnected, wasSuspended, resumeWindow>>

ReadyCheckChanged ==
  /\ readyCheck' = ~readyCheck
  /\ UNCHANGED <<pressVars, exists, devicesReady, coreConnected, wasSuspended, resumeWindow>>

DevicesChange ==
  /\ devicesReady' = ~devicesReady
  /\ UNCHANGED <<pressVars, exists, readyCheck, coreConnected, wasSuspended, resumeWindow>>

ConnectionChanges ==
  /\ coreConnected' = ~coreConnected
  /\ UNCHANGED <<pressVars, exists, readyCheck, devicesReady, wasSuspended, resumeWindow>>

\* onPowerModeChanged(SUSPEND)
Suspend ==
  /\ wasSuspended' = TRUE
  /\ UNCHANGED <<pressVars, exists, readyCheck, devicesReady, coreConnected, resumeWindow>>

\* onPowerModeChanged(NORMAL)
WakeupReported ==
  /\ wasSuspended
  /\ wasSuspended' = FALSE /\ resumeWindow' = TRUE
  /\ UNCHANGED <<pressVars, exists, readyCheck, devicesReady, coreConnected>>

\* onResumeTimerTimeout()
ResumeWindowCloses ==
  /\ resumeWindow
  /\ resumeWindow' = FALSE
  /\ UNCHANGED <<pressVars, exists, readyCheck, devicesReady, coreConnected, wasSuspended>>

-----------------------------------------------------------------------------

ReadinessNext ==
  \/ \E p \in Presses : Press(p) \/ PollTimer(p) \/ CeilingPasses(p) \/ CoreAnswers(p)
  \/ \E p \in Presses : DeadlinePasses(p) \/ UserDecides(p)
  \/ ActivityDeleted \/ ReadyCheckChanged \/ DevicesChange \/ ConnectionChanges
  \/ Suspend \/ WakeupReported \/ ResumeWindowCloses

ReadinessSpec == ReadinessInit /\ [][ReadinessNext]_readinessVars

\* Timers fire and the clock runs on.  Nothing is assumed of the core and the user.
ReadinessFairness ==
  \A p \in Presses :
    /\ WF_readinessVars(PollTimer(p))
    /\ WF_readinessVars(CeilingPasses(p))
    /\ WF_readinessVars(DeadlinePasses(p))

ReadinessFairSpec == ReadinessSpec /\ ReadinessFairness

-----------------------------------------------------------------------------
(* Properties                                                              *)

(***************************************************************************)
(* The ceiling of 4 seconds and the answer of the core race: the caller of *)
(* checkSequenceReadiness() gets one result, whichever comes first.        *)
(***************************************************************************)
AnsweredOnce == \A p \in Presses : check[p].results <= 1

(***************************************************************************)
(* activityReadinessWaits[key] blocks every further press: it is never     *)
(* left set without a press that is still on its way, or the activity      *)
(* could not be started any more.                                          *)
(***************************************************************************)
NoOrphanedWait == waits => In({"checking", "waiting"}) # {}

(***************************************************************************)
(* A press is always decided: the sequence runs, the user is asked, or it  *)
(* is dropped; with a core that never answers, devices that never come     *)
(* back, and a remote that is suspended and woken again and again.         *)
(***************************************************************************)
EveryPressDecided ==
  \A p \in Presses : phase[p] \in {"checking", "waiting"} ~> phase[p] \in {"asked", "done"}

(***************************************************************************)
(* main.qml:181: a second press while the first one is waiting "would run  *)
(* the sequence one more time once the devices are back", and is ignored.  *)
(* The wait is noted only after the first answer: a press before that      *)
(* passes the test, and both wait and run.                                 *)
(***************************************************************************)
RunsOncePerWait == \A p, q \in ran : {p, q} \notin together

=============================================================================
