---------------------------- MODULE ActivityProofs ----------------------------
(***************************************************************************)
(* Safety of an activity for any number of starts, changes, commands and   *)
(* lost connections, and of the readiness check before it for every finite *)
(* set of presses.                                                         *)
(*                                                                         *)
(* The activity: what the UI shows lags behind the core by the reports on  *)
(* their way, so the invariant speaks of them.  The last one is the state  *)
(* of the core (FollowsCore); a progress screen that waits has the report  *)
(* that ends it among them, or a run that will cause it (ProgressInv); the *)
(* reports of one start are consecutive, so that only the first of them    *)
(* can find another state remembered (StartsInv).                          *)
(*                                                                         *)
(* The readiness check: a step moves at most one press, and every way a    *)
(* press stops waiting takes the wait flag off.  That is stated once, as   *)
(* Moves, of all the ways through checkActivityReadiness(), and the        *)
(* invariants follow from it.                                              *)
(***************************************************************************)
EXTENDS Activity, Readiness, FiniteSetTheorems, SequenceTheorems, TLAPS

-----------------------------------------------------------------------------
(* The activity: what is known of the reports on their way                 *)

\* The link carries nothing while it is down.
LinkInv == ~connected => inbox = <<>> /\ outstanding = {}

\* The last report on its way, or the state shown, is the state of the core.
FollowsCore ==
  connected => core.state = IF inbox = <<>> THEN state ELSE inbox[Len(inbox)].state

\* What the list of running activities and the last reported state say of the state shown.
ListFollowsState ==
  /\ state \notin Vague => lastReported = state
  /\ state = "On" => running
  /\ state \in {"Off", "Error", "Timeout"} => ~running

\* The states that leave the progress screen open.
Steps == {"Running", "Unknown"}

\* The reports that end the progress screen of the last command, whatever is shown before them.
Concludes(s) == s \in {"Error", "Timeout", "Unavailable", "Completed", command}

\* What is shown when report i is received.
Before(i) == IF i = 1 THEN state ELSE inbox[i - 1].state

\* Report i ends the screen: for what it says, or because it ends a step.
EndsScreen(i) ==
  \/ Concludes(inbox[i].state)
  \/ inbox[i].state \notin Steps /\ Before(i) \in Steps

\* The screen is open since the last command.  Once the core has accepted it, the report that
\* ends the screen is on its way, or the core is in a step of the run.
ProgressInv ==
  /\ progress => state # command /\ (sequencePending \/ state \in Steps)
  /\ progress /\ accepted =>
       connected /\ (core.state \in Steps \/ \E i \in DOMAIN inbox : EndsScreen(i))

\* The core is On or on its way there: the start has a number.
StartedOn(c) == Counts(c) \/ (c.state = "Running" /\ c.direction = "On")

\* No report of start n was received or is on its way.
Fresh(n) ==
  /\ n \in Starts => externals[n] = 0
  /\ \A i \in DOMAIN inbox : inbox[i].start # n

\* Start n was already told of: until the core leaves it nothing else is reported.
Told(n) == n \in Starts /\ externals[n] > 0

\* The reports of one start are consecutive, up to the core while it counts the activity as on.
StartsInv ==
  /\ \A i \in DOMAIN inbox : /\ inbox[i].start <= core.start
                             /\ inbox[i].start # 0 => inbox[i].state \in {"On"} \cup Vague
  /\ core.faded => core.state \in Vague
  /\ StartedOn(core) => core.start # 0
  /\ \A n \in Starts : n > core.start => externals[n] = 0
  /\ StartedOn(core) /\ core.state = "Running" => Fresh(core.start)
  /\ \A i, j \in DOMAIN inbox : \A k \in i..j :
       inbox[i].start = inbox[j].start /\ inbox[i].start # 0 => inbox[k].start = inbox[i].start
  /\ Counts(core) =>
       \A i, k \in DOMAIN inbox : inbox[i].start = core.start /\ i <= k
                                    => inbox[k].start = core.start
  /\ \A n \in Starts : externals[n] > 0 =>
       \A j \in DOMAIN inbox : inbox[j].start = n =>
         lastReported = "On" /\ \A i \in 1..j : inbox[i].start = n
  /\ Counts(core) /\ Told(core.start) =>
       lastReported = "On" /\ \A i \in DOMAIN inbox : inbox[i].start = core.start

IInv == /\ TypeOK /\ LinkInv /\ FollowsCore /\ ListFollowsState /\ ProgressInv
        /\ StartsInv /\ ReportedOncePerStart

CoreStates ==
  [state : States, direction : Directions, start : 0..MaxStarts, faded : BOOLEAN]

-----------------------------------------------------------------------------
(* Reports on their way                                                    *)

LEMMA Constants == MaxStarts \in Nat /\ 0 \in 0..MaxStarts
  BY ActivityAssumption

LEMMA CurrentIsReport ==
  ASSUME NEW c \in CoreStates
  PROVE  /\ Current(c) \in Report /\ Current(c).state = c.state
         /\ Current(c).start = IF Counts(c) THEN c.start ELSE 0
  BY Constants DEF CoreStates, Current, Report

\* A report is appended behind those that wait.
LEMMA Appended ==
  ASSUME NEW q \in Seq(Report), NEW r \in Report
  PROVE  /\ Append(q, r) \in Seq(Report) /\ Append(q, r) # <<>>
         /\ Len(q) \in Nat /\ Len(Append(q, r)) = Len(q) + 1
         /\ DOMAIN q = 1..Len(q) /\ DOMAIN Append(q, r) = 1..(Len(q) + 1)
         /\ \A i \in 1..Len(q) : Append(q, r)[i] = q[i]
         /\ Append(q, r)[Len(q) + 1] = r
  BY AppendProperties, LenProperties

\* The first report is taken; the others move up.
LEMMA Taken ==
  ASSUME NEW q \in Seq(Report), q # <<>>
  PROVE  /\ Head(q) \in Report /\ Head(q) = q[1] /\ Tail(q) \in Seq(Report)
         /\ Len(q) \in Nat \ {0} /\ Len(Tail(q)) = Len(q) - 1
         /\ DOMAIN q = 1..Len(q) /\ DOMAIN Tail(q) = 1..(Len(q) - 1)
         /\ \A i \in 1..(Len(q) - 1) : Tail(q)[i] = q[i + 1]
         /\ Tail(q) = <<>> <=> Len(q) = 1
<1>1. /\ Head(q) \in Report /\ Tail(q) \in Seq(Report) /\ Len(Tail(q)) = Len(q) - 1
      /\ \A i \in 1..Len(Tail(q)) : Tail(q)[i] = q[i + 1]
  BY HeadTailProperties
<1>2. Len(q) \in Nat \ {0} /\ DOMAIN q = 1..Len(q) /\ Head(q) = q[1]
  BY LenProperties, EmptySeq
<1>3. DOMAIN Tail(q) = 1..Len(Tail(q))
  BY <1>1, LenProperties
<1>4. Tail(q) = <<>> <=> Len(q) = 1
  <2>1. \A t \in Seq(Report) : t = <<>> <=> Len(t) = 0
    BY EmptySeq
  <2>2. Tail(q) = <<>> <=> Len(Tail(q)) = 0
    BY <1>1, <2>1
  <2>3. Len(Tail(q)) = 0 <=> Len(q) = 1
    BY <1>1, <1>2
  <2> QED BY <2>2, <2>3
<1> QED BY <1>1, <1>2, <1>3, <1>4

-----------------------------------------------------------------------------
(* The core                                                                *)

\* The activity stays on: its state was lost or is back.
SameStart(c) == Counts(core) /\ Counts(c) /\ c.start = core.start

(***************************************************************************)
(* What a change of the core may do: a state On, or a run towards it, has  *)
(* a number that no report carries yet, or it was on before.               *)
(***************************************************************************)
Change(c) ==
  /\ c \in CoreStates /\ c.start >= core.start /\ (c.faded => c.state \in Vague)
  /\ StartedOn(c) => (c.start # 0 /\ Fresh(c.start)) \/ SameStart(c)

\* The report that a change adds for a connected UI.
ReportAdded(c) ==
  /\ core' = c
  /\ inbox' = IF connected THEN Append(inbox, Current(c)) ELSE inbox

LEMMA BeginIsChange ==
  ASSUME IInv, NEW direction \in Directions, Begin(direction)
  PROVE  \E c : Change(c) /\ CoreTurns(c) /\ core.state # "Running"
                /\ c.direction = direction /\ c.state \in {"Running", direction}
<1> DEFINE n == IF direction = "On" THEN core.start + 1 ELSE core.start
<1>1. PICK s \in {"Running", direction} :
        CoreTurns([state |-> s, direction |-> direction, start |-> n, faded |-> FALSE])
  BY DEF Begin
<1> DEFINE c == [state |-> s, direction |-> direction, start |-> n, faded |-> FALSE]
<1>2. core.start \in 0..MaxStarts /\ core.state # "Running" /\ inbox \in Seq(Report)
  BY DEF IInv, TypeOK, Begin
<1>3. n \in 0..MaxStarts /\ n >= core.start /\ (direction = "On" => n = core.start + 1)
  BY <1>2, Constants DEF Begin
<1>4. c \in CoreStates
  BY <1>3 DEF CoreStates, States, Directions
<1>5. ASSUME StartedOn(c) PROVE n # 0 /\ Fresh(n)
  <2>1. direction = "On"
    BY <1>5 DEF StartedOn, Counts, Directions
  <2>2. n = core.start + 1 /\ n > core.start
    BY <1>2, <1>3, <2>1, Constants
  <2>3. n \in Starts => externals[n] = 0
    BY <2>2 DEF IInv, StartsInv
  <2>4. ASSUME NEW i \in DOMAIN inbox
        PROVE  inbox[i].start <= core.start /\ inbox[i].start \in 0..MaxStarts
    <3>1. inbox[i] \in Report
      BY <1>2, ElementOfSeq, LenProperties
    <3> QED BY <3>1 DEF IInv, StartsInv, Report
  <2> QED BY <1>2, <2>2, <2>3, <2>4, Constants DEF Fresh
<1> QED BY <1>1, <1>2, <1>3, <1>4, <1>5 DEF Change

\* Without a Running state in between, and at the end of a run.
LEMMA FailureIsChange ==
  ASSUME IInv, NEW s \in Outcomes
  PROVE  /\ Change([core EXCEPT !.state = s, !.faded = FALSE])
         /\ [core EXCEPT !.state = s, !.faded = FALSE].state = s
<1>1. core \in CoreStates
  BY DEF IInv, TypeOK, CoreStates
<1> DEFINE c == [core EXCEPT !.state = s, !.faded = FALSE]
<1>2. c \in CoreStates /\ c.state = s /\ c.faded = FALSE /\ c.start = core.start
  BY <1>1 DEF CoreStates, States
<1>3. ~StartedOn(c)
  BY <1>2 DEF StartedOn, Counts, Outcomes, Vague
<1>4. c.start >= core.start
  BY <1>1, <1>2, Constants DEF CoreStates
<1> QED BY <1>2, <1>3, <1>4 DEF Change

LEMMA RunEndIsChange ==
  ASSUME IInv, core.state = "Running", NEW s \in Outcomes \cup {core.direction}
  PROVE  Change([core EXCEPT !.state = s]) /\ [core EXCEPT !.state = s].state = s
<1> DEFINE c == [core EXCEPT !.state = s]
<1>1. core \in CoreStates /\ core.faded = FALSE /\ core.direction \in {"On", "Off"}
  BY DEF IInv, TypeOK, CoreStates, StartsInv, Vague, Directions
<1>2. /\ c \in CoreStates /\ c.start = core.start /\ c.state = s /\ c.faded = FALSE
      /\ c.start >= core.start
  BY <1>1, Constants DEF CoreStates, States, Directions
<1>3. StartedOn(c) => StartedOn(core)
  BY <1>1, <1>2 DEF StartedOn, Counts, Outcomes, Vague
<1> QED BY <1>2, <1>3 DEF Change, IInv, StartsInv

LEMMA StateLostIsChange ==
  ASSUME IInv, core.state = "On", NEW s \in Vague
  PROVE  Change([core EXCEPT !.state = s, !.faded = TRUE])
<1> DEFINE c == [core EXCEPT !.state = s, !.faded = TRUE]
<1>1. core \in CoreStates
  BY DEF IInv, TypeOK, CoreStates
<1>2. /\ c \in CoreStates /\ c.start = core.start /\ c.state = s /\ c.faded = TRUE
  BY <1>1 DEF CoreStates, States, Outcomes
<1>3. c.start >= core.start
  BY <1>1, <1>2, Constants DEF CoreStates
<1> QED BY <1>2, <1>3 DEF Change, SameStart, Counts

LEMMA StateBackIsChange ==
  ASSUME IInv, core.faded
  PROVE  Change([core EXCEPT !.state = "On", !.faded = FALSE])
<1> DEFINE c == [core EXCEPT !.state = "On", !.faded = FALSE]
<1>1. core \in CoreStates
  BY DEF IInv, TypeOK, CoreStates
<1>2. /\ c \in CoreStates /\ c.start = core.start /\ c.state = "On" /\ c.faded = FALSE
  BY <1>1 DEF CoreStates, States
<1>3. c.start >= core.start
  BY <1>1, <1>2, Constants DEF CoreStates
<1> QED BY <1>2, <1>3 DEF Change, SameStart, Counts

(***************************************************************************)
(* A change keeps what is known of the reports: a new number is fresh, and *)
(* one that is left is not reported again.                                 *)
(***************************************************************************)
LEMMA ChangeKeepsStarts ==
  ASSUME IInv, NEW c, Change(c), ReportAdded(c), UNCHANGED <<externals, lastReported>>
  PROVE  StartsInv' /\ core' \in CoreStates /\ inbox' \in Seq(Report)
<1> DEFINE r == Current(c)
<1>1. /\ inbox \in Seq(Report) /\ core \in CoreStates /\ connected \in BOOLEAN
      /\ externals \in [Starts -> Nat] /\ StartsInv
  BY DEF IInv, TypeOK, CoreStates
<1>2. /\ r \in Report /\ r.state = c.state /\ r.start = IF Counts(c) THEN c.start ELSE 0
      /\ c \in CoreStates /\ c.start \in 0..MaxStarts /\ core.start \in 0..MaxStarts
      /\ core' = c /\ core.start <= c.start
      /\ c.faded => c.state \in Vague
  BY <1>1, CurrentIsReport DEF Change, ReportAdded, CoreStates
<1>3. /\ StartedOn(c) => c.start # 0
      /\ StartedOn(c) /\ ~SameStart(c) => Fresh(c.start)
  BY <1>1 DEF Change, SameStart, StartsInv, StartedOn
<1>4. /\ Counts(c) => StartedOn(c)
      /\ Counts(c) => c.state \in {"On"} \cup Vague
      /\ c.state = "Running" => ~Counts(c) /\ ~SameStart(c)
  BY <1>2 DEF StartedOn, Counts, SameStart, Vague
<1>5. \A n \in Starts : n > c.start => externals[n] = 0
  BY <1>1, <1>2, Constants DEF StartsInv, Starts
<1>6. Counts(c) /\ Told(c.start) =>
        SameStart(c) /\ lastReported = "On" /\ \A i \in DOMAIN inbox : inbox[i].start = c.start
  <2> SUFFICES ASSUME Counts(c), Told(c.start)
               PROVE  /\ SameStart(c) /\ lastReported = "On"
                      /\ \A i \in DOMAIN inbox : inbox[i].start = c.start
    OBVIOUS
  <2>1. SameStart(c)
    BY <1>1, <1>3, <1>4 DEF Fresh, Told
  <2> QED BY <1>1, <2>1 DEF SameStart, StartsInv
<1>7. CASE ~connected
  <2>1. inbox' = inbox /\ DOMAIN inbox = {} /\ inbox = <<>>
    BY <1>7 DEF ReportAdded, IInv, LinkInv
  <2>2. StartedOn(c) /\ c.state = "Running" => Fresh(c.start)'
    BY <1>3, <1>4, <2>1 DEF Fresh
  <2> HIDE DEF r
  <2>3. StartsInv'
    BY <1>2, <1>3, <1>5, <1>6, <2>1, <2>2 DEF StartsInv, StartedOn, Counts, Told
  <2> QED BY <1>1, <1>2, <2>1, <2>3
<1>8. CASE connected
  <2> DEFINE m == Len(inbox)
  <2>1. /\ inbox' \in Seq(Report) /\ m \in Nat
        /\ DOMAIN inbox = 1..m /\ DOMAIN inbox' = 1..(m + 1)
        /\ \A i \in 1..m : inbox'[i] = inbox[i]
        /\ inbox'[m + 1] = r
    BY <1>1, <1>2, <1>8, Appended DEF ReportAdded
  <2>2. ASSUME NEW i \in 1..m PROVE inbox[i].start \in 0..MaxStarts
    <3>1. inbox[i] \in Report
      BY <1>1, ElementOfSeq
    <3> QED BY <3>1 DEF Report
  <2> HIDE DEF r
  <2>3. ASSUME NEW i \in 1..m
        PROVE  /\ inbox[i].start <= core.start
               /\ inbox[i].start # 0 => inbox[i].state \in {"On"} \cup Vague
               /\ StartedOn(c) /\ ~SameStart(c) => inbox[i].start # c.start
    BY <1>1, <1>3, <2>1 DEF StartsInv, Fresh
  <2>4. r.start # 0 => Counts(c) /\ r.start = c.start
    BY <1>2
  <2>5. \A i \in 1..(m + 1) : /\ inbox'[i].start <= c.start
                              /\ inbox'[i].start # 0 => inbox'[i].state \in {"On"} \cup Vague
    BY <1>2, <1>4, <2>1, <2>2, <2>3, <2>4, Constants
  <2>6. \* a report of the start that the core is on from is followed by such reports only
        ASSUME Counts(c), NEW i \in 1..m, inbox[i].start = c.start, NEW k \in i..m
        PROVE  inbox[k].start = c.start
    <3>1. SameStart(c)
      BY <1>4, <2>3, <2>6
    <3> QED BY <1>1, <2>1, <2>6, <3>1 DEF SameStart, StartsInv
  <2>7. ASSUME NEW i \in 1..(m + 1), NEW j \in 1..(m + 1), NEW k \in i..j,
               inbox'[i].start = inbox'[j].start, inbox'[i].start # 0
        PROVE  inbox'[k].start = inbox'[i].start
    <3>1. CASE j \in 1..m
      <4>1. i \in 1..m /\ k \in 1..m
        BY <2>1, <3>1
      <4> QED BY <1>1, <2>1, <2>7, <3>1, <4>1 DEF StartsInv
    <3>2. CASE j = m + 1
      <4>1. Counts(c) /\ inbox'[j].start = c.start
        BY <2>1, <2>4, <2>7, <3>2
      <4>2. CASE k = m + 1
        BY <2>7, <3>2, <4>2
      <4>3. CASE k \in 1..m
        <5>1. i \in 1..m /\ k \in i..m /\ inbox[i].start = c.start
          BY <2>1, <2>7, <4>1, <4>3
        <5> QED BY <2>1, <2>6, <2>7, <4>1, <4>3, <5>1
      <4>4. k \in 1..(m + 1)
        BY <2>1, <3>2
      <4> QED BY <2>1, <4>2, <4>3, <4>4
    <3> QED BY <2>1, <3>1, <3>2
  <2>8. ASSUME Counts(c), NEW i \in 1..(m + 1), NEW k \in 1..(m + 1),
               inbox'[i].start = c.start, i <= k
        PROVE  inbox'[k].start = c.start
    <3>1. CASE k = m + 1
      BY <1>2, <2>1, <2>8, <3>1
    <3>2. CASE k \in 1..m
      <4>1. i \in 1..m /\ k \in i..m /\ inbox[i].start = c.start
        BY <2>1, <2>8, <3>2
      <4> QED BY <2>1, <2>6, <2>8, <3>2, <4>1
    <3> QED BY <2>1, <3>1, <3>2
  <2>9. ASSUME NEW n \in Starts, externals[n] > 0, NEW j \in 1..(m + 1), inbox'[j].start = n
        PROVE  lastReported = "On" /\ \A i \in 1..j : inbox'[i].start = n
    <3>1. n # 0
      BY Constants DEF Starts
    <3>2. CASE j \in 1..m
      <4>1. inbox[j].start = n
        BY <2>1, <2>9, <3>2
      <4>2. lastReported = "On" /\ \A i \in 1..j : inbox[i].start = n
        BY <1>1, <2>1, <2>9, <3>2, <4>1 DEF StartsInv
      <4> QED BY <2>1, <3>2, <4>2
    <3>3. CASE j = m + 1
      <4>1. Counts(c) /\ Told(c.start) /\ r.start = n /\ c.start = n
        BY <2>1, <2>4, <2>9, <3>1, <3>3 DEF Told
      <4> QED BY <1>6, <2>1, <3>3, <4>1
    <3> QED BY <2>1, <3>2, <3>3
  <2>10. Counts(c) /\ Told(c.start) =>
           lastReported = "On" /\ \A i \in 1..(m + 1) : inbox'[i].start = c.start
    BY <1>2, <1>6, <2>1
  <2>11. StartedOn(c) /\ c.state = "Running" => Fresh(c.start)'
    <3> SUFFICES ASSUME StartedOn(c), c.state = "Running" PROVE Fresh(c.start)'
      OBVIOUS
    <3>1. r.start = 0 /\ Fresh(c.start) /\ c.start # 0
      BY <1>2, <1>3, <1>4
    <3> QED BY <1>2, <2>1, <3>1 DEF Fresh
  <2>12. StartsInv'
    BY <1>2, <1>3, <1>5, <2>1, <2>5, <2>7, <2>8, <2>9, <2>10, <2>11
    DEF StartsInv, StartedOn, Counts, Told
  <2> QED BY <1>2, <2>1, <2>12
<1> QED BY <1>1, <1>7, <1>8

LEMMA ChangeKeepsFollowing ==
  ASSUME IInv, NEW c, Change(c), ReportAdded(c), UNCHANGED <<connected, state>>
  PROVE  FollowsCore'
<1>1. inbox \in Seq(Report) /\ c \in CoreStates /\ core' = c /\ connected \in BOOLEAN
  BY DEF IInv, TypeOK, Change, ReportAdded
<1>2. CASE connected
  <2>1. inbox' # <<>> /\ inbox'[Len(inbox')] = Current(c)
    BY <1>1, <1>2, CurrentIsReport, Appended DEF ReportAdded
  <2> QED BY <1>1, <2>1, CurrentIsReport DEF FollowsCore
<1> QED BY <1>1, <1>2 DEF FollowsCore

\* The change accepts the last command, or follows a step of the run of an accepted one.
LEMMA ChangeKeepsProgress ==
  ASSUME IInv, NEW c, Change(c), ReportAdded(c),
         UNCHANGED <<connected, state, sequencePending, progress, command>>,
         accepted' => accepted \/ (connected /\ (Concludes(c.state) \/ c.state \in Steps))
  PROVE  ProgressInv'
<1> SUFFICES ASSUME progress', accepted'
             PROVE  connected' /\ (c.state \in Steps \/ \E i \in DOMAIN inbox' : EndsScreen(i)')
  BY DEF ProgressInv, IInv, ReportAdded
<1>1. inbox \in Seq(Report) /\ Current(c) \in Report /\ Current(c).state = c.state
  BY CurrentIsReport DEF IInv, TypeOK, Change
<1>2. connected /\ inbox' = Append(inbox, Current(c))
  BY DEF IInv, ProgressInv, ReportAdded
<1> PICK m : m = Len(inbox)
  OBVIOUS
<1>3. /\ DOMAIN inbox = 1..m /\ DOMAIN inbox' = 1..(m + 1) /\ m \in Nat
      /\ \A i \in DOMAIN inbox : inbox'[i] = inbox[i]
      /\ inbox'[m + 1].state = c.state
  BY <1>1, <1>2, Appended
<1>4. CASE Concludes(c.state)
  <2>1. EndsScreen(m + 1)'
    BY <1>3, <1>4 DEF EndsScreen, Concludes
  <2> QED BY <1>2, <1>3, <2>1
<1>5. CASE accepted
  <2>1. core.state \in Steps \/ \E i \in DOMAIN inbox : EndsScreen(i)
    BY <1>5 DEF IInv, ProgressInv
  <2>2. ASSUME NEW i \in DOMAIN inbox, EndsScreen(i)
        PROVE  EndsScreen(i)' /\ i \in DOMAIN inbox'
    <3>1. i \in DOMAIN inbox' /\ (i # 1 => i - 1 \in DOMAIN inbox)
      BY <1>3
    <3> QED BY <1>3, <2>2, <3>1 DEF EndsScreen, Concludes, Before
  <2>3. CASE core.state \in Steps
    <3>1. Before(m + 1)' = core.state
      <4>1. CASE inbox = <<>>
        <5>1. m = 0
          BY <1>1, <4>1, EmptySeq
        <5> QED BY <1>2, <4>1, <5>1 DEF Before, IInv, FollowsCore
      <4>2. CASE inbox # <<>>
        <5>1. m # 0
          BY <1>1, <4>2, EmptySeq
        <5>2. m \in DOMAIN inbox /\ m + 1 # 1 /\ (m + 1) - 1 = m
          BY <1>3, <5>1
        <5> QED BY <1>2, <1>3, <4>2, <5>2 DEF Before, IInv, FollowsCore
      <4> QED BY <4>1, <4>2
    <3>2. c.state \notin Steps => EndsScreen(m + 1)'
      BY <1>3, <2>3, <3>1 DEF EndsScreen
    <3> QED BY <1>2, <1>3, <3>2
  <2> QED BY <1>2, <2>1, <2>2, <2>3
<1> QED BY <1>2, <1>4, <1>5

\* What the steps of the core, of the user and of the link leave alone.
LEMMA ListUntouched ==
  ASSUME IInv, UNCHANGED <<state, lastReported, running, externals>>
  PROVE  ListFollowsState' /\ ReportedOncePerStart'
  BY DEF IInv, ListFollowsState, ReportedOncePerStart

\* A change of the core that leaves the UI alone.
LEMMA ChangeKeepsIInv ==
  ASSUME IInv, NEW c, Change(c), CoreTurns(c), UNCHANGED <<linkVars, uiVars, command>>,
         accepted' \in BOOLEAN, outstanding' \subseteq outstanding,
         UNCHANGED <<commands, offered>>,
         accepted' => accepted \/ (connected /\ (Concludes(c.state) \/ c.state \in Steps))
  PROVE  IInv'
<1>1. /\ ReportAdded(c) /\ changes' \in 0..MaxChanges
      /\ UNCHANGED <<connected, losses, state, lastReported, startedFromRemote, sequencePending,
                     running, progress, externals, command>>
  BY ActivityAssumption DEF CoreTurns, ReportAdded, linkVars, uiVars, IInv, TypeOK
<1>2. StartsInv' /\ core' \in CoreStates /\ inbox' \in Seq(Report)
  BY <1>1, ChangeKeepsStarts
<1>3. FollowsCore' /\ ProgressInv'
  BY <1>1, ChangeKeepsFollowing, ChangeKeepsProgress
<1>4. ListFollowsState' /\ ReportedOncePerStart'
  BY <1>1, ListUntouched
<1>5. LinkInv'
  BY <1>1 DEF IInv, LinkInv, ReportAdded
<1>6. TypeOK'
  BY <1>1, <1>2 DEF IInv, TypeOK, CoreStates
<1> QED BY <1>2, <1>3, <1>4, <1>5, <1>6 DEF IInv

-----------------------------------------------------------------------------
(* The steps                                                               *)

LEMMA OtherClientRunsKeepsIInv ==
  ASSUME IInv, NEW d \in Directions, OtherClientRuns(d)
  PROVE  IInv'
<1>1. /\ Begin(d) /\ UNCHANGED <<linkVars, uiVars>>
      /\ UNCHANGED <<commands, outstanding, offered, command, accepted>>
  BY DEF OtherClientRuns, commandVars
<1>2. PICK c : Change(c) /\ CoreTurns(c) /\ core.state # "Running"
  BY <1>1, BeginIsChange
<1> QED BY <1>1, <1>2, ChangeKeepsIInv DEF IInv, TypeOK

\* A change for which nobody waits: a run ends, the state is lost or is back.
LEMMA CoreChangeKeepsIInv ==
  ASSUME IInv, NEW c, Change(c), CoreTurns(c), UNCHANGED <<linkVars, uiVars, commandVars>>
  PROVE  IInv'
BY ChangeKeepsIInv DEF IInv, TypeOK, commandVars

LEMMA RunEndsKeepsIInv == ASSUME IInv, RunEnds PROVE IInv'
<1>1. PICK s \in Outcomes \cup {core.direction} : CoreTurns([core EXCEPT !.state = s])
  BY DEF RunEnds
<1> DEFINE c == [core EXCEPT !.state = s]
<1>2. Change(c)
  BY RunEndIsChange DEF RunEnds
<1> HIDE DEF c
<1> QED BY <1>1, <1>2, CoreChangeKeepsIInv DEF RunEnds, c

LEMMA StateLostKeepsIInv == ASSUME IInv, StateLost PROVE IInv'
<1>1. PICK s \in Vague : CoreTurns([core EXCEPT !.state = s, !.faded = TRUE])
  BY DEF StateLost
<1> DEFINE c == [core EXCEPT !.state = s, !.faded = TRUE]
<1>2. Change(c)
  BY StateLostIsChange DEF StateLost
<1> HIDE DEF c
<1> QED BY <1>1, <1>2, CoreChangeKeepsIInv DEF StateLost, c

LEMMA StateBackKeepsIInv == ASSUME IInv, StateBack PROVE IInv'
<1> DEFINE c == [core EXCEPT !.state = "On", !.faded = FALSE]
<1>1. Change(c)
  BY StateBackIsChange DEF StateBack
<1> HIDE DEF c
<1> QED BY <1>1, CoreChangeKeepsIInv DEF StateBack, c

LEMMA CoreAcceptsKeepsIInv ==
  ASSUME IInv, NEW d \in Directions, CoreAccepts(d)
  PROVE  IInv'
<1>1. /\ UNCHANGED <<linkVars, uiVars, commands, offered, command>>
      /\ outstanding' \subseteq outstanding /\ accepted' \in BOOLEAN /\ connected
      /\ accepted' => accepted \/ d = command
  BY DEF CoreAccepts, IInv, TypeOK, LinkInv
<1>2. CASE Begin(d)
  <2>1. PICK c : /\ Change(c) /\ CoreTurns(c) /\ core.state # "Running"
                 /\ c.direction = d /\ c.state \in {"Running", d}
    BY <1>2, BeginIsChange
  <2>2. d = command => Concludes(c.state) \/ c.state \in Steps
    BY <2>1 DEF Concludes, Steps
  <2> QED BY <1>1, <2>1, <2>2, ChangeKeepsIInv
<1>3. CASE RunFails
  <2>1. PICK s \in Outcomes : CoreTurns([core EXCEPT !.state = s, !.faded = FALSE])
    BY <1>3 DEF RunFails
  <2> DEFINE c == [core EXCEPT !.state = s, !.faded = FALSE]
  <2>2. Change(c) /\ c.state = s
    BY FailureIsChange
  <2>3. Concludes(s) \/ s \in Steps
    BY DEF Concludes, Steps, Outcomes, Vague
  <2> HIDE DEF c
  <2> QED BY <1>1, <2>1, <2>2, <2>3, ChangeKeepsIInv DEF c
<1> QED BY <1>2, <1>3 DEF CoreAccepts

\* A step of the user: what is sent, and what the UI expects of it.
LEMMA CommandKeepsIInv ==
  ASSUME IInv, UNCHANGED <<coreVars, linkVars, inbox, state, lastReported, running, externals>>,
         commands' \in 0..MaxCommands, outstanding' \subseteq Directions,
         offered' \subseteq Directions, command' \in Directions, accepted' \in BOOLEAN,
         startedFromRemote' \in BOOLEAN, sequencePending' \in BOOLEAN, progress' \in BOOLEAN,
         outstanding' \subseteq outstanding \/ connected,
         ProgressInv'
  PROVE  IInv'
<1> USE DEF IInv
<1>1. UNCHANGED <<core, changes, connected, losses>>
  BY DEF coreVars, linkVars
<1>2. TypeOK'
  BY <1>1 DEF TypeOK
<1>3. LinkInv' /\ FollowsCore'
  BY <1>1 DEF LinkInv, FollowsCore
<1>4. ListFollowsState' /\ ReportedOncePerStart'
  BY ListUntouched
<1>5. StartsInv'
  BY <1>1 DEF StartsInv, StartedOn, Counts, Fresh, Told
<1> QED BY <1>2, <1>3, <1>4, <1>5

LEMMA TurnKeepsIInv == ASSUME IInv, NEW d \in Directions, Turn(d) PROVE IInv'
<1>1. ProgressInv'
  BY DEF Turn, ProgressInv
<1>2. outstanding' \subseteq outstanding \/ connected
  BY DEF Turn, Send
<1>3. /\ outstanding' \subseteq Directions /\ offered' \subseteq Directions
      /\ commands' \in 0..MaxCommands /\ startedFromRemote' \in BOOLEAN
  BY ActivityAssumption DEF Turn, Send, IInv, TypeOK
<1> QED BY <1>1, <1>2, <1>3, CommandKeepsIInv DEF Turn

LEMMA TryAgainKeepsIInv == ASSUME IInv, NEW d \in Directions, TryAgain(d) PROVE IInv'
<1>1. /\ outstanding' \subseteq Directions /\ offered' \subseteq Directions
      /\ commands' \in 0..MaxCommands
      /\ outstanding' \subseteq outstanding \/ connected
  BY ActivityAssumption DEF TryAgain, IInv, TypeOK
<1>2. UNCHANGED <<core, changes, connected, losses, inbox, uiVars, command, accepted>>
  BY DEF TryAgain, coreVars, linkVars
<1>3. UNCHANGED <<state, lastReported, startedFromRemote, sequencePending, running, progress,
                  externals>>
  BY <1>2 DEF uiVars
<1>4. ProgressInv'
  BY <1>2, <1>3 DEF IInv, ProgressInv, EndsScreen, Concludes, Before
<1> QED
  BY <1>1, <1>2, <1>3, <1>4, CommandKeepsIInv DEF coreVars, linkVars, IInv, TypeOK

LEMMA CoreRefusesKeepsIInv == ASSUME IInv, NEW d \in Directions, CoreRefuses(d) PROVE IInv'
<1>1. /\ outstanding' \subseteq outstanding /\ offered' \subseteq Directions
      /\ outstanding' \subseteq Directions
  BY DEF CoreRefuses, IInv, TypeOK
<1>2. UNCHANGED <<core, changes, connected, losses, inbox, uiVars, commands, command, accepted>>
  BY DEF CoreRefuses, coreVars, linkVars
<1>3. UNCHANGED <<state, lastReported, startedFromRemote, sequencePending, running, progress,
                  externals>>
  BY <1>2 DEF uiVars
<1>4. ProgressInv'
  BY <1>2, <1>3 DEF IInv, ProgressInv, EndsScreen, Concludes, Before
<1> QED
  BY <1>1, <1>2, <1>3, <1>4, CommandKeepsIInv DEF coreVars, linkVars, IInv, TypeOK

LEMMA CloseProgressKeepsIInv == ASSUME IInv, CloseProgress PROVE IInv'
<1>1. UNCHANGED <<commands, outstanding, offered, command, accepted>>
  BY DEF CloseProgress, commandVars
<1>2. ProgressInv'
  BY DEF CloseProgress, ProgressInv
<1> QED
  BY <1>1, <1>2, CommandKeepsIInv DEF CloseProgress, IInv, TypeOK

LEMMA CoreDisconnectedKeepsIInv == ASSUME IInv, CoreDisconnected PROVE IInv'
<1> USE DEF IInv
<1>1. /\ UNCHANGED <<core, changes, commands, offered, command, accepted, lastReported,
                     startedFromRemote, sequencePending, externals>>
      /\ connected' = FALSE /\ inbox' = <<>> /\ outstanding' = {} /\ state' = "Unavailable"
      /\ losses' \in 0..MaxLosses /\ progress' = FALSE /\ running' = FALSE
  <2>1. losses' \in 0..MaxLosses
    BY ActivityAssumption DEF CoreDisconnected, TypeOK
  <2>2. progress' = FALSE
    BY DEF CoreDisconnected, ProgressAfter
  <2> QED BY <2>1, <2>2 DEF CoreDisconnected, coreVars
<1>2. <<>> \in Seq(Report) /\ DOMAIN <<>> = {}
  BY EmptySeq
<1>3. TypeOK'
  BY <1>1, <1>2 DEF TypeOK, States, Outcomes, Vague
<1>4. LinkInv' /\ FollowsCore' /\ ListFollowsState' /\ ProgressInv' /\ ReportedOncePerStart'
  BY <1>1
  DEF LinkInv, FollowsCore, ListFollowsState, Vague, ProgressInv, ReportedOncePerStart
<1>5. StartsInv'
  BY <1>1, <1>2 DEF StartsInv, StartedOn, Counts, Fresh, Told
<1> QED BY <1>3, <1>4, <1>5

LEMMA CoreConnectedKeepsIInv == ASSUME IInv, CoreConnected PROVE IInv'
<1> USE DEF IInv
<1> DEFINE r == Current(core)
<1>1. /\ UNCHANGED <<core, changes, losses, uiVars, commandVars>>
      /\ connected' = TRUE /\ inbox = <<>> /\ inbox' = Append(inbox, r)
      /\ core \in CoreStates /\ inbox \in Seq(Report)
  BY DEF CoreConnected, coreVars, LinkInv, TypeOK, CoreStates
<1>2. UNCHANGED <<commands, outstanding, offered, command, accepted, state, lastReported,
                  startedFromRemote, sequencePending, running, progress, externals>>
  BY <1>1 DEF uiVars, commandVars
<1>3. /\ r \in Report /\ r.state = core.state
      /\ r.start = (IF Counts(core) THEN core.start ELSE 0)
  BY <1>1, CurrentIsReport
<1>4. /\ inbox' \in Seq(Report) /\ inbox' # <<>> /\ Len(inbox') = 1
      /\ DOMAIN inbox' = {1} /\ inbox'[1] = r
  BY <1>1, <1>3, Appended, EmptySeq
<1> HIDE DEF r
<1>5. TypeOK'
  BY <1>1, <1>2, <1>4 DEF TypeOK
<1>6. LinkInv' /\ FollowsCore' /\ ListFollowsState' /\ ReportedOncePerStart'
  BY <1>1, <1>2, <1>3, <1>4
  DEF LinkInv, FollowsCore, ListFollowsState, ReportedOncePerStart
<1>7. ProgressInv'
  BY <1>1, <1>2 DEF ProgressInv, CoreConnected
<1>8. StartsInv'
  <2>1. r.start # 0 => r.state \in {"On"} \cup Vague
    BY <1>1, <1>3 DEF Counts, StartsInv
  <2>2. r.start <= core.start
    BY <1>1, <1>3, Constants DEF CoreStates
  <2>3. core.state = "Running" => r.start = 0
    BY <1>1, <1>3 DEF Counts, StartsInv, Vague
  <2>4. Counts(core) => r.start = core.start
    BY <1>3
  <2>5. \A k \in 1..1 : k = 1
    OBVIOUS
  <2>6. \A n \in Starts : externals[n] > 0 /\ r.start = n => lastReported = "On"
    BY <1>1, <1>3 DEF StartsInv, Told, Starts
  <2> QED
    BY <1>1, <1>2, <1>4, <2>1, <2>2, <2>3, <2>4, <2>5, <2>6
    DEF StartsInv, StartedOn, Counts, Fresh, Told
<1> QED BY <1>5, <1>6, <1>7, <1>8

(***************************************************************************)
(* A report is received: either it is churn, or it is the state shown from *)
(* then on.                                                                *)
(***************************************************************************)
Effective(s) == state # s \/ ConcludesOurSequence(s)

\* What Receive does to the sequence of reports and to what the UI shows.
Received(r) ==
  /\ inbox \in Seq(Report) /\ inbox # <<>> /\ r = Head(inbox) /\ inbox' = Tail(inbox)
  /\ StateReported(r)
  /\ UNCHANGED <<core, changes, connected, losses, commands, outstanding, offered, command,
                 accepted>>

LEMMA ReceiveIsReceived == ASSUME IInv, Receive PROVE Received(Head(inbox))
  BY DEF IInv, TypeOK, Receive, Received, coreVars, linkVars, commandVars

LEMMA ChurnLeavesAlone ==
  ASSUME NEW r, Received(r), ~Effective(r.state)
  PROVE  UNCHANGED <<state, lastReported, startedFromRemote, sequencePending, running, progress,
                     externals>>
  BY DEF Received, StateReported, Effective, uiVars

LEMMA EffectiveIsShown ==
  ASSUME NEW r, Received(r), Effective(r.state)
  PROVE  /\ state' = r.state
         /\ sequencePending' = (sequencePending /\ ~IsResult(r.state))
         /\ lastReported' = LastReportedAfter(r.state)
         /\ progress' = ProgressAfter(r.state)
         /\ running' = Enlisted(r.state)
         /\ startedFromRemote' = Mark(r.state)
         /\ externals' = IF IsExternalStart(r.state)
                         THEN [externals EXCEPT ![r.start] = @ + 1] ELSE externals
  BY DEF Received, StateReported, Effective

LEMMA ReceivedKeepsType ==
  ASSUME IInv, NEW r, Received(r)
  PROVE  TypeOK'
<1> USE DEF IInv
<1>1. r \in Report /\ inbox' \in Seq(Report)
  BY Taken DEF Received
<1>2. CASE ~Effective(r.state)
  BY <1>1, <1>2, ChurnLeavesAlone DEF TypeOK, Received
<1>3. CASE Effective(r.state)
  <2>1. state' \in States
    BY <1>1, <1>3, EffectiveIsShown DEF Report
  <2>2. lastReported' \in (States \ Vague) \cup {"None"}
    BY <1>1, <1>3, EffectiveIsShown DEF Report, LastReportedAfter, TypeOK
  <2>3. running' \in BOOLEAN
    BY <1>3, EffectiveIsShown DEF Enlisted, TypeOK
  <2>4. sequencePending' \in BOOLEAN /\ progress' \in BOOLEAN /\ startedFromRemote' \in BOOLEAN
    BY <1>3, EffectiveIsShown DEF Mark, ProgressAfter, TypeOK
  <2>5. externals' \in [Starts -> Nat]
    BY <1>3, EffectiveIsShown DEF TypeOK
  <2> QED BY <1>1, <2>1, <2>2, <2>3, <2>4, <2>5 DEF TypeOK, Received
<1> QED BY <1>2, <1>3

LEMMA ReceivedKeepsFollowing ==
  ASSUME IInv, NEW r, Received(r)
  PROVE  LinkInv' /\ FollowsCore' /\ ListFollowsState'
<1> USE DEF IInv
<1>1. state' = r.state
  BY ChurnLeavesAlone, EffectiveIsShown DEF Effective
<1>2. LinkInv'
  BY DEF LinkInv, Received
<1>3. FollowsCore'
  <2>1. /\ r = inbox[1] /\ Len(inbox) \in Nat \ {0} /\ Len(inbox') = Len(inbox) - 1
        /\ \A i \in 1..(Len(inbox) - 1) : inbox'[i] = inbox[i + 1]
        /\ inbox' = <<>> <=> Len(inbox) = 1
    BY Taken DEF Received
  <2>2. connected => core.state = inbox[Len(inbox)].state
    BY DEF FollowsCore, Received
  <2>3. CASE inbox' = <<>>
    BY <1>1, <2>1, <2>2, <2>3 DEF FollowsCore, Received
  <2>4. CASE inbox' # <<>>
    <3>1. inbox'[Len(inbox')] = inbox[Len(inbox)]
      BY <2>1, <2>4
    <3> QED BY <2>2, <2>4, <3>1 DEF FollowsCore, Received
  <2> QED BY <2>3, <2>4
<1>4. ListFollowsState'
  <2>1. CASE ~Effective(r.state)
    BY <2>1, ChurnLeavesAlone DEF ListFollowsState
  <2>2. CASE Effective(r.state)
    BY <1>1, <2>2, EffectiveIsShown DEF ListFollowsState, Enlisted, LastReportedAfter
  <2> QED BY <2>1, <2>2
<1> QED BY <1>2, <1>3, <1>4

\* The report that ends the screen is always effective; every other moves its witness up.
LEMMA ReceivedKeepsProgress ==
  ASSUME IInv, NEW r, Received(r)
  PROVE  ProgressInv'
<1> USE DEF IInv
<1> SUFFICES ASSUME progress'
             PROVE  ProgressInv'
  BY DEF ProgressInv
<1>1. progress /\ state # command /\ (sequencePending \/ state \in Steps)
  <2>1. progress
    BY ChurnLeavesAlone, EffectiveIsShown DEF ProgressAfter
  <2> QED BY <2>1 DEF ProgressInv
<1>2. command \in Directions /\ state' = r.state
  BY ChurnLeavesAlone, EffectiveIsShown DEF TypeOK, Effective
<1>3. Effective(r.state) => r.state \in Steps
  BY EffectiveIsShown DEF ProgressAfter, Steps
<1>4. ~Effective(r.state) => r.state = state /\ ~ConcludesOurSequence(state)
  BY DEF Effective
<1>5. /\ 1 \in DOMAIN inbox /\ ~EndsScreen(1)
      /\ DOMAIN inbox = 1..Len(inbox) /\ DOMAIN inbox' = 1..(Len(inbox) - 1)
      /\ Len(inbox) \in Nat \ {0} /\ inbox[1] = r
      /\ \A i \in 1..(Len(inbox) - 1) : inbox'[i] = inbox[i + 1]
  <2>1. /\ DOMAIN inbox = 1..Len(inbox) /\ DOMAIN inbox' = 1..(Len(inbox) - 1)
        /\ Len(inbox) \in Nat \ {0} /\ inbox[1] = r
        /\ \A i \in 1..(Len(inbox) - 1) : inbox'[i] = inbox[i + 1]
    BY Taken DEF Received
  <2>2. CASE Effective(r.state)
    BY <1>2, <1>3, <2>1, <2>2 DEF EndsScreen, Concludes, Steps, Directions
  <2>3. CASE ~Effective(r.state)
    <3>1. state \in Steps \/ state \in {"On", "Off"}
      BY <1>1, <1>4, <2>3 DEF ConcludesOurSequence, IsResult, Steps
    <3> QED
      BY <1>1, <1>2, <1>4, <2>1, <2>3, <3>1
      DEF EndsScreen, Concludes, Before, Steps, Directions
  <2> QED BY <2>1, <2>2, <2>3
<1>6. state' # command' /\ (sequencePending' \/ state' \in Steps)
  <2>1. CASE ~Effective(r.state)
    BY <1>1, <2>1, ChurnLeavesAlone DEF Received
  <2>2. CASE Effective(r.state)
    BY <1>2, <1>3, <2>2 DEF Received, Steps, Directions
  <2> QED BY <2>1, <2>2
<1>7. ASSUME accepted', core.state \notin Steps
      PROVE  \E i \in DOMAIN inbox' : EndsScreen(i)'
  <2>1. PICK i \in DOMAIN inbox : EndsScreen(i)
    BY <1>1, <1>7 DEF ProgressInv, Received
  <2>2. i # 1 /\ i - 1 \in DOMAIN inbox' /\ inbox'[i - 1] = inbox[i]
    BY <1>5, <2>1
  <2>3. Before(i - 1)' = Before(i)
    <3>1. CASE i = 2
      BY <1>2, <1>5, <3>1 DEF Before
    <3>2. CASE i # 2
      <4>1. i - 1 # 1 /\ (i - 1) - 1 \in 1..(Len(inbox) - 1) /\ ((i - 1) - 1) + 1 = i - 1
        BY <1>5, <2>2, <3>2
      <4> QED BY <1>5, <2>2, <4>1 DEF Before
    <3> QED BY <3>1, <3>2
  <2>4. EndsScreen(i - 1)'
    BY <2>1, <2>2, <2>3 DEF EndsScreen, Concludes, Received
  <2> QED BY <2>2, <2>4
<1>8. accepted' => connected'
  BY <1>1 DEF ProgressInv, Received
<1> QED BY <1>6, <1>7, <1>8 DEF ProgressInv, Received

\* A start is counted with its first report only, and once it is counted what is remembered is On.
LEMMA ReceivedCounts ==
  ASSUME IInv, NEW r, Received(r), NEW n \in Starts
  PROVE  /\ externals'[n] # externals[n] =>
              r.start = n /\ externals[n] = 0 /\ externals'[n] = 1
         /\ r.start = n /\ externals'[n] > 0 => lastReported' = "On"
<1> USE DEF IInv
<1>1. /\ r \in Report /\ r = inbox[1] /\ 1 \in DOMAIN inbox /\ externals \in [Starts -> Nat]
      /\ 1 \in 1..1
  BY Taken DEF Received, TypeOK
<1>2. r.start = n => r.state \in {"On"} \cup Vague
  BY <1>1, Constants DEF StartsInv, Starts
<1>3. r.start = n /\ externals[n] > 0 => lastReported = "On"
  BY <1>1 DEF StartsInv
<1>4. CASE ~Effective(r.state)
  BY <1>3, <1>4, ChurnLeavesAlone
<1>5. CASE Effective(r.state)
  <2>1. externals'[n] # externals[n] =>
          r.start = n /\ IsExternalStart(r.state) /\ externals'[n] = externals[n] + 1
    BY <1>1, <1>5, EffectiveIsShown
  <2>2. r.start = n /\ IsExternalStart(r.state) => externals[n] = 0
    BY <1>1, <1>3 DEF IsExternalStart, WasOn
  <2>3. r.state = "On" => lastReported' = "On"
    BY <1>5, EffectiveIsShown DEF LastReportedAfter, Vague
  <2>4. r.state \in Vague => lastReported' = lastReported
    BY <1>5, EffectiveIsShown DEF LastReportedAfter
  <2>5. externals'[n] # externals[n] => r.state = "On"
    BY <2>1 DEF IsExternalStart
  <2> QED BY <1>1, <1>2, <1>3, <2>1, <2>2, <2>3, <2>4, <2>5
<1> QED BY <1>4, <1>5

LEMMA ReceivedKeepsStarts ==
  ASSUME IInv, NEW r, Received(r)
  PROVE  StartsInv' /\ ReportedOncePerStart'
<1> USE DEF IInv
<1> DEFINE m == Len(inbox) - 1
<1>1. /\ r = inbox[1] /\ Len(inbox) \in Nat \ {0} /\ m \in Nat
      /\ DOMAIN inbox = 1..(m + 1) /\ DOMAIN inbox' = 1..m
      /\ \A i \in 1..m : inbox'[i] = inbox[i + 1] /\ i + 1 \in 1..(m + 1)
      /\ externals \in [Starts -> Nat] /\ externals' \in [Starts -> Nat]
      /\ core' = core /\ core \in CoreStates
  BY Taken, ReceivedKeepsType DEF Received, TypeOK, CoreStates
<1> HIDE DEF m
<1>2. \A n \in Starts :
        /\ externals'[n] # externals[n] =>
             r.start = n /\ externals[n] = 0 /\ externals'[n] = 1
        /\ r.start = n /\ externals'[n] > 0 => lastReported' = "On"
  BY ReceivedCounts
<1>3. ReportedOncePerStart'
  BY <1>1, <1>2 DEF ReportedOncePerStart
<1>4. /\ \A i \in 1..(m + 1) : /\ inbox[i].start <= core.start
                               /\ inbox[i].start # 0 => inbox[i].state \in {"On"} \cup Vague
      /\ core.faded => core.state \in Vague
      /\ StartedOn(core) => core.start # 0
      /\ \A n \in Starts : n > core.start => externals[n] = 0
      /\ StartedOn(core) /\ core.state = "Running" => Fresh(core.start)
      /\ \A i, j \in 1..(m + 1) : \A k \in i..j :
           inbox[i].start = inbox[j].start /\ inbox[i].start # 0 => inbox[k].start = inbox[i].start
      /\ Counts(core) =>
           \A i, k \in 1..(m + 1) : inbox[i].start = core.start /\ i <= k
                                      => inbox[k].start = core.start
  BY <1>1 DEF StartsInv
<1>5. 1 \in 1..(m + 1)
  BY <1>1
<1>6. r.start <= core.start /\ core.start \in 0..MaxStarts /\ r.start \in 0..MaxStarts
  <2>1. r \in Report
    BY Taken DEF Received
  <2> QED BY <1>1, <1>4, <1>5, <2>1 DEF CoreStates, Report
<1>7. \A n \in Starts : n > core.start => externals'[n] = 0
  BY <1>2, <1>4, <1>6, Constants DEF Starts
<1>8. StartedOn(core) /\ core.state = "Running" => Fresh(core.start)'
  <2> SUFFICES ASSUME StartedOn(core), core.state = "Running"
               PROVE  Fresh(core.start)'
    OBVIOUS
  <2>1. Fresh(core.start)
    BY <1>4
  <2>2. core.start \in Starts => externals'[core.start] = 0
    BY <1>1, <1>2, <1>5, <2>1 DEF Fresh
  <2> QED BY <1>1, <2>1, <2>2 DEF Fresh
<1>9. ASSUME NEW i \in 1..m, NEW j \in 1..m, NEW k \in i..j,
             inbox'[i].start = inbox'[j].start, inbox'[i].start # 0
      PROVE  inbox'[k].start = inbox'[i].start
  <2>1. k \in 1..m /\ k + 1 \in (i + 1)..(j + 1)
    BY <1>1
  <2> QED BY <1>1, <1>4, <1>9, <2>1
<1>10. ASSUME NEW n \in Starts, externals'[n] > 0, NEW j \in 1..m, inbox'[j].start = n
       PROVE  lastReported' = "On" /\ \A i \in 1..j : inbox'[i].start = n
  <2>1. inbox[j + 1].start = n /\ j + 1 \in 1..(m + 1) /\ n # 0
    BY <1>1, <1>10, Constants DEF Starts
  <2>2. \A i \in 1..(j + 1) : inbox[i].start = n
    <3>1. CASE externals[n] > 0
      BY <1>1, <2>1, <3>1 DEF StartsInv
    <3>2. CASE r.start = n
      BY <1>1, <1>4, <1>5, <2>1, <3>2
    <3> QED BY <1>1, <1>2, <1>10, <3>1, <3>2
  <2>3. r.start = n
    <3>1. 1 \in 1..(j + 1)
      BY <1>1
    <3> QED BY <1>1, <2>2, <3>1
  <2>4. \A i \in 1..j : i \in 1..m /\ i + 1 \in 1..(j + 1)
    BY <1>1
  <2>5. lastReported' = "On"
    BY <1>2, <1>10, <2>3
  <2> QED BY <1>1, <2>2, <2>4, <2>5
<1>11. ASSUME Counts(core), core.start \in Starts, externals'[core.start] > 0
       PROVE  lastReported' = "On" /\ \A i \in 1..m : inbox'[i].start = core.start
  <2>1. \A i \in 1..(m + 1) : inbox[i].start = core.start
    <3>1. CASE externals[core.start] > 0
      BY <1>1, <1>11, <3>1 DEF StartsInv, Told
    <3>2. CASE r.start = core.start
      BY <1>1, <1>4, <1>5, <1>11, <3>2
    <3> QED BY <1>1, <1>2, <1>11, <3>1, <3>2
  <2> QED BY <1>1, <1>2, <1>5, <1>11, <2>1
<1>12. /\ \A i \in 1..m : /\ inbox'[i].start <= core.start
                          /\ inbox'[i].start # 0 => inbox'[i].state \in {"On"} \cup Vague
       /\ Counts(core) =>
            \A i, k \in 1..m : inbox'[i].start = core.start /\ i <= k
                                 => inbox'[k].start = core.start
  BY <1>1, <1>4
<1>13. StartsInv'
  BY <1>1, <1>4, <1>7, <1>8, <1>9, <1>10, <1>11, <1>12 
  DEF StartsInv, StartedOn, Counts, Told
<1> QED BY <1>3, <1>13

LEMMA ReceiveKeepsIInv == ASSUME IInv, Receive PROVE IInv'
BY ReceiveIsReceived, ReceivedKeepsType, ReceivedKeepsFollowing, ReceivedKeepsProgress,
   ReceivedKeepsStarts DEF IInv

-----------------------------------------------------------------------------
(* The theorems                                                            *)

LEMMA InitIInv == Init => IInv
<1> SUFFICES ASSUME Init PROVE IInv
  OBVIOUS
<1>1. /\ core \in CoreStates /\ core.start = 0 /\ core.state \notin {"On", "Running"} /\ ~core.faded
      /\ connected /\ outstanding = {} /\ ~progress /\ ~running /\ state = core.state
      /\ lastReported = IF state \in Vague THEN "None" ELSE state
      /\ externals = [s \in Starts |-> 0]
  BY Constants DEF Init, CoreStates, Directions
<1>2. inbox = <<>> /\ inbox \in Seq(Report) /\ DOMAIN inbox = {}
  BY EmptySeq DEF Init
<1>3. TypeOK
  <2>1. /\ 0 \in 0..MaxChanges /\ 0 \in 0..MaxLosses /\ 0 \in 0..MaxCommands
        /\ [s \in Starts |-> 0] \in [Starts -> Nat]
    BY ActivityAssumption
  <2>2. state \in States /\ lastReported \in (States \ Vague) \cup {"None"}
    BY <1>1 DEF CoreStates
  <2> QED BY <1>1, <1>2, <2>1, <2>2 DEF Init, TypeOK, CoreStates, Directions
<1>4. LinkInv /\ FollowsCore /\ ListFollowsState /\ ProgressInv /\ ReportedOncePerStart
  BY <1>1, <1>2
  DEF LinkInv, FollowsCore, ListFollowsState, ProgressInv, ReportedOncePerStart
<1>5. StartsInv
  BY <1>1, <1>2 DEF StartsInv, StartedOn, Counts, Fresh, Told
<1> QED BY <1>3, <1>4, <1>5 DEF IInv

LEMMA NextKeepsIInv == IInv /\ [Next]_vars => IInv'
<1> SUFFICES ASSUME IInv, [Next]_vars PROVE IInv'
  OBVIOUS
<1>1. ASSUME NEW d \in Directions,
             OtherClientRuns(d) \/ CoreAccepts(d) \/ CoreRefuses(d) \/ Turn(d) \/ TryAgain(d)
      PROVE  IInv'
  BY <1>1, OtherClientRunsKeepsIInv, CoreAcceptsKeepsIInv, CoreRefusesKeepsIInv, TurnKeepsIInv,
     TryAgainKeepsIInv
<1>2. ASSUME \/ RunEnds \/ StateLost \/ StateBack \/ CloseProgress \/ Receive
             \/ CoreDisconnected \/ CoreConnected
      PROVE  IInv'
  BY <1>2, RunEndsKeepsIInv, StateLostKeepsIInv, StateBackKeepsIInv, CloseProgressKeepsIInv,
     ReceiveKeepsIInv, CoreDisconnectedKeepsIInv,
     CoreConnectedKeepsIInv
<1>3. ASSUME UNCHANGED vars PROVE IInv'
  BY <1>3
  DEF vars, coreVars, uiVars, linkVars, commandVars, IInv, TypeOK, LinkInv, FollowsCore,
      ListFollowsState, ProgressInv, EndsScreen, Concludes, Before, StartsInv, StartedOn, Counts,
      Fresh, Told,
      ReportedOncePerStart
<1> QED BY <1>1, <1>2, <1>3 DEF Next

LEMMA IInvHolds == Spec => []IInv
BY InitIInv, NextKeepsIInv, PTL DEF Spec

\* What the UI keeps of the activity, and what is on its way to it, is well typed.
THEOREM TypeCorrect == Spec => []TypeOK
<1>1. IInv => TypeOK
  BY DEF IInv
<1> QED BY <1>1, IInvHolds, PTL

\* Once the last report is received the state shown is that of the core, and the list of running
\* activities (addToActivities, removeFromActivities) follows it.
THEOREM ListIsRight == Spec => []ListMatchesCore
<1>1. IInv => ListMatchesCore
  BY DEF IInv, FollowsCore, ListFollowsState, ListMatchesCore, Quiet
<1> QED BY <1>1, IInvHolds, PTL

\* A screen that waits has the report that ends it on its way, or a run that will cause it.
THEOREM ScreenEnds == Spec => []ProgressEnds
<1>1. ASSUME IInv PROVE ProgressEnds
  <2>1. inbox = <<>> => DOMAIN inbox = {}
    BY EmptySeq
  <2> QED BY <1>1, <2>1 DEF IInv, ProgressInv, Steps, ProgressEnds, Quiet
<1> QED BY <1>1, IInvHolds, PTL

\* The reports of one start are consecutive, and only the first can find another state remembered.
THEOREM ReportedOnce == Spec => []ReportedOncePerStart
<1>1. IInv => ReportedOncePerStart
  BY DEF IInv
<1> QED BY <1>1, IInvHolds, PTL

-----------------------------------------------------------------------------
(* The readiness check                                                     *)

\* The three invariants are inductive together.
ReadinessInv == ReadinessTypeOK /\ AnsweredOnce /\ NoOrphanedWait

Busy == {"checking", "waiting"}

\* Press p enters a phase.  The wait flag survives only if p is still on its way, or was not.
Moves(p) ==
  \E next \in Phases :
    /\ Enters(p, next)
    /\ next = "asked" => In({"asked"}) = {}
    /\ \/ next \in Busy
       \/ waits' = FALSE
       \/ phase[p] \notin Busy /\ waits' = waits

\* The variables of the presses besides phase and check keep their types.
RestTyped ==
  /\ waits' \in BOOLEAN /\ ran' \subseteq Presses /\ together' \subseteq SUBSET Presses
  /\ late' \subseteq Presses /\ windowSeen' \subseteq Presses

\* The checks keep their types and are answered at most once.
CheckWell ==
  /\ check' \in [Presses -> [ceiling : BOOLEAN, response : BOOLEAN, results : Nat]]
  /\ AnsweredOnce'

-----------------------------------------------------------------------------
(* What the operators of a step do                                         *)

\* The verdict of a check moves the press it belongs to and no other.
LEMMA DecideEffect ==
  ASSUME ReadinessTypeOK, NEW p \in Presses, NEW verdict, NEW seen \in SUBSET Presses, NEW waiters,
         Decide(p, verdict, seen, waiters)
  PROVE  Moves(p) /\ RestTyped
<1> USE DEF Busy, Phases, Moves, RestTyped
<1>1. waits \in BOOLEAN /\ ran \subseteq Presses /\ together \subseteq SUBSET Presses
      /\ late \subseteq Presses
  BY DEF ReadinessTypeOK
<1>2. CASE Leave(p) /\ windowSeen' = seen /\ UNCHANGED late
  BY <1>1, <1>2 DEF Leave
<1>3. CASE Proceed(p) /\ windowSeen' = seen /\ UNCHANGED late
  BY <1>1, <1>3 DEF Proceed
<1>4. CASE /\ windowSeen' = IF Extends(p, seen) THEN seen \cup {p} ELSE seen
           /\ late' = IF Extends(p, seen) THEN late \ {p} ELSE late
           /\ Wait(p) \/ Proceed(p) \/ Ask(p)
  <2>1. late' \subseteq Presses /\ windowSeen' \subseteq Presses
    BY <1>1, <1>4
  <2>2. CASE Wait(p)
    <3>1. In({"waiting"}) \subseteq Presses
      BY DEF In
    <3>2. together' \subseteq SUBSET Presses
      BY <1>1, <2>2, <3>1 DEF Wait
    <3> QED
      BY <1>1, <2>1, <2>2, <3>2 DEF Wait
  <2>3. CASE Proceed(p)
    BY <1>1, <2>1, <2>3 DEF Proceed
  <2>4. CASE Ask(p)
    BY <1>1, <2>1, <2>4 DEF Ask
  <2> QED
    BY <1>4, <2>2, <2>3, <2>4
<1> QED
  BY <1>2, <1>3, <1>4 DEF Decide

\* A poll, or the first step of a press, moves that press and may start a fresh check.
LEMMA StepEffect ==
  ASSUME ReadinessTypeOK, AnsweredOnce, NEW p \in Presses, NEW seen \in SUBSET Presses,
         NEW waiters \in SUBSET Presses, Step(p, seen, waiters)
  PROVE  Moves(p) /\ RestTyped /\ CheckWell /\ waitFor' \subseteq Presses
<1>1. waits \in BOOLEAN /\ ran \subseteq Presses /\ together \subseteq SUBSET Presses
      /\ late \subseteq Presses
      /\ check \in [Presses -> [ceiling : BOOLEAN, response : BOOLEAN, results : Nat]]
  BY DEF ReadinessTypeOK
<1>2. waitFor' \subseteq Presses
  BY DEF Step
<1>3. CheckWell
  <2>1. CASE UNCHANGED check
    BY <1>1, <2>1 DEF CheckWell, AnsweredOnce
  <2>2. CASE Request(p)
    BY <1>1, <2>2 DEF Request, CheckWell, AnsweredOnce
  <2> QED
    BY <2>1, <2>2 DEF Step
<1>4. Moves(p) /\ RestTyped
  <2>1. CASE Leave(p) /\ windowSeen' = seen /\ UNCHANGED late
    BY <1>1, <2>1 DEF Leave, Busy, Phases, Moves, RestTyped
  <2>2. CASE Proceed(p) /\ windowSeen' = seen /\ UNCHANGED late
    BY <1>1, <2>2 DEF Proceed, Busy, Phases, Moves, RestTyped
  <2>3. CASE Request(p) /\ windowSeen' = seen
    BY <1>1, <2>3 DEF Request, Busy, Phases, Moves, RestTyped
  <2>4. CASE Decide(p, "none", seen, waiters)
    BY <2>4, DecideEffect
  <2> QED
    BY <2>1, <2>2, <2>3, <2>4 DEF Step
<1> QED
  BY <1>2, <1>3, <1>4

\* The ceiling and the answer of the core count once between them.
LEMMA AnswerEffect ==
  ASSUME ReadinessTypeOK, AnsweredOnce, NEW p \in Presses, NEW part \in {"ceiling", "response"},
         NEW verdict, Answer(p, part, verdict)
  PROVE  /\ Moves(p) \/ UNCHANGED <<phase, waits>>
         /\ RestTyped /\ CheckWell
<1> DEFINE rest == [check[p] EXCEPT ![part] = FALSE]
<1>1. check \in [Presses -> [ceiling : BOOLEAN, response : BOOLEAN, results : Nat]]
  BY DEF ReadinessTypeOK
<1>2. rest \in [ceiling : BOOLEAN, response : BOOLEAN, results : Nat]
      /\ rest.results = check[p].results
  BY <1>1
<1>3. CheckWell
  <2>1. CASE IsSettled(p) /\ check' = [check EXCEPT ![p] = rest]
    BY <1>1, <1>2, <2>1 DEF CheckWell, AnsweredOnce
  <2>2. CASE ~IsSettled(p) /\ check' = [check EXCEPT ![p] = [rest EXCEPT !.results = @ + 1]]
    <3> DEFINE counted == [rest EXCEPT !.results = @ + 1]
    <3> HIDE DEF rest
    <3>0. check[p].results = 0
      BY <1>1, <2>2 DEF IsSettled
    <3>1. counted \in [ceiling : BOOLEAN, response : BOOLEAN, results : Nat]
          /\ counted.results = 1
      BY <1>2, <3>0
    <3>2. check' = [check EXCEPT ![p] = counted]
      BY <2>2
    <3> HIDE DEF counted
    <3> QED
      BY <1>1, <3>1, <3>2 DEF CheckWell, AnsweredOnce
  <2> QED
    BY <2>1, <2>2 DEF Answer
<1>4. (Moves(p) \/ UNCHANGED <<phase, waits>>) /\ RestTyped
  <2>1. CASE UNCHANGED <<phase, late, windowSeen, waits, ran, together>>
    BY <2>1 DEF ReadinessTypeOK, RestTyped
  <2>2. CASE Decide(p, verdict, windowSeen, waitFor)
    <3>1. windowSeen \in SUBSET Presses
      BY DEF ReadinessTypeOK
    <3> QED
      BY <2>2, <3>1, DecideEffect
  <2> QED
    BY <2>1, <2>2 DEF Answer
<1> QED
  BY <1>3, <1>4

-----------------------------------------------------------------------------
(* What a move preserves                                                   *)

\* The phases stay well typed; a press is asked only when no other one is.
LEMMA MovesKeepsPhases ==
  ASSUME ReadinessTypeOK, NEW p \in Presses, Moves(p)
  PROVE  phase' \in [Presses -> Phases] /\ Cardinality(In({"asked"})') <= 1
<1>1. PICK next \in Phases : Enters(p, next) /\ (next = "asked" => In({"asked"}) = {})
  BY DEF Moves
<1>2. phase \in [Presses -> Phases] /\ Cardinality(In({"asked"})) <= 1
  BY DEF ReadinessTypeOK
<1>3. phase' = [phase EXCEPT ![p] = next]
  BY <1>1 DEF Enters
<1>4. phase' \in [Presses -> Phases]
  BY <1>2, <1>3
<1>5. Cardinality(In({"asked"})') <= 1
  <2>1. CASE next = "asked"
    <3>1. In({"asked"})' \subseteq {p}
      BY <1>1, <1>2, <1>3, <2>1 DEF In
    <3>2. IsFiniteSet({p}) /\ Cardinality({p}) = 1
      BY FS_Singleton
    <3>3. Cardinality(In({"asked"})') <= Cardinality({p})
      BY <3>1, <3>2, FS_Subset
    <3> QED
      BY <3>2, <3>3
  <2>2. CASE next # "asked"
    <3>1. In({"asked"})' \subseteq In({"asked"}) /\ In({"asked"}) \subseteq Presses
      BY <1>2, <1>3, <2>2 DEF In
    <3>2. IsFiniteSet(In({"asked"}))
      BY <3>1, PressesAssumption, FS_Subset
    <3>3. Cardinality(In({"asked"})') <= Cardinality(In({"asked"}))
      BY <3>1, <3>2, FS_Subset
    <3>4. Cardinality(In({"asked"})') \in Nat /\ Cardinality(In({"asked"})) \in Nat
      BY <3>1, <3>2, FS_Subset, FS_CardinalityType
    <3> QED
      BY <1>2, <3>3, <3>4
  <2> QED
    BY <2>1, <2>2
<1> QED
  BY <1>4, <1>5

\* A wait flag that is left set has a press that is still on its way.
LEMMA MovesKeepsWait ==
  ASSUME ReadinessTypeOK, NoOrphanedWait, NEW p \in Presses, Moves(p)
  PROVE  NoOrphanedWait'
<1>1. PICK next \in Phases :
        /\ Enters(p, next)
        /\ \/ next \in Busy
           \/ waits' = FALSE
           \/ phase[p] \notin Busy /\ waits' = waits
  BY DEF Moves
<1>2. phase \in [Presses -> Phases] /\ phase' = [phase EXCEPT ![p] = next]
  BY <1>1 DEF ReadinessTypeOK, Enters
<1>3. CASE next \in Busy
  BY <1>2, <1>3 DEF NoOrphanedWait, In, Busy
<1>4. CASE waits' = FALSE
  BY <1>4 DEF NoOrphanedWait
<1>5. CASE phase[p] \notin Busy /\ waits' = waits
  <2> SUFFICES ASSUME waits PROVE In({"checking", "waiting"})' # {}
    BY <1>5 DEF NoOrphanedWait
  <2>1. PICK q \in Presses : phase[q] \in Busy
    BY DEF NoOrphanedWait, In, Busy
  <2>2. phase'[q] = phase[q]
    BY <1>2, <1>5, <2>1
  <2> QED
    BY <2>1, <2>2 DEF In, Busy
<1> QED
  BY <1>1, <1>3, <1>4, <1>5

\* What every step of a press establishes is enough for the invariant.
LEMMA MoveKeepsInv ==
  ASSUME ReadinessInv, NEW p \in Presses, Moves(p) \/ UNCHANGED <<phase, waits>>,
         RestTyped, CheckWell, waitFor' \subseteq Presses, UNCHANGED envVars
  PROVE  ReadinessInv'
<1>1. phase' \in [Presses -> Phases] /\ Cardinality(In({"asked"})') <= 1 /\ NoOrphanedWait'
  <2>1. CASE Moves(p)
    BY <2>1, MovesKeepsPhases, MovesKeepsWait DEF ReadinessInv
  <2>2. CASE UNCHANGED <<phase, waits>>
    BY <2>2 DEF ReadinessInv, ReadinessTypeOK, NoOrphanedWait, In
  <2> QED
    BY <2>1, <2>2
<1>2. ReadinessTypeOK'
  BY <1>1 DEF ReadinessInv, ReadinessTypeOK, RestTyped, CheckWell, envVars
<1> QED
  BY <1>1, <1>2 DEF ReadinessInv, CheckWell

-----------------------------------------------------------------------------

LEMMA ReadinessInitInv == ReadinessInit => ReadinessInv
<1> SUFFICES ASSUME ReadinessInit PROVE ReadinessInv
  OBVIOUS
<1>1. In({"asked"}) = {}
  BY DEF ReadinessInit, In
<1>2. Cardinality(In({"asked"})) <= 1
  BY <1>1, FS_EmptySet
<1>3. ReadinessTypeOK
  BY <1>2 DEF ReadinessInit, ReadinessTypeOK, Phases, NoCheck
<1> QED
  BY <1>3 DEF ReadinessInv, ReadinessInit, AnsweredOnce, NoOrphanedWait, NoCheck

\* A press, ignored or not.
LEMMA PressKeepsInv ==
  ASSUME ReadinessInv, NEW p \in Presses, Press(p)
  PROVE  ReadinessInv'
<1>1. ReadinessTypeOK /\ AnsweredOnce /\ UNCHANGED envVars
  BY DEF ReadinessInv, Press
<1>2. CASE waits
  <2>1. /\ Enters(p, "done") /\ phase[p] = "idle"
        /\ UNCHANGED <<check, late, waitFor, windowSeen, waits, ran, together>>
    BY <1>2 DEF Press
  <2>2. Moves(p)
    BY <2>1 DEF Moves, Phases, Busy
  <2>3. RestTyped /\ CheckWell /\ waitFor' \subseteq Presses
    BY <1>1, <2>1 DEF ReadinessTypeOK, RestTyped, CheckWell, AnsweredOnce
  <2> QED
    BY <1>1, <2>2, <2>3, MoveKeepsInv
<1>3. CASE ~waits
  <2>1. PICK seen \in SUBSET Presses, waiters \in SUBSET Presses : Step(p, seen, waiters)
    <3> DEFINE seen == IF resumeWindow THEN windowSeen \cup {p} ELSE windowSeen
               waiters == IF ResumePending THEN waitFor \cup {p} ELSE waitFor
    <3>1. seen \in SUBSET Presses /\ waiters \in SUBSET Presses
      BY <1>1 DEF ReadinessTypeOK
    <3>2. Step(p, seen, waiters)
      BY <1>3 DEF Press
    <3> HIDE DEF seen, waiters
    <3> QED
      BY <3>1, <3>2
  <2> QED
    BY <1>1, <2>1, StepEffect, MoveKeepsInv
<1> QED
  BY <1>2, <1>3

LEMMA ReadinessNextKeepsInv == ReadinessInv /\ [ReadinessNext]_readinessVars => ReadinessInv'
<1> SUFFICES ASSUME ReadinessInv, [ReadinessNext]_readinessVars PROVE ReadinessInv'
  OBVIOUS
<1>1. ReadinessTypeOK /\ AnsweredOnce /\ NoOrphanedWait
  BY DEF ReadinessInv
<1>2. ASSUME NEW p \in Presses, Press(p) PROVE ReadinessInv'
  BY <1>2, PressKeepsInv
<1>3. ASSUME NEW p \in Presses, PollTimer(p) PROVE ReadinessInv'
  <2>1. windowSeen \in SUBSET Presses /\ waitFor \in SUBSET Presses
    BY <1>1 DEF ReadinessTypeOK
  <2>2. Step(p, windowSeen, waitFor) /\ UNCHANGED envVars
    BY <1>3 DEF PollTimer
  <2> QED
    BY <1>1, <2>1, <2>2, StepEffect, MoveKeepsInv
<1>4. ASSUME NEW p \in Presses, CeilingPasses(p) \/ CoreAnswers(p) PROVE ReadinessInv'
  <2>1. PICK part \in {"ceiling", "response"}, verdict \in {"ready", "notReady", "none"} :
          Answer(p, part, verdict)
    BY <1>4 DEF CeilingPasses, CoreAnswers
  <2>2. waitFor' = waitFor /\ UNCHANGED envVars
    BY <1>4 DEF CeilingPasses, CoreAnswers
  <2>3. waitFor' \subseteq Presses
    BY <1>1, <2>2 DEF ReadinessTypeOK
  <2> QED
    BY <1>1, <2>1, <2>2, <2>3, AnswerEffect, MoveKeepsInv
<1>5. ASSUME NEW p \in Presses, DeadlinePasses(p) PROVE ReadinessInv'
  <2>1. RestTyped /\ CheckWell /\ waitFor' \subseteq Presses
    BY <1>1, <1>5 DEF DeadlinePasses, ReadinessTypeOK, RestTyped, CheckWell, AnsweredOnce
  <2> QED
    BY <1>5, <2>1, MoveKeepsInv DEF DeadlinePasses
<1>6. ASSUME NEW p \in Presses, UserDecides(p) PROVE ReadinessInv'
  <2>1. RestTyped /\ CheckWell /\ waitFor' \subseteq Presses
    BY <1>1, <1>6 DEF UserDecides, ReadinessTypeOK, RestTyped, CheckWell, AnsweredOnce
  <2>2. Moves(p)
    BY <1>6 DEF UserDecides, Moves, Phases, Busy
  <2> QED
    BY <1>6, <2>1, <2>2, MoveKeepsInv DEF UserDecides
<1>7. CASE /\ UNCHANGED pressVars
           /\ exists' \in BOOLEAN /\ readyCheck' \in BOOLEAN /\ devicesReady' \in BOOLEAN
           /\ coreConnected' \in BOOLEAN /\ wasSuspended' \in BOOLEAN /\ resumeWindow' \in BOOLEAN
  BY <1>1, <1>7 DEF ReadinessInv, ReadinessTypeOK, AnsweredOnce, NoOrphanedWait, In, pressVars
<1>8. CASE \/ ActivityDeleted \/ ReadyCheckChanged \/ DevicesChange \/ ConnectionChanges
           \/ Suspend \/ WakeupReported \/ ResumeWindowCloses \/ UNCHANGED readinessVars
  BY <1>1, <1>7, <1>8
     DEF ReadinessTypeOK, ActivityDeleted, ReadyCheckChanged, DevicesChange, ConnectionChanges,
         Suspend,
         WakeupReported, ResumeWindowCloses, readinessVars, envVars
<1> QED
  BY <1>2, <1>3, <1>4, <1>5, <1>6, <1>8 DEF ReadinessNext

-----------------------------------------------------------------------------

\* The state of the check is well typed, and one decision at most is put to the user at once.
THEOREM ReadinessTypeCorrect == ReadinessSpec => []ReadinessTypeOK
  BY ReadinessInitInv, ReadinessNextKeepsInv, PTL DEF ReadinessSpec, ReadinessInv

\* Whichever of the ceiling and the answer comes first, the caller gets one result.
THEOREM OneResult == ReadinessSpec => []AnsweredOnce
  BY ReadinessInitInv, ReadinessNextKeepsInv, PTL DEF ReadinessSpec, ReadinessInv

\* The flag that ignores further presses is never left behind by the press that set it.
THEOREM WaitHasItsPress == ReadinessSpec => []NoOrphanedWait
  BY ReadinessInitInv, ReadinessNextKeepsInv, PTL DEF ReadinessSpec, ReadinessInv

=============================================================================
