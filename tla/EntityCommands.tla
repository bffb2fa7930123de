--------------------------- MODULE EntityCommands ---------------------------
(***************************************************************************)
(* The command half of EntityController (ui/entity/entityController.cpp):  *)
(* commands that were issued and not settled yet, their resends around a   *)
(* wakeup of the remote, the busy indicators and the "Try again" prompts.  *)
(*                                                                         *)
(* The requests go through the client of module CoreApi, whose contract is *)
(* used here: a registered handler runs one callback, at the latest when   *)
(* the request times out (408).                                            *)
(*                                                                         *)
(* Time is abstract: a resend deadline is either ahead or past, and passes *)
(* at any moment.  One event loop: every callback is one step.             *)
(***************************************************************************)
EXTENDS Integers, FiniteSets

CONSTANTS
  Commands,     \* the command ids, see CommandIds
  Entities,
  MaxEpoch,     \* bound: commands issued
  MaxRequests,  \* bound: requests the core client accepts
  MaxSuspends   \* bound: times the remote goes to sleep

\* The session id that stands for every session of an assistant (kAnyVoiceSession).
AnySession == -1

Kinds == {"plain", "repeat", "voice_start", "voice_end"}

\* A command id is built from entity, command and parameters; "session" also tells
\* apart the repeats of a key, each of which gets an id of its own.
CommandIds == [entity : Entities, kind : Kinds, session : Nat \cup {AnySession}]

ASSUME CommandsAssumption ==
  /\ Commands \subseteq CommandIds
  /\ MaxEpoch \in Nat /\ MaxRequests \in Nat /\ MaxSuspends \in Nat

Epochs == 1..MaxEpoch
RequestIds == {-1} \cup 1..MaxRequests

VARIABLES
  entry,          \* m_pendingCommands: Absent, or the pendingCommand of the id
  commandEpoch,   \* m_commandEpoch
  lastRequest,    \* the last id the core client handed out for a command
  handlers,       \* handlers registered with onResult(), not called yet
  retryTimers,    \* single-shot timers of the next resend
  busyTimers,     \* single-shot timers of the busy indicator
  busy,           \* m_busyEntities
  prompts,        \* "Try again" notifications not answered yet
  coreUp,         \* the core client is connected
  windowSet,      \* m_resumeTimerTimeout > 0
  resumeWindow,   \* m_resumeWindow; its single-shot timer runs while it is open
  wasSuspended,   \* m_wasSuspended
  suspends,       \* bound
  power,          \* the last power mode the core reported
  sent,           \* history: attempts that left the remote
  tried,          \* history: epochs issued through "Try again"
  withdrawn       \* history: epochs of voice starts whose session was ended

commandVars == <<entry, commandEpoch, lastRequest, handlers, retryTimers, busyTimers,
                 busy, prompts, sent, tried, withdrawn>>
powerVars == <<windowSet, resumeWindow, wasSuspended, suspends, power>>
vars == <<commandVars, coreUp, powerVars>>

Entry == [epoch : 0..MaxEpoch, request : RequestIds, retry : BOOLEAN, late : BOOLEAN]
Absent == [epoch |-> 0, request |-> -1, retry |-> FALSE, late |-> FALSE]

\* What a callback or a timer of an attempt has captured.
Attempt == [cmd : Commands, request : RequestIds, epoch : Epochs]
Issued == [cmd : Commands, epoch : Epochs]

TypeOK ==
  /\ entry \in [Commands -> Entry]
  /\ commandEpoch \in 0..MaxEpoch
  /\ lastRequest \in 0..MaxRequests
  /\ handlers \subseteq Attempt
  /\ retryTimers \subseteq Attempt
  /\ busyTimers \subseteq Issued
  /\ busy \subseteq Entities
  /\ prompts \subseteq Issued
  /\ coreUp \in BOOLEAN /\ windowSet \in BOOLEAN /\ resumeWindow \in BOOLEAN
  /\ wasSuspended \in BOOLEAN
  /\ power \in {"normal", "low", "suspend"}
  /\ suspends \in 0..MaxSuspends
  /\ sent \subseteq Attempt
  /\ tried \subseteq Epochs
  /\ withdrawn \subseteq Epochs

Init ==
  /\ entry = [c \in Commands |-> Absent]
  /\ commandEpoch = 0 /\ lastRequest = 0
  /\ handlers = {} /\ retryTimers = {} /\ busyTimers = {}
  /\ busy = {} /\ prompts = {}
  /\ coreUp = FALSE
  /\ windowSet \in BOOLEAN
  /\ resumeWindow = FALSE /\ wasSuspended = FALSE /\ power = "normal"
  /\ suspends = 0
  /\ sent = {} /\ tried = {} /\ withdrawn = {}

-----------------------------------------------------------------------------
(* The table of pending commands                                           *)

Pending(table) == {c \in Commands : table[c].epoch # 0}

\* hasPendingForEntity()
HasPending(table, x) == \E c \in Pending(table) : c.entity = x

Without(table, gone) == [c \in Commands |-> IF c \in gone THEN Absent ELSE table[c]]

\* Mutant: the indicator is left to the next answer of the entity.
ClearedKeepsBusy(indicators, table, gone) == indicators

\* removePendingCommand(): the indicator goes with the last command of the entity.
Cleared(indicators, table, gone) ==
  indicators \ {x \in {c.entity : c \in gone} : ~HasPending(table, x)}

Captured(c, e) == [cmd |-> c, request |-> e.request, epoch |-> e.epoch]

-----------------------------------------------------------------------------
(* Failures                                                                *)

\* Codes by what the code tells apart: isRequestRejected(), 408 or 503, any other.
Codes == {"rejected", "unreachable", "other"}

\* Mutant: the resend forgets about key repeats.
MayResendRepeats(c, code) == code # "rejected"

\* mayResendAfterWakeup()
MayResend(c, code) == c.kind # "repeat" /\ code # "rejected"

\* Mutant: the deadline is not looked at.
ResendsForever(c, e, code) == e.retry /\ MayResend(c, code)

Resends(c, e, code) == e.retry /\ MayResend(c, code) /\ ~e.late

Prompts(c, code) == c.kind \in {"plain", "voice_end"} /\ code = "unreachable"

(***************************************************************************)
(* handleCommandFailure() for the entry e of c, on the given table,        *)
(* indicators, timers and prompts: a resend is scheduled, or the command   *)
(* goes and the user hears of it (a repeat goes silently, the start of a   *)
(* voice session reports to the voice overlay).                            *)
(***************************************************************************)
HandleFailure(table, indicators, timers, open, c, e, code) ==
  IF Resends(c, e, code)
  THEN /\ entry' = [table EXCEPT ![c] = e]
       /\ retryTimers' = timers \cup {Captured(c, e)}
       /\ busy' = indicators
       /\ prompts' = open
  ELSE /\ entry' = [table EXCEPT ![c] = Absent]
       /\ retryTimers' = timers
       /\ busy' = Cleared(indicators, [table EXCEPT ![c] = Absent], {c})
       /\ prompts' = IF Prompts(c, code) THEN open \cup {[cmd |-> c, epoch |-> e.epoch]}
                                         ELSE open

-----------------------------------------------------------------------------
(* Sending                                                                 *)

(***************************************************************************)
(* retrySendAttempt(): the request is accepted by the core client, or it   *)
(* never leaves the remote and fails in the same call. The entry is looked *)
(* up again after sending; an entry that was dropped while sending is one  *)
(* that is dropped right before a call that sends nothing, or right after  *)
(* one that did: what the latter registered runs into the epoch check.     *)
(***************************************************************************)
RetrySendAttempt(table, indicators, timers, open, c, e) ==
  \/ /\ coreUp /\ lastRequest < MaxRequests
     /\ lastRequest' = lastRequest + 1
     /\ LET now == [e EXCEPT !.request = lastRequest + 1]
        IN /\ entry' = [table EXCEPT ![c] = now]
           /\ handlers' = handlers \cup {Captured(c, now)}
           /\ sent' = sent \cup {Captured(c, now)}
     /\ retryTimers' = timers /\ busy' = indicators /\ prompts' = open
  \/ /\ HandleFailure(table, indicators, timers, open, c, [e EXCEPT !.request = -1],
                      "unreachable")
     /\ UNCHANGED <<lastRequest, handlers, sent>>

\* The first attempt starts the busy timer.
FirstAttempt(table, indicators, open, c, e) ==
  /\ RetrySendAttempt(table, indicators, retryTimers, open, c, e)
  /\ busyTimers' = busyTimers \cup {[cmd |-> c, epoch |-> e.epoch]}

\* The voice starts that voice_end, or the overlay closing on a session, withdraws.
StartsOf(x, session) ==
  {c \in Pending(entry) : /\ c.kind = "voice_start" /\ c.entity = x
                          /\ session \in {AnySession, c.session}}

\* The voice starts whose session the command ends: voice_end names no session.
EndedBy(c) == IF c.kind = "voice_end" THEN StartsOf(c.entity, AnySession) ELSE {}

\* Mutant: the end of a session does not withdraw its start.
ObsoleteNone(c) == {}

\* cancelPendingVoiceStart() at the top of onEntityCommand()
Obsolete(c) == EndedBy(c)

\* getResumePending(), sampled when a command is issued
Eligible == windowSet /\ (resumeWindow \/ wasSuspended)

NewEntry(n) == [epoch |-> n, request |-> -1, retry |-> Eligible, late |-> FALSE]

\* Every repeat of a key has an id that was not used before.
FreshId(c) == c.kind = "repeat" => \A a \in sent \cup retryTimers \cup handlers : a.cmd # c

(***************************************************************************)
(* onEntityCommand(): obsolete voice starts are withdrawn, a duplicate of  *)
(* a pending command is refused, anything else is recorded and sent.       *)
(***************************************************************************)
OnEntityCommand(c) ==
  /\ commandEpoch < MaxEpoch
  /\ commandEpoch' = commandEpoch + 1
  /\ c.kind = "repeat" => c \notin Pending(entry) /\ FreshId(c)
  /\ LET gone == Obsolete(c)
         table == Without(entry, gone)
         indicators == Cleared(busy, table, gone)
     IN /\ withdrawn' = withdrawn \cup {entry[g].epoch : g \in EndedBy(c)}
        /\ IF c \in Pending(table)
           THEN /\ entry' = table /\ busy' = indicators
                /\ UNCHANGED <<lastRequest, handlers, retryTimers, busyTimers, prompts, sent>>
           ELSE FirstAttempt(table, indicators, prompts, c, NewEntry(commandEpoch + 1))
  /\ UNCHANGED <<coreUp, tried, powerVars>>

\* The action asks for exactly one more attempt.
TryAgainEntry(n) == [epoch |-> n, request |-> -1, retry |-> FALSE, late |-> TRUE]

\* The "Try again" action of a prompt.
TryAgain(p) ==
  /\ p \in prompts
  /\ commandEpoch < MaxEpoch
  /\ IF p.cmd \in Pending(entry)
     THEN /\ prompts' = prompts \ {p}
          /\ UNCHANGED <<entry, commandEpoch, lastRequest, handlers, retryTimers, busyTimers,
                         busy, sent, tried>>
     ELSE /\ commandEpoch' = commandEpoch + 1
          /\ tried' = tried \cup {commandEpoch + 1}
          /\ FirstAttempt(entry, busy, prompts \ {p}, p.cmd, TryAgainEntry(commandEpoch + 1))
  /\ UNCHANGED <<coreUp, withdrawn, powerVars>>

-----------------------------------------------------------------------------
(* Callbacks                                                               *)

\* Mutant: the epoch and the request id are not compared.
IsLiveAny(a) == a.cmd \in Pending(entry)

\* The entry is the one the callback or timer was made for.
IsLive(a) ==
  /\ a.cmd \in Pending(entry)
  /\ entry[a.cmd].epoch = a.epoch /\ entry[a.cmd].request = a.request

\* The success callback
CommandSucceeds(h) ==
  /\ coreUp
  /\ h \in handlers
  /\ handlers' = handlers \ {h}
  /\ IF IsLive(h)
     THEN /\ entry' = Without(entry, {h.cmd})
          /\ busy' = Cleared(busy, Without(entry, {h.cmd}), {h.cmd})
     ELSE UNCHANGED <<entry, busy>>
  /\ UNCHANGED <<commandEpoch, lastRequest, retryTimers, busyTimers, prompts, sent, tried,
                 withdrawn, coreUp, powerVars>>

\* Mutant: a failure is taken for the pending command with that id.
IsOwnRequestAny(h) == h.cmd \in Pending(entry)

\* The failure callback compares the request id only.
IsOwnRequest(h) == h.cmd \in Pending(entry) /\ entry[h.cmd].request = h.request

\* The failure callback; without a connection only the request timeout is left to fail.
CommandFails(h, code) ==
  /\ h \in handlers
  /\ coreUp \/ code = "unreachable"
  /\ handlers' = handlers \ {h}
  /\ IF IsOwnRequest(h)
     THEN HandleFailure(entry, busy, retryTimers, prompts, h.cmd, entry[h.cmd], code)
     ELSE UNCHANGED <<entry, busy, retryTimers, prompts>>
  /\ UNCHANGED <<commandEpoch, lastRequest, busyTimers, sent, tried, withdrawn, coreUp,
                 powerVars>>

\* The resend timer (500 ms)
RetryTimeout(t) ==
  /\ t \in retryTimers
  /\ IF IsLive(t)
     THEN RetrySendAttempt(entry, busy, retryTimers \ {t}, prompts, t.cmd, entry[t.cmd])
     ELSE /\ retryTimers' = retryTimers \ {t}
          /\ UNCHANGED <<entry, busy, prompts, lastRequest, handlers, sent>>
  /\ UNCHANGED <<commandEpoch, busyTimers, tried, withdrawn, coreUp, powerVars>>

StillIssued(b) == entry[b.cmd].epoch = b.epoch

\* The busy timer (200 ms)
BusyTimeout(b) ==
  /\ b \in busyTimers
  /\ busyTimers' = busyTimers \ {b}
  /\ busy' = IF StillIssued(b) THEN busy \cup {b.cmd.entity} ELSE busy
  /\ UNCHANGED <<entry, commandEpoch, lastRequest, handlers, retryTimers, prompts, sent,
                 tried, withdrawn, coreUp, powerVars>>

-----------------------------------------------------------------------------
(* Dropping commands                                                       *)

\* cancelPendingVoiceStart() from the voice overlay closing on its session
OverlayClosed(x, session) ==
  LET gone == StartsOf(x, session)
  IN /\ gone # {}
     /\ entry' = Without(entry, gone)
     /\ busy' = Cleared(busy, Without(entry, gone), gone)
     /\ withdrawn' = withdrawn \cup {entry[c].epoch : c \in gone}
     /\ UNCHANGED <<commandEpoch, lastRequest, handlers, retryTimers, busyTimers, prompts,
                    sent, tried, coreUp, powerVars>>

\* removePendingCommandsForEntity() of onEntityDeleted()
EntityDeleted(x) ==
  /\ entry' = Without(entry, {c \in Commands : c.entity = x})
  /\ busy' = busy \ {x}
  /\ UNCHANGED <<commandEpoch, lastRequest, handlers, retryTimers, busyTimers, prompts,
                 sent, tried, withdrawn, coreUp, powerVars>>

CoreConnected ==
  /\ ~coreUp
  /\ coreUp' = TRUE
  /\ UNCHANGED <<commandVars, powerVars>>

\* clearPendingCommands()
ClearPendingCommands ==
  /\ entry' = [c \in Commands |-> Absent]
  /\ busy' = {}

\* onCoreDisconnected()
CoreDisconnected ==
  /\ coreUp
  /\ coreUp' = FALSE
  /\ ClearPendingCommands
  /\ UNCHANGED <<commandEpoch, lastRequest, handlers, retryTimers, busyTimers, prompts,
                 sent, tried, withdrawn, powerVars>>

-----------------------------------------------------------------------------
(* The resume window                                                       *)

\* The deadline of a command that may be resent passes.
DeadlinePasses(c) ==
  /\ c \in Pending(entry) /\ entry[c].retry /\ ~entry[c].late
  /\ entry' = [entry EXCEPT ![c].late = TRUE]
  /\ UNCHANGED <<commandEpoch, lastRequest, handlers, retryTimers, busyTimers, busy, prompts,
                 sent, tried, withdrawn, coreUp, powerVars>>

\* onPowerModeChanged(SUSPEND)
PowerSuspend ==
  /\ power # "suspend"
  /\ power' = "suspend"
  /\ suspends < MaxSuspends
  /\ suspends' = suspends + 1
  /\ wasSuspended' = (wasSuspended \/ windowSet)
  /\ UNCHANGED <<windowSet, resumeWindow, coreUp, commandVars>>

\* Commands issued while waking up get the full window, measured from the wakeup.
Extended == [c \in Commands |-> IF entry[c].retry THEN [entry[c] EXCEPT !.late = FALSE]
                                                  ELSE entry[c]]

\* Any other mode is ignored (IDLE, LOW_POWER).
PowerLow ==
  /\ power # "low"
  /\ power' = "low"
  /\ UNCHANGED <<windowSet, resumeWindow, wasSuspended, suspends, coreUp, commandVars>>

\* onPowerModeChanged(NORMAL)
PowerNormal ==
  /\ power # "normal"
  /\ power' = "normal"
  /\ IF windowSet
     THEN /\ resumeWindow' = (resumeWindow \/ wasSuspended)
          /\ entry' = IF wasSuspended /\ ~resumeWindow THEN Extended ELSE entry
          /\ wasSuspended' = FALSE
     ELSE UNCHANGED <<resumeWindow, entry, wasSuspended>>
  /\ UNCHANGED <<windowSet, suspends, commandEpoch, lastRequest, handlers, retryTimers,
                 busyTimers, busy, prompts, sent, tried, withdrawn, coreUp>>

\* onResumeTimerTimeout()
ResumeTimerTimeout ==
  /\ resumeWindow
  /\ resumeWindow' = FALSE
  /\ UNCHANGED <<windowSet, wasSuspended, suspends, power, coreUp, commandVars>>

\* onResumeTimeoutWindowSecChanged(), to and from "Disabled"
ResumeWindowConfigured ==
  /\ windowSet' = ~windowSet
  /\ UNCHANGED <<resumeWindow, wasSuspended, suspends, power, coreUp, commandVars>>

-----------------------------------------------------------------------------

Next ==
  \/ \E c \in Commands : OnEntityCommand(c)
  \/ \E p \in prompts : TryAgain(p)
  \/ \E h \in handlers : CommandSucceeds(h)
  \/ \E h \in handlers, code \in Codes : CommandFails(h, code)
  \/ \E t \in retryTimers : RetryTimeout(t)
  \/ \E b \in busyTimers : BusyTimeout(b)
  \/ \E c \in Commands : OverlayClosed(c.entity, c.session)
  \/ \E x \in Entities : EntityDeleted(x)
  \/ CoreConnected
  \/ CoreDisconnected
  \/ \E c \in Commands : DeadlinePasses(c)
  \/ PowerSuspend
  \/ PowerLow
  \/ PowerNormal
  \/ ResumeTimerTimeout
  \/ ResumeWindowConfigured

Spec == Init /\ [][Next]_vars

(***************************************************************************)
(* Requests time out, timers fire, time passes.  Nothing is assumed of the *)
(* core, the integrations or the user.                                     *)
(***************************************************************************)
Fairness ==
  \A c \in Commands :
    /\ WF_vars(\E h \in handlers : h.cmd = c /\ CommandFails(h, "unreachable"))
    /\ WF_vars(\E t \in retryTimers : t.cmd = c /\ RetryTimeout(t))
    /\ WF_vars(DeadlinePasses(c))

FairSpec == Spec /\ Fairness

-----------------------------------------------------------------------------
(* Properties                                                              *)

(***************************************************************************)
(* An entity shows its busy indicator only while one of its commands is    *)
(* pending: no path that drops a command (answer, failure, withdrawal,     *)
(* deletion, disconnect) leaves an indicator nobody will ever clear.       *)
(***************************************************************************)
BusyMeansPending == busy \subseteq {c.entity : c \in Pending(entry)}

(***************************************************************************)
(* A pending command is either waiting for the answer to its last attempt  *)
(* or for the timer of the next one, never both and never neither: it is   *)
(* not sent twice at the same time, and it cannot be stuck, which would    *)
(* refuse every further press as a duplicate.                              *)
(***************************************************************************)
PendingIsDriven ==
  \A c \in Pending(entry) :
    (Captured(c, entry[c]) \in handlers) # (Captured(c, entry[c]) \in retryTimers)

(***************************************************************************)
(* A key repeat, and a command sent again through "Try again", leave the   *)
(* remote at most once, whatever the wakeup state and however they fail.   *)
(***************************************************************************)
SentOnce ==
  \A a, b \in sent :
    a.epoch = b.epoch /\ (a.cmd.kind = "repeat" \/ a.epoch \in tried) => a = b

(***************************************************************************)
(* An answer settles the command it belongs to and no other: a late answer *)
(* to a command that was dropped does not touch one issued again since.    *)
(***************************************************************************)
OnlyOwnAnswer ==
  [][\A h \in handlers \ handlers' : \A c \in Pending(entry) :
       entry[c].epoch # h.epoch => entry'[c] = entry[c]]_vars

(***************************************************************************)
(* The start of a voice session that has ended is not sent any more: an    *)
(* assistant does not start to listen after the user let go of the button. *)
(***************************************************************************)
WithdrawnStaysSilent ==
  [][\A a \in sent' \ sent : a.epoch \notin withdrawn]_vars

(***************************************************************************)
(* A command does not stay pending: it succeeds, fails or is dropped, also *)
(* when the core never answers and the resends never get through.          *)
(***************************************************************************)
PendingSettles ==
  \A c \in Commands : \A n \in Epochs : entry[c].epoch = n ~> entry[c].epoch # n

=============================================================================
