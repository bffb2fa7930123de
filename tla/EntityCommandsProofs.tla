------------------------ MODULE EntityCommandsProofs ------------------------
(***************************************************************************)
(* Safety of the pending commands for every set of commands and every      *)
(* bound.  The inductive invariant adds to the properties that request ids *)
(* are handed out once: a handler is the only trace of its id that is      *)
(* still waiting for an answer, so the id a failure compares identifies    *)
(* the very attempt.  A second invariant, relative to the first, is about  *)
(* what was sent and withdrawn: an epoch belongs to one command and is not *)
(* given out again once that command was dropped.                          *)
(*                                                                         *)
(* The last part is about VoicePlayback, the answers of the voice          *)
(* assistants, for any number of playbacks.                                *)
(***************************************************************************)
EXTENDS EntityCommands, VoicePlayback, TLAPS

\* The commands of a table cover the entities that show an indicator.
Covers(table, indicators) == indicators \subseteq {c.entity : c \in Pending(table)}

\* PendingIsDriven for one command.
DrivenIn(table, hs, ts, c) ==
  c \in Pending(table) => (Captured(c, table[c]) \in hs) # (Captured(c, table[c]) \in ts)

\* Ids are handed out once; a resend timer never carries the id of a handler.
RequestsInv ==
  /\ \A h \in handlers : h.request \in 1..lastRequest
  /\ \A t \in retryTimers : t.request <= lastRequest
  /\ \A a, b \in handlers : a.request = b.request => a = b
  /\ \A h \in handlers, t \in retryTimers : h.request # t.request

IInv == TypeOK /\ BusyMeansPending /\ PendingIsDriven /\ RequestsInv

LEMMA DrivenPointwise ==
  PendingIsDriven <=> \A c \in Commands : DrivenIn(entry, handlers, retryTimers, c)
BY DEF PendingIsDriven, DrivenIn, Pending

LEMMA CommandsTyped == \A c \in Commands : c.entity \in Entities
BY CommandsAssumption DEF CommandIds

-----------------------------------------------------------------------------
(* What the helpers do                                                     *)

(***************************************************************************)
(* Dropping commands leaves the others and their indicators covered.       *)
(***************************************************************************)
LEMMA WithoutCovers ==
  ASSUME NEW table \in [Commands -> Entry], NEW indicators \in SUBSET Entities,
         NEW gone \in SUBSET Commands, Covers(table, indicators)
  PROVE  /\ Without(table, gone) \in [Commands -> Entry]
         /\ Cleared(indicators, Without(table, gone), gone) \in SUBSET Entities
         /\ Covers(Without(table, gone), Cleared(indicators, Without(table, gone), gone))
         /\ \A c \in Commands : /\ c \in gone => c \notin Pending(Without(table, gone))
                                /\ c \notin gone => Without(table, gone)[c] = table[c]
<1> DEFINE left == Without(table, gone)
<1>1. Absent \in Entry
  BY CommandsAssumption DEF Absent, Entry, RequestIds
<1>2. left \in [Commands -> Entry]
  BY <1>1 DEF Without
<1>3. \A c \in Commands : /\ c \in gone => left[c] = Absent
                          /\ c \notin gone => left[c] = table[c]
  BY DEF Without
<1>4. Covers(left, Cleared(indicators, left, gone))
  <2> SUFFICES ASSUME NEW x \in Cleared(indicators, left, gone)
               PROVE  \E c \in Pending(left) : c.entity = x
    BY DEF Covers
  <2>1. x \in indicators
    BY DEF Cleared
  <2>2. PICK c \in Pending(table) : c.entity = x
    BY <2>1 DEF Covers
  <2>3. CASE c \in gone
    <3>1. x \in {k.entity : k \in gone}
      BY <2>2, <2>3
    <3>2. HasPending(left, x)
      BY <3>1 DEF Cleared
    <3> QED
      BY <3>2 DEF HasPending
  <2>4. CASE c \notin gone
    BY <1>3, <2>2, <2>4 DEF Pending
  <2> QED
    BY <2>3, <2>4
<1>5. \A c \in gone : c \notin Pending(left)
  BY <1>3 DEF Pending, Absent
<1> QED
  BY <1>2, <1>3, <1>4, <1>5 DEF Cleared

(***************************************************************************)
(* What handleCommandFailure() and an attempt are called with: a table     *)
(* that covers the indicators, and the entry of a command.                 *)
(***************************************************************************)
Arguments(table, indicators, timers, open, c, e) ==
  /\ table \in [Commands -> Entry] /\ indicators \subseteq Entities
  /\ timers \subseteq Attempt /\ open \subseteq Issued
  /\ c \in Commands /\ e \in Entry /\ e.epoch # 0
  /\ Covers(table, indicators)

\* The table changed at c only, and covers the indicators.
ChangedAt(table, c) ==
  /\ entry' \in [Commands -> Entry] /\ busy' \subseteq Entities
  /\ retryTimers' \subseteq Attempt /\ prompts' \subseteq Issued
  /\ Covers(entry', busy')
  /\ \A k \in Commands : k # c => entry'[k] = table[k]

\* A failure keeps the entry with a timer for its next attempt, or drops it.
FailedAt(timers, c, e) ==
  \/ entry'[c] = e /\ retryTimers' = timers \cup {Captured(c, e)}
  \/ entry'[c] = Absent /\ retryTimers' = timers

LEMMA FailureEffect ==
  ASSUME NEW table, NEW indicators, NEW timers, NEW open, NEW c, NEW e, NEW code,
         Arguments(table, indicators, timers, open, c, e),
         HandleFailure(table, indicators, timers, open, c, e, code)
  PROVE  ChangedAt(table, c) /\ FailedAt(timers, c, e)
<1>0. /\ table \in [Commands -> Entry] /\ indicators \subseteq Entities
      /\ timers \subseteq Attempt /\ open \subseteq Issued
      /\ c \in Commands /\ e \in Entry /\ e.epoch # 0
      /\ Covers(table, indicators)
  BY DEF Arguments
<1>1. Captured(c, e) \in Attempt /\ [cmd |-> c, epoch |-> e.epoch] \in Issued
  BY <1>0, CommandsAssumption DEF Captured, Attempt, Entry, Issued, Epochs
<1>2. CASE Resends(c, e, code)
  <2>1. entry' = [table EXCEPT ![c] = e] /\ retryTimers' = timers \cup {Captured(c, e)}
        /\ busy' = indicators /\ prompts' = open
    BY <1>2 DEF HandleFailure
  <2>2. Pending(table) \subseteq Pending(entry')
    BY <1>0, <2>1 DEF Pending
  <2> QED
    BY <1>0, <1>1, <2>1, <2>2 DEF Covers, ChangedAt, FailedAt
<1>3. CASE ~Resends(c, e, code)
  <2> DEFINE left == [table EXCEPT ![c] = Absent]
  <2>1. entry' = left /\ retryTimers' = timers /\ busy' = Cleared(indicators, left, {c})
        /\ prompts' \subseteq open \cup {[cmd |-> c, epoch |-> e.epoch]}
    BY <1>3 DEF HandleFailure
  <2>2. left = Without(table, {c})
    BY <1>0 DEF Without
  <2>3. /\ left \in [Commands -> Entry] /\ Cleared(indicators, left, {c}) \in SUBSET Entities
        /\ Covers(left, Cleared(indicators, left, {c}))
    BY <1>0, <2>2, WithoutCovers
  <2>4. \A k \in Commands : k # c => entry'[k] = table[k]
    BY <1>0, <2>1
  <2>5. Covers(entry', busy')
    BY <2>1, <2>3
  <2> QED
    BY <1>0, <1>1, <2>1, <2>3, <2>4, <2>5 DEF ChangedAt, FailedAt
<1> QED
  BY <1>2, <1>3

(***************************************************************************)
(* An attempt leaves the command with a handler for the answer, with a     *)
(* timer for the next attempt, or not pending at all.                      *)
(***************************************************************************)
Accepted(timers, c, e) ==
  /\ lastRequest' = lastRequest + 1 /\ lastRequest' \in 0..MaxRequests
  /\ entry'[c] = [e EXCEPT !.request = lastRequest + 1]
  /\ handlers' = handlers \cup {Captured(c, entry'[c])}
  /\ sent' = sent \cup {Captured(c, entry'[c])}
  /\ Captured(c, entry'[c]) \in Attempt
  /\ retryTimers' = timers

Refused(timers, c, e) ==
  /\ UNCHANGED <<lastRequest, handlers, sent>>
  /\ FailedAt(timers, c, [e EXCEPT !.request = -1])

LEMMA SendEffect ==
  ASSUME NEW table, NEW indicators, NEW timers, NEW open, NEW c, NEW e,
         Arguments(table, indicators, timers, open, c, e),
         lastRequest \in 0..MaxRequests,
         RetrySendAttempt(table, indicators, timers, open, c, e)
  PROVE  ChangedAt(table, c) /\ (Accepted(timers, c, e) \/ Refused(timers, c, e))
<1>0. /\ table \in [Commands -> Entry] /\ indicators \subseteq Entities
      /\ timers \subseteq Attempt /\ open \subseteq Issued
      /\ c \in Commands /\ e \in Entry /\ e.epoch # 0
      /\ Covers(table, indicators)
  BY DEF Arguments
<1> USE CommandsAssumption
<1>1. CASE /\ coreUp /\ lastRequest < MaxRequests
           /\ lastRequest' = lastRequest + 1
           /\ LET now == [e EXCEPT !.request = lastRequest + 1]
              IN /\ entry' = [table EXCEPT ![c] = now]
                 /\ handlers' = handlers \cup {Captured(c, now)}
                 /\ sent' = sent \cup {Captured(c, now)}
           /\ retryTimers' = timers /\ busy' = indicators /\ prompts' = open
  <2> DEFINE now == [e EXCEPT !.request = lastRequest + 1]
  <2>1. lastRequest + 1 \in 1..MaxRequests
    BY <1>1
  <2>2. now \in Entry /\ now.epoch = e.epoch
    BY <1>0, <2>1 DEF Entry, RequestIds
  <2>3. Captured(c, now) \in Attempt
    BY <1>0, <2>2 DEF Captured, Attempt, Entry, Epochs
  <2>4. entry' = [table EXCEPT ![c] = now] /\ entry'[c] = now
    BY <1>0, <1>1
  <2>5. Pending(table) \subseteq Pending(entry')
    BY <1>0, <2>2, <2>4 DEF Pending
  <2>6. Covers(entry', busy')
    BY <1>0, <1>1, <2>5 DEF Covers
  <2>7. ChangedAt(table, c)
    BY <1>0, <1>1, <2>2, <2>4, <2>6 DEF ChangedAt
  <2>8. Accepted(timers, c, e)
    BY <1>1, <2>1, <2>3, <2>4 DEF Accepted
  <2> QED
    BY <2>7, <2>8
<1>2. CASE /\ HandleFailure(table, indicators, timers, open, c, [e EXCEPT !.request = -1],
                            "unreachable")
           /\ UNCHANGED <<lastRequest, handlers, sent>>
  <2> DEFINE now == [e EXCEPT !.request = -1]
  <2>1. now \in Entry /\ now.epoch = e.epoch
    BY <1>0 DEF Entry, RequestIds
  <2>2. Arguments(table, indicators, timers, open, c, now)
    BY <1>0, <2>1 DEF Arguments
  <2>3. HandleFailure(table, indicators, timers, open, c, now, "unreachable")
    BY <1>2
  <2>4. ChangedAt(table, c) /\ FailedAt(timers, c, now)
    <3> HIDE DEF now
    <3> QED
      BY <2>2, <2>3, FailureEffect
  <2> QED
    BY <1>2, <2>4 DEF Refused
<1> QED
  BY <1>1, <1>2 DEF RetrySendAttempt

(***************************************************************************)
(* An attempt for c leaves every command driven, when all others were      *)
(* driven on the table and by the timers it starts from.                   *)
(***************************************************************************)
DrivenBut(table, timers, c) ==
  \A k \in Commands : k # c => DrivenIn(table, handlers, timers, k)

\* The part of the invariant that speaks of what an attempt changes.
SentWell ==
  /\ entry' \in [Commands -> Entry] /\ busy' \subseteq Entities
  /\ retryTimers' \subseteq Attempt /\ prompts' \subseteq Issued
  /\ lastRequest' \in 0..MaxRequests
  /\ handlers' \subseteq Attempt /\ sent' \subseteq Attempt
  /\ BusyMeansPending' /\ PendingIsDriven' /\ RequestsInv'

LEMMA SendDrives ==
  ASSUME NEW table, NEW indicators, NEW timers, NEW open, NEW c, NEW e,
         TypeOK, RequestsInv, timers \subseteq retryTimers,
         Arguments(table, indicators, timers, open, c, e),
         DrivenBut(table, timers, c),
         RetrySendAttempt(table, indicators, timers, open, c, e)
  PROVE  SentWell
<1> DEFINE a == Captured(c, entry'[c])
<1> USE CommandsAssumption
<1>1. /\ timers \subseteq Attempt /\ handlers \subseteq Attempt /\ sent \subseteq Attempt
      /\ lastRequest \in 0..MaxRequests /\ c \in Commands /\ e \in Entry
  BY DEF TypeOK, Arguments
<1>2. ChangedAt(table, c) /\ (Accepted(timers, c, e) \/ Refused(timers, c, e))
  BY <1>1, SendEffect
<1>3. /\ entry' \in [Commands -> Entry] /\ busy' \subseteq Entities
      /\ retryTimers' \subseteq Attempt /\ prompts' \subseteq Issued
      /\ BusyMeansPending'
      /\ \A k \in Commands : k # c => entry'[k] = table[k]
  BY <1>2 DEF ChangedAt, Covers, BusyMeansPending
<1>4. /\ \A h \in handlers : h.request \in 1..lastRequest
      /\ \A t \in timers : t.request <= lastRequest
      /\ \A t \in timers : t.request \in Int
      /\ \A g, h \in handlers : g.request = h.request => g = h
      /\ \A h \in handlers, t \in timers : h.request # t.request
  BY <1>1 DEF RequestsInv, Attempt, RequestIds
<1>5. a.cmd = c /\ a.request = entry'[c].request
  BY DEF Captured
<1>6. ASSUME NEW k \in Commands, k # c
      PROVE  DrivenIn(table, handlers, timers, k) /\ Captured(k, table[k]) # a
             /\ entry'[k] = table[k]
  BY <1>3, <1>5, <1>6 DEF DrivenBut, Captured
<1>7. CASE Accepted(timers, c, e)
  <2>1. /\ lastRequest' = lastRequest + 1 /\ lastRequest' \in 0..MaxRequests
        /\ handlers' = handlers \cup {a} /\ sent' = sent \cup {a} /\ a \in Attempt
        /\ retryTimers' = timers
    BY <1>7 DEF Accepted
  <2>2. a.request = lastRequest + 1
    BY <1>1, <1>5, <1>7 DEF Accepted, Entry
  <2>3. RequestsInv'
    BY <1>1, <1>4, <2>1, <2>2 DEF RequestsInv
  <2>4. a \notin timers
    BY <1>1, <1>4, <2>2
  <2>5. DrivenIn(entry', handlers', retryTimers', c)
    BY <2>1, <2>4 DEF DrivenIn
  <2>6. ASSUME NEW k \in Commands, k # c PROVE DrivenIn(entry', handlers', retryTimers', k)
    BY <1>6, <2>1, <2>6 DEF DrivenIn, Pending
  <2>7. PendingIsDriven'
    BY <2>5, <2>6 DEF PendingIsDriven, DrivenIn, Pending
  <2> QED
    BY <1>1, <1>3, <2>1, <2>3, <2>7 DEF SentWell
<1>8. CASE Refused(timers, c, e) /\ entry'[c] # Absent
  <2>1. /\ lastRequest' = lastRequest /\ handlers' = handlers /\ sent' = sent
        /\ entry'[c] = [e EXCEPT !.request = -1] /\ retryTimers' = timers \cup {a}
    BY <1>8 DEF Refused, FailedAt
  <2>2. a.request = -1
    BY <1>1, <1>5, <2>1 DEF Entry
  <2>3. RequestsInv'
    BY <1>1, <1>4, <2>1, <2>2 DEF RequestsInv
  <2>4. a \notin handlers
    BY <1>1, <1>4, <2>2
  <2>5. DrivenIn(entry', handlers', retryTimers', c)
    BY <2>1, <2>4 DEF DrivenIn
  <2>6. ASSUME NEW k \in Commands, k # c PROVE DrivenIn(entry', handlers', retryTimers', k)
    BY <1>6, <2>1, <2>6 DEF DrivenIn, Pending
  <2>7. PendingIsDriven'
    BY <2>5, <2>6 DEF PendingIsDriven, DrivenIn, Pending
  <2> QED
    BY <1>1, <1>3, <2>1, <2>3, <2>7 DEF SentWell
<1>9. CASE Refused(timers, c, e) /\ entry'[c] = Absent
  <2>1. /\ lastRequest' = lastRequest /\ handlers' = handlers /\ sent' = sent
        /\ retryTimers' \subseteq timers \cup {a}
    BY <1>9 DEF Refused, FailedAt
  <2>2. entry'[c] # [e EXCEPT !.request = -1] => retryTimers' = timers
    BY <1>9 DEF Refused, FailedAt
  <2>3. [e EXCEPT !.request = -1].epoch = e.epoch
    BY <1>1 DEF Entry
  <2>4. Absent.epoch = 0 /\ e.epoch # 0
    BY DEF Absent, Arguments
  <2>5. retryTimers' = timers
    BY <1>9, <2>2, <2>3, <2>4
  <2>6. RequestsInv'
    BY <1>1, <1>4, <2>1, <2>5 DEF RequestsInv
  <2>7. DrivenIn(entry', handlers', retryTimers', c)
    BY <1>9, <2>4 DEF DrivenIn, Pending
  <2>8. ASSUME NEW k \in Commands, k # c PROVE DrivenIn(entry', handlers', retryTimers', k)
    BY <1>6, <2>1, <2>5, <2>8 DEF DrivenIn, Pending
  <2>9. PendingIsDriven'
    BY <2>7, <2>8 DEF PendingIsDriven, DrivenIn, Pending
  <2> QED
    BY <1>1, <1>3, <2>1, <2>6, <2>9 DEF SentWell
<1> QED
  BY <1>2, <1>7, <1>8, <1>9

(***************************************************************************)
(* Commands are dropped or change fields nobody captures; callbacks and    *)
(* timers of commands that are not pending any more may go.                *)
(***************************************************************************)
LEMMA DropKeepsWell ==
  ASSUME IInv,
         entry' \in [Commands -> Entry], busy' \subseteq Entities, BusyMeansPending',
         \A k \in Pending(entry') : k \in Pending(entry)
                                   /\ Captured(k, entry'[k]) = Captured(k, entry[k]),
         handlers' \subseteq handlers, retryTimers' \subseteq retryTimers,
         \A a \in (handlers \ handlers') \cup (retryTimers \ retryTimers') :
           \A k \in Pending(entry') : Captured(k, entry[k]) # a,
         prompts' \subseteq prompts, lastRequest' = lastRequest, sent' = sent
  PROVE  SentWell
<1>1. TypeOK /\ RequestsInv /\ PendingIsDriven
  BY DEF IInv
<1>2. RequestsInv'
  BY <1>1 DEF RequestsInv
<1>3. PendingIsDriven'
  BY <1>1 DEF PendingIsDriven
<1> QED
  BY <1>1, <1>2, <1>3 DEF SentWell, TypeOK

LEMMA DriveOfOthers ==
  ASSUME IInv, NEW c \in Commands, NEW gone \in SUBSET Commands,
         c \notin gone => c \notin Pending(entry)
  PROVE  DrivenBut(Without(entry, gone), retryTimers, c)
<1> SUFFICES ASSUME NEW k \in Commands, k # c
             PROVE  DrivenIn(Without(entry, gone), handlers, retryTimers, k)
  BY DEF DrivenBut
<1>1. DrivenIn(entry, handlers, retryTimers, k)
  BY DEF IInv, PendingIsDriven, DrivenIn
<1> QED
  BY <1>1 DEF DrivenIn, Pending, Without, Absent

LEMMA OnEntityCommandWell ==
  ASSUME IInv, NEW c \in Commands, OnEntityCommand(c)
  PROVE  SentWell
<1> DEFINE gone == Obsolete(c)
           table == Without(entry, gone)
           indicators == Cleared(busy, table, gone)
           e == NewEntry(commandEpoch + 1)
<1>1. TypeOK /\ RequestsInv /\ Covers(entry, busy)
  BY DEF IInv, BusyMeansPending, Covers
<1>2. gone \in SUBSET Commands
  BY DEF Obsolete, EndedBy, StartsOf, Pending
<1>3. /\ table \in [Commands -> Entry] /\ indicators \in SUBSET Entities
      /\ Covers(table, indicators)
      /\ \A k \in Commands : /\ k \in gone => k \notin Pending(table)
                             /\ k \notin gone => table[k] = entry[k]
  BY <1>1, <1>2, WithoutCovers DEF TypeOK
<1>4. CASE c \in Pending(table)
  <2>1. /\ entry' = table /\ busy' = indicators
        /\ UNCHANGED <<lastRequest, handlers, retryTimers, busyTimers, prompts, sent>>
    BY <1>4 DEF OnEntityCommand
  <2>2. \A k \in Pending(entry') : k \in Pending(entry) /\ entry'[k] = entry[k]
    BY <1>3, <2>1 DEF Pending
  <2>3. BusyMeansPending'
    BY <1>3, <2>1 DEF BusyMeansPending, Covers
  <2> QED
    BY <1>3, <2>1, <2>2, <2>3, DropKeepsWell DEF Captured
<1>5. CASE c \notin Pending(table)
  <2>1. RetrySendAttempt(table, indicators, retryTimers, prompts, c, e)
    BY <1>5 DEF OnEntityCommand, FirstAttempt
  <2>2. commandEpoch + 1 \in 1..MaxEpoch
    BY <1>1, CommandsAssumption DEF OnEntityCommand, TypeOK
  <2>3. Eligible \in BOOLEAN
    BY <1>1 DEF Eligible, TypeOK
  <2>4. e \in Entry /\ e.epoch # 0
    BY <2>2, <2>3 DEF NewEntry, Entry, RequestIds
  <2>5. Arguments(table, indicators, retryTimers, prompts, c, e)
    BY <1>1, <1>3, <2>4 DEF Arguments, TypeOK
  <2>6. c \notin gone => c \notin Pending(entry)
    BY <1>3, <1>5 DEF Pending
  <2>7. DrivenBut(table, retryTimers, c)
    BY <1>2, <2>6, DriveOfOthers
  <2> HIDE DEF e, table, indicators
  <2> QED
    BY <1>1, <2>1, <2>5, <2>7, SendDrives
<1> QED
  BY <1>4, <1>5

LEMMA TryAgainWell ==
  ASSUME IInv, NEW p \in prompts, TryAgain(p)
  PROVE  SentWell
<1> DEFINE e == TryAgainEntry(commandEpoch + 1)
           open == prompts \ {p}
<1>1. TypeOK /\ RequestsInv /\ Covers(entry, busy) /\ BusyMeansPending
  BY DEF IInv, BusyMeansPending, Covers
<1>2. p.cmd \in Commands
  BY <1>1 DEF TypeOK, Issued
<1>3. CASE p.cmd \in Pending(entry)
  <2>1. /\ prompts' \subseteq prompts
        /\ UNCHANGED <<entry, lastRequest, handlers, retryTimers, busy, sent>>
    BY <1>3 DEF TryAgain
  <2> QED
    BY <1>1, <2>1, DropKeepsWell DEF TypeOK, BusyMeansPending, Pending
<1>4. CASE p.cmd \notin Pending(entry)
  <2>1. RetrySendAttempt(entry, busy, retryTimers, open, p.cmd, e)
    BY <1>4 DEF TryAgain, FirstAttempt
  <2>2. commandEpoch + 1 \in 1..MaxEpoch
    BY <1>1, CommandsAssumption DEF TryAgain, TypeOK
  <2>3. e \in Entry /\ e.epoch # 0
    BY <2>2 DEF TryAgainEntry, Entry, RequestIds
  <2>4. Arguments(entry, busy, retryTimers, open, p.cmd, e)
    BY <1>1, <1>2, <2>3 DEF Arguments, TypeOK
  <2>5. DrivenBut(entry, retryTimers, p.cmd)
    BY DEF IInv, PendingIsDriven, DrivenBut, DrivenIn
  <2> HIDE DEF e, open
  <2> QED
    BY <1>1, <2>1, <2>4, <2>5, SendDrives
<1> QED
  BY <1>3, <1>4

(***************************************************************************)
(* Dropping a set of commands with their indicators.                       *)
(***************************************************************************)
LEMMA DroppedWell ==
  ASSUME IInv, NEW gone \in SUBSET Commands,
         entry' = Without(entry, gone), busy' = Cleared(busy, Without(entry, gone), gone),
         UNCHANGED <<lastRequest, handlers, retryTimers, prompts, sent>>
  PROVE  SentWell
<1>1. TypeOK /\ Covers(entry, busy)
  BY DEF IInv, BusyMeansPending, Covers
<1>2. /\ entry' \in [Commands -> Entry] /\ busy' \subseteq Entities /\ Covers(entry', busy')
      /\ \A k \in Commands : /\ k \in gone => k \notin Pending(entry')
                             /\ k \notin gone => entry'[k] = entry[k]
  <2>1. entry \in [Commands -> Entry] /\ busy \in SUBSET Entities
    BY <1>1 DEF TypeOK
  <2> QED
    BY <1>1, <2>1, WithoutCovers
<1>3. BusyMeansPending'
  BY <1>2 DEF BusyMeansPending, Covers
<1>4. \A k \in Pending(entry') : k \in Pending(entry) /\ entry'[k] = entry[k]
  BY <1>2 DEF Pending
<1> QED
  BY <1>2, <1>3, <1>4, DropKeepsWell DEF Captured

LEMMA CommandSucceedsWell ==
  ASSUME IInv, NEW h \in handlers, CommandSucceeds(h)
  PROVE  SentWell
<1>1. TypeOK /\ Covers(entry, busy) /\ BusyMeansPending
  BY DEF IInv, BusyMeansPending, Covers
<1>2. h.cmd \in Commands /\ h \in Attempt
  BY <1>1 DEF TypeOK, Attempt
<1>3. /\ handlers' = handlers \ {h}
      /\ UNCHANGED <<lastRequest, retryTimers, prompts, sent>>
  BY DEF CommandSucceeds
<1>4. CASE IsLive(h)
  <2>1. /\ entry' = Without(entry, {h.cmd})
        /\ busy' = Cleared(busy, Without(entry, {h.cmd}), {h.cmd})
    BY <1>4 DEF CommandSucceeds
  <2>2. entry \in [Commands -> Entry] /\ busy \in SUBSET Entities
        /\ {h.cmd} \in SUBSET Commands
    BY <1>1, <1>2 DEF TypeOK
  <2>3. /\ entry' \in [Commands -> Entry] /\ busy' \subseteq Entities
        /\ Covers(entry', busy')
        /\ \A k \in Commands : /\ k \in {h.cmd} => k \notin Pending(entry')
                               /\ k \notin {h.cmd} => entry'[k] = entry[k]
    BY <1>1, <2>1, <2>2, WithoutCovers
  <2>4. BusyMeansPending'
    BY <2>3 DEF BusyMeansPending, Covers
  <2>5. \A k \in Pending(entry') :
          k \in Pending(entry) /\ entry'[k] = entry[k] /\ k # h.cmd
    BY <2>3 DEF Pending
  <2> QED
    BY <1>3, <2>3, <2>4, <2>5, DropKeepsWell DEF Captured
<1>5. CASE ~IsLive(h)
  <2>1. UNCHANGED <<entry, busy>>
    BY <1>5 DEF CommandSucceeds
  <2>2. \A k \in Pending(entry) : Captured(k, entry[k]) # h
    BY <1>5 DEF IsLive, Captured
  <2>3. Pending(entry') = Pending(entry) /\ BusyMeansPending'
    BY <1>1, <2>1 DEF Pending, BusyMeansPending
  <2> QED
    BY <1>1, <1>3, <2>1, <2>2, <2>3, DropKeepsWell DEF TypeOK
<1> QED
  BY <1>4, <1>5

(***************************************************************************)
(* The failure callback compares request ids only; since they are handed   *)
(* out once, the request of a handler identifies its attempt.              *)
(***************************************************************************)
LEMMA OwnRequestIsLive ==
  ASSUME IInv, NEW h \in handlers
  PROVE  IsOwnRequest(h) <=> IsLive(h)
<1>1. ASSUME IsOwnRequest(h) PROVE IsLive(h)
  <2> DEFINE a == Captured(h.cmd, entry[h.cmd])
  <2>1. /\ h.cmd \in Pending(entry) /\ entry[h.cmd].request = h.request
        /\ a.request = h.request /\ a.epoch = entry[h.cmd].epoch
    BY <1>1 DEF IsOwnRequest, Captured
  <2>2. a \in handlers \/ a \in retryTimers
    BY <2>1 DEF IInv, PendingIsDriven
  <2>3. a = h
    BY <2>1, <2>2 DEF IInv, RequestsInv
  <2> QED
    BY <2>1, <2>3 DEF IsLive
<1> QED
  BY <1>1 DEF IsLive, IsOwnRequest

LEMMA CommandFailsWell ==
  ASSUME IInv, NEW h \in handlers, NEW code \in Codes, CommandFails(h, code)
  PROVE  SentWell
<1>1. TypeOK /\ Covers(entry, busy) /\ BusyMeansPending /\ RequestsInv /\ PendingIsDriven
  BY DEF IInv, BusyMeansPending, Covers
<1>2. h.cmd \in Commands /\ h \in Attempt
  BY <1>1 DEF TypeOK, Attempt
<1>3. handlers' = handlers \ {h} /\ UNCHANGED <<lastRequest, sent>>
  BY DEF CommandFails
<1>4. CASE IsOwnRequest(h)
  <2> DEFINE c == h.cmd
             e == entry[c]
  <2>1. IsLive(h)
    BY <1>4, OwnRequestIsLive
  <2>2. e \in Entry /\ e.epoch # 0
    BY <1>1, <1>2, <2>1 DEF TypeOK, IsLive, Pending
  <2>3. Captured(c, e) = h
    BY <1>2, <2>1 DEF IsLive, Captured, Attempt
  <2>4. HandleFailure(entry, busy, retryTimers, prompts, c, e, code)
    BY <1>4 DEF CommandFails
  <2>5. Arguments(entry, busy, retryTimers, prompts, c, e)
    BY <1>1, <1>2, <2>2 DEF Arguments, TypeOK
  <2>6. ChangedAt(entry, c) /\ FailedAt(retryTimers, c, e)
    <3> HIDE DEF c, e
    <3> QED
      BY <2>4, <2>5, FailureEffect
  <2>7. RequestsInv'
    BY <1>1, <1>3, <2>3, <2>6 DEF RequestsInv, FailedAt
  <2>8. DrivenIn(entry', handlers', retryTimers', c)
    BY <1>3, <2>3, <2>6 DEF FailedAt, DrivenIn, Pending, Absent
  <2>9. ASSUME NEW k \in Commands, k # c PROVE DrivenIn(entry', handlers', retryTimers', k)
    <3>1. DrivenIn(entry, handlers, retryTimers, k) /\ entry'[k] = entry[k]
      BY <1>1, <2>6, <2>9 DEF PendingIsDriven, DrivenIn, ChangedAt
    <3>2. Captured(k, entry[k]) # h
      BY <2>9 DEF Captured
    <3>3. retryTimers' = retryTimers \/ retryTimers' = retryTimers \cup {h}
      BY <2>3, <2>6 DEF FailedAt
    <3> QED
      BY <1>3, <3>1, <3>2, <3>3 DEF DrivenIn, Pending
  <2>10. PendingIsDriven'
    BY <2>8, <2>9 DEF PendingIsDriven, DrivenIn, Pending
  <2>11. BusyMeansPending'
    BY <2>6 DEF ChangedAt, Covers, BusyMeansPending
  <2> QED
    BY <1>1, <1>3, <2>6, <2>7, <2>10, <2>11 DEF SentWell, ChangedAt, TypeOK
<1>5. CASE ~IsOwnRequest(h)
  <2>1. UNCHANGED <<entry, busy, retryTimers, prompts>>
    BY <1>5 DEF CommandFails
  <2>2. \A k \in Pending(entry) : Captured(k, entry[k]) # h
    BY <1>5 DEF IsOwnRequest, Captured
  <2>3. Pending(entry') = Pending(entry) /\ BusyMeansPending'
    BY <1>1, <2>1 DEF Pending, BusyMeansPending
  <2> QED
    BY <1>1, <1>3, <2>1, <2>2, <2>3, DropKeepsWell DEF TypeOK
<1> QED
  BY <1>4, <1>5

LEMMA RetryTimeoutWell ==
  ASSUME IInv, NEW t \in retryTimers, RetryTimeout(t)
  PROVE  SentWell
<1> DEFINE timers == retryTimers \ {t}
           c == t.cmd
           e == entry[c]
<1>1. TypeOK /\ Covers(entry, busy) /\ BusyMeansPending /\ RequestsInv /\ PendingIsDriven
  BY DEF IInv, BusyMeansPending, Covers
<1>2. c \in Commands /\ t \in Attempt
  BY <1>1 DEF TypeOK, Attempt
<1>3. CASE IsLive(t)
  <2>1. RetrySendAttempt(entry, busy, timers, prompts, c, e)
    BY <1>3 DEF RetryTimeout
  <2>2. e \in Entry /\ e.epoch # 0
    BY <1>1, <1>2, <1>3 DEF TypeOK, IsLive, Pending
  <2>3. Arguments(entry, busy, timers, prompts, c, e)
    BY <1>1, <1>2, <2>2 DEF Arguments, TypeOK
  <2>4. DrivenBut(entry, timers, c)
    BY <1>1 DEF PendingIsDriven, DrivenBut, DrivenIn, Captured
  <2>5. timers \subseteq retryTimers
    OBVIOUS
  <2> HIDE DEF e, c, timers
  <2> QED
    BY <1>1, <2>1, <2>3, <2>4, <2>5, SendDrives
<1>4. CASE ~IsLive(t)
  <2>1. retryTimers' = timers /\ UNCHANGED <<entry, busy, prompts, lastRequest, handlers, sent>>
    BY <1>4 DEF RetryTimeout
  <2>2. \A k \in Pending(entry) : Captured(k, entry[k]) # t
    BY <1>4 DEF IsLive, Captured
  <2>3. Pending(entry') = Pending(entry) /\ BusyMeansPending'
    BY <1>1, <2>1 DEF Pending, BusyMeansPending
  <2> QED
    BY <1>1, <2>1, <2>2, <2>3, DropKeepsWell DEF TypeOK
<1> QED
  BY <1>3, <1>4

(***************************************************************************)
(* Changes of the deadlines leave what callbacks have captured.            *)
(***************************************************************************)
LEMMA DeadlineWell ==
  ASSUME IInv, entry' \in [Commands -> Entry],
         \A c \in Commands : entry'[c].epoch = entry[c].epoch
                            /\ entry'[c].request = entry[c].request,
         UNCHANGED <<busy, lastRequest, handlers, retryTimers, prompts, sent>>
  PROVE  SentWell
<1>1. Pending(entry') = Pending(entry)
  BY DEF Pending
<1>2. BusyMeansPending'
  BY <1>1 DEF IInv, BusyMeansPending
<1>3. \A k \in Pending(entry') : Captured(k, entry'[k]) = Captured(k, entry[k])
  BY DEF Captured, Pending
<1> QED
  BY <1>1, <1>2, <1>3, DropKeepsWell DEF IInv, TypeOK

LEMMA PowerNormalWell ==
  ASSUME IInv, PowerNormal
  PROVE  SentWell
<1>1. entry \in [Commands -> Entry]
  BY DEF IInv, TypeOK
<1>2. entry' = entry \/ entry' = Extended
  BY DEF PowerNormal
<1>3. Extended \in [Commands -> Entry]
      /\ \A c \in Commands : Extended[c].epoch = entry[c].epoch
                            /\ Extended[c].request = entry[c].request
  BY <1>1 DEF Extended, Entry
<1>4. UNCHANGED <<busy, lastRequest, handlers, retryTimers, prompts, sent>>
  BY DEF PowerNormal
<1> QED
  BY <1>1, <1>2, <1>3, <1>4, DeadlineWell

LEMMA DeadlinePassesWell ==
  ASSUME IInv, NEW c \in Commands, DeadlinePasses(c)
  PROVE  SentWell
<1>1. entry \in [Commands -> Entry]
  BY DEF IInv, TypeOK
<1>2. entry' = [entry EXCEPT ![c].late = TRUE]
      /\ UNCHANGED <<busy, lastRequest, handlers, retryTimers, prompts, sent>>
  BY DEF DeadlinePasses
<1>3. entry' \in [Commands -> Entry]
      /\ \A k \in Commands : entry'[k].epoch = entry[k].epoch
                            /\ entry'[k].request = entry[k].request
  BY <1>1, <1>2 DEF Entry
<1> QED
  BY <1>2, <1>3, DeadlineWell

LEMMA EntityDeletedWell ==
  ASSUME IInv, NEW x \in Entities, EntityDeleted(x)
  PROVE  SentWell
<1> DEFINE gone == {c \in Commands : c.entity = x}
<1>1. TypeOK /\ BusyMeansPending
  BY DEF IInv
<1>2. /\ entry' = Without(entry, gone) /\ busy' = busy \ {x}
      /\ UNCHANGED <<lastRequest, handlers, retryTimers, prompts, sent>>
  BY DEF EntityDeleted
<1>3. Absent \in Entry
  BY CommandsAssumption DEF Absent, Entry, RequestIds
<1>4. /\ entry' \in [Commands -> Entry] /\ busy' \subseteq Entities
      /\ \A k \in Commands : entry'[k] = IF k.entity = x THEN Absent ELSE entry[k]
  BY <1>1, <1>2, <1>3 DEF TypeOK, Without
<1>5. \A k \in Pending(entry') : k \in Pending(entry) /\ entry'[k] = entry[k]
  BY <1>4 DEF Pending, Absent
<1>6. BusyMeansPending'
  BY <1>1, <1>2, <1>4 DEF BusyMeansPending, Pending
<1> QED
  BY <1>2, <1>4, <1>5, <1>6, DropKeepsWell DEF Captured

LEMMA CoreDisconnectedWell ==
  ASSUME IInv, CoreDisconnected
  PROVE  SentWell
<1>1. /\ entry' = [c \in Commands |-> Absent] /\ busy' = {}
      /\ UNCHANGED <<lastRequest, handlers, retryTimers, prompts, sent>>
  BY DEF CoreDisconnected, ClearPendingCommands
<1>2. Absent \in Entry
  BY CommandsAssumption DEF Absent, Entry, RequestIds
<1>3. Pending(entry') = {} /\ entry' \in [Commands -> Entry]
  BY <1>1, <1>2 DEF Pending, Absent
<1>4. BusyMeansPending'
  BY <1>1 DEF BusyMeansPending
<1> QED
  BY <1>1, <1>3, <1>4, DropKeepsWell

LEMMA StutterWell ==
  ASSUME IInv, UNCHANGED <<entry, busy, lastRequest, handlers, retryTimers, sent>>,
         prompts' \subseteq prompts
  PROVE  SentWell
<1>1. Pending(entry') = Pending(entry)
  BY DEF Pending
<1>2. BusyMeansPending'
  BY <1>1 DEF IInv, BusyMeansPending
<1> QED
  BY <1>1, <1>2, DropKeepsWell DEF IInv, TypeOK

LEMMA BusyTimeoutWell ==
  ASSUME IInv, NEW b \in busyTimers, BusyTimeout(b)
  PROVE  SentWell
<1>1. TypeOK /\ BusyMeansPending
  BY DEF IInv
<1>2. b.cmd \in Commands /\ b.epoch \in Epochs
  BY <1>1 DEF TypeOK, Issued
<1>3. /\ UNCHANGED <<entry, lastRequest, handlers, retryTimers, prompts, sent>>
      /\ busy' = IF StillIssued(b) THEN busy \cup {b.cmd.entity} ELSE busy
  BY DEF BusyTimeout
<1>4. Pending(entry') = Pending(entry)
  BY <1>3 DEF Pending
<1>5. StillIssued(b) => b.cmd \in Pending(entry)
  BY <1>2, CommandsAssumption DEF StillIssued, Pending, Epochs
<1>6. busy' \subseteq Entities
  BY <1>1, <1>2, <1>3, CommandsTyped DEF TypeOK
<1>7. BusyMeansPending'
  BY <1>1, <1>3, <1>4, <1>5 DEF BusyMeansPending
<1> QED
  BY <1>1, <1>3, <1>4, <1>6, <1>7, DropKeepsWell DEF TypeOK

-----------------------------------------------------------------------------
(* Steps                                                                   *)

LEMMA InitIInv == Init => IInv
<1> SUFFICES ASSUME Init PROVE IInv
  OBVIOUS
<1>1. Absent \in Entry
  BY CommandsAssumption DEF Absent, Entry, RequestIds
<1>2. TypeOK
  <2>1. /\ windowSet \in BOOLEAN /\ coreUp \in BOOLEAN /\ resumeWindow \in BOOLEAN
        /\ wasSuspended \in BOOLEAN
    BY DEF Init
  <2> QED
    BY <1>1, <2>1, CommandsAssumption DEF Init, TypeOK
<1>3. Pending(entry) = {}
  BY DEF Init, Pending, Absent
<1> QED
  BY <1>2, <1>3 DEF IInv, Init, BusyMeansPending, PendingIsDriven, RequestsInv

\* The variables an attempt does not speak of.
RestTyped ==
  /\ commandEpoch \in 0..MaxEpoch
  /\ busyTimers \subseteq Issued
  /\ coreUp \in BOOLEAN /\ windowSet \in BOOLEAN /\ resumeWindow \in BOOLEAN
  /\ wasSuspended \in BOOLEAN
  /\ power \in {"normal", "low", "suspend"}
  /\ suspends \in 0..MaxSuspends
  /\ tried \subseteq Epochs
  /\ withdrawn \subseteq Epochs

LEMMA EpochsOfPending ==
  ASSUME TypeOK, NEW gone, gone \subseteq Pending(entry)
  PROVE  {entry[c].epoch : c \in gone} \subseteq Epochs
BY CommandsAssumption DEF TypeOK, Pending, Entry, Epochs

LEMMA NextRestTyped ==
  ASSUME TypeOK, Next
  PROVE  RestTyped'
<1> USE CommandsAssumption
<1>1. RestTyped
  BY DEF TypeOK, RestTyped
<1>2. ASSUME NEW c \in Commands, OnEntityCommand(c) PROVE RestTyped'
  <2>1. commandEpoch' = commandEpoch + 1 /\ commandEpoch' \in 1..MaxEpoch
    BY <1>1, <1>2 DEF OnEntityCommand, RestTyped
  <2>2. busyTimers' \subseteq busyTimers \cup {[cmd |-> c, epoch |-> commandEpoch + 1]}
    BY <1>2 DEF OnEntityCommand, FirstAttempt, NewEntry
  <2>3. EndedBy(c) \subseteq Pending(entry)
    BY DEF EndedBy, StartsOf
  <2>4. withdrawn' \subseteq Epochs
    BY <1>1, <1>2, <2>3, EpochsOfPending DEF OnEntityCommand, RestTyped
  <2>5. UNCHANGED <<coreUp, tried, powerVars>>
    BY <1>2 DEF OnEntityCommand
  <2> QED
    BY <1>1, <2>1, <2>2, <2>4, <2>5 DEF RestTyped, Issued, Epochs, powerVars
<1>3. ASSUME NEW p \in prompts, TryAgain(p) PROVE RestTyped'
  <2>1. p.cmd \in Commands
    BY DEF TypeOK, Issued
  <2>2. commandEpoch < MaxEpoch /\ UNCHANGED <<coreUp, withdrawn, powerVars>>
    BY <1>3 DEF TryAgain
  <2>3. \/ UNCHANGED <<commandEpoch, busyTimers, tried>>
        \/ /\ commandEpoch' = commandEpoch + 1 /\ tried' = tried \cup {commandEpoch + 1}
           /\ busyTimers' = busyTimers \cup {[cmd |-> p.cmd, epoch |-> commandEpoch + 1]}
    BY <1>3 DEF TryAgain, FirstAttempt, TryAgainEntry
  <2>4. commandEpoch + 1 \in Epochs
    BY <1>1, <2>2 DEF RestTyped, Epochs
  <2>5. [cmd |-> p.cmd, epoch |-> commandEpoch + 1] \in Issued
    BY <2>1, <2>4 DEF Issued
  <2>6. busyTimers' \subseteq Issued /\ tried' \subseteq Epochs
    BY <1>1, <2>3, <2>4, <2>5 DEF RestTyped
  <2>7. commandEpoch' \in 0..MaxEpoch
    BY <1>1, <2>3, <2>4 DEF RestTyped, Epochs
  <2> QED
    BY <1>1, <2>2, <2>6, <2>7 DEF RestTyped, powerVars
<1>4. ASSUME NEW h \in handlers, CommandSucceeds(h) PROVE RestTyped'
  BY <1>1, <1>4 DEF CommandSucceeds, RestTyped, powerVars
<1>5. ASSUME NEW h \in handlers, NEW code \in Codes, CommandFails(h, code) PROVE RestTyped'
  BY <1>1, <1>5 DEF CommandFails, RestTyped, powerVars
<1>6. ASSUME NEW t \in retryTimers, RetryTimeout(t) PROVE RestTyped'
  BY <1>1, <1>6 DEF RetryTimeout, RestTyped, powerVars
<1>7. ASSUME NEW b \in busyTimers, BusyTimeout(b) PROVE RestTyped'
  BY <1>1, <1>7 DEF BusyTimeout, RestTyped, powerVars
<1>8. ASSUME NEW c \in Commands, OverlayClosed(c.entity, c.session) PROVE RestTyped'
  <2>1. StartsOf(c.entity, c.session) \subseteq Pending(entry)
    BY DEF StartsOf
  <2>2. withdrawn' \subseteq Epochs
    BY <1>1, <1>8, <2>1, EpochsOfPending DEF OverlayClosed, RestTyped
  <2> QED
    BY <1>1, <1>8, <2>2 DEF OverlayClosed, RestTyped, powerVars
<1>9. ASSUME NEW x \in Entities, EntityDeleted(x) PROVE RestTyped'
  BY <1>1, <1>9 DEF EntityDeleted, RestTyped, powerVars
<1>10. CASE CoreConnected
  BY <1>1, <1>10 DEF CoreConnected, RestTyped, powerVars, commandVars
<1>11. CASE CoreDisconnected
  BY <1>1, <1>11 DEF CoreDisconnected, RestTyped, powerVars
<1>12. ASSUME NEW c \in Commands, DeadlinePasses(c) PROVE RestTyped'
  BY <1>1, <1>12 DEF DeadlinePasses, RestTyped, powerVars
<1>13. CASE PowerSuspend
  <2>1. wasSuspended' \in BOOLEAN
    BY <1>1, <1>13 DEF PowerSuspend, RestTyped
  <2>2. suspends' \in 0..MaxSuspends
    BY <1>1, <1>13 DEF PowerSuspend, RestTyped
  <2>3. power' = "suspend" /\ UNCHANGED <<windowSet, resumeWindow, coreUp, commandVars>>
    BY <1>13 DEF PowerSuspend
  <2> QED
    BY <1>1, <2>1, <2>2, <2>3 DEF RestTyped, commandVars
<1>14. CASE PowerLow
  BY <1>1, <1>14 DEF PowerLow, RestTyped, commandVars
<1>15. CASE PowerNormal
  <2>1. resumeWindow' \in BOOLEAN /\ wasSuspended' \in BOOLEAN
    BY <1>1, <1>15 DEF PowerNormal, RestTyped
  <2>2. power' = "normal" /\ UNCHANGED <<windowSet, suspends, commandEpoch, busyTimers, tried,
                                        withdrawn, coreUp>>
    BY <1>15 DEF PowerNormal
  <2> QED
    BY <1>1, <2>1, <2>2 DEF RestTyped
<1>16. CASE ResumeTimerTimeout
  BY <1>1, <1>16 DEF ResumeTimerTimeout, RestTyped, commandVars
<1>17. CASE ResumeWindowConfigured
  <2>1. windowSet' \in BOOLEAN
    BY <1>17 DEF ResumeWindowConfigured
  <2> QED
    BY <1>1, <1>17, <2>1 DEF ResumeWindowConfigured, RestTyped, commandVars
<1> QED
  BY <1>2, <1>3, <1>4, <1>5, <1>6, <1>7, <1>8, <1>9, <1>10, <1>11, <1>12, <1>13, <1>14, <1>15,
     <1>16, <1>17 DEF Next

LEMMA NextIInv == IInv /\ [Next]_vars => IInv'
<1> SUFFICES ASSUME IInv, [Next]_vars PROVE IInv'
  OBVIOUS
<1>1. CASE Next
  <2>1. SentWell
    <3>1. ASSUME NEW c \in Commands, OverlayClosed(c.entity, c.session) PROVE SentWell
      <4>1. StartsOf(c.entity, c.session) \in SUBSET Commands
        BY DEF StartsOf, Pending
      <4> QED
        BY <3>1, <4>1, DroppedWell DEF OverlayClosed
    <3>2. CASE CoreConnected \/ PowerSuspend \/ PowerLow \/ ResumeTimerTimeout
               \/ ResumeWindowConfigured
      BY <3>2, StutterWell DEF CoreConnected, PowerSuspend, PowerLow, ResumeTimerTimeout,
         ResumeWindowConfigured, commandVars
    <3> QED
      BY <1>1, <3>1, <3>2, OnEntityCommandWell, TryAgainWell, CommandSucceedsWell,
         CommandFailsWell, RetryTimeoutWell, BusyTimeoutWell, EntityDeletedWell,
         CoreDisconnectedWell, DeadlinePassesWell, PowerNormalWell DEF Next
  <2>2. RestTyped'
    BY <1>1, NextRestTyped DEF IInv
  <2>3. TypeOK'
    BY <2>1, <2>2 DEF TypeOK, RestTyped, SentWell
  <2> QED
    BY <2>1, <2>3 DEF IInv, SentWell
<1>2. CASE UNCHANGED vars
  <2>1. SentWell
    BY <1>2, StutterWell DEF vars, commandVars
  <2>2. RestTyped'
    BY <1>2 DEF IInv, TypeOK, RestTyped, vars, commandVars, powerVars
  <2>3. TypeOK'
    BY <2>1, <2>2 DEF TypeOK, RestTyped, SentWell
  <2> QED
    BY <2>1, <2>3 DEF IInv, SentWell
<1> QED
  BY <1>1, <1>2

\* The inductive invariant holds in every reachable state; the properties below follow from it.
THEOREM Invariance == Spec => []IInv
BY InitIInv, NextIInv, PTL DEF Spec

-----------------------------------------------------------------------------
(***************************************************************************)
(* What was sent.  A second invariant follows the epochs: each is given to *)
(* one command and is used up when that command is dropped.  A timer only  *)
(* resends a command that may be repeated, and never one that was issued   *)
(* through "Try again".                                                    *)
(***************************************************************************)

\* No epoch that was used is still to be handed out.
Used(n, table, timers, snt, trd, wdn) ==
  /\ \A c \in Pending(table) : table[c].epoch <= n
  /\ \A a \in snt \cup timers : a.epoch <= n
  /\ \A i \in trd \cup wdn : i <= n

\* An epoch belongs to one command.
OneCommandEach(table, snt) ==
  /\ \A c, d \in Pending(table) : table[c].epoch = table[d].epoch => c = d
  /\ \A c \in Pending(table), a \in snt : table[c].epoch = a.epoch => a.cmd = c

\* What must not be repeated has no resend timer, and will get none.
NoneToRepeat(table, timers, trd) ==
  /\ \A c \in Pending(table) : table[c].epoch \in trd => ~table[c].retry
  /\ \A t \in timers : t.cmd.kind # "repeat" /\ t.epoch \notin trd

NoneWithdrawn(table, wdn) == \A c \in Pending(table) : table[c].epoch \notin wdn

\* SentOnce for a set of attempts.
OnceIn(snt, trd) ==
  \A a, b \in snt : a.epoch = b.epoch /\ (a.cmd.kind = "repeat" \/ a.epoch \in trd) => a = b

History(n, table, timers, snt, trd, wdn) ==
  /\ Used(n, table, timers, snt, trd, wdn)
  /\ OneCommandEach(table, snt)
  /\ NoneToRepeat(table, timers, trd)
  /\ NoneWithdrawn(table, wdn)
  /\ OnceIn(snt, trd)

HistoryInv == History(commandEpoch, entry, retryTimers, sent, tried, withdrawn)

\* Commands are dropped, and with them their epochs are withdrawn; a new epoch may be tried.
LEMMA DropKeepsHistory ==
  ASSUME NEW n \in Nat, NEW m \in Nat, NEW table \in [Commands -> Entry],
         NEW left \in [Commands -> Entry], NEW timers \in SUBSET Attempt,
         NEW others \in SUBSET timers, NEW snt \in SUBSET Attempt,
         NEW trd \in SUBSET Epochs, NEW wdn \in SUBSET Epochs, NEW new, NEW gone,
         History(n, table, timers, snt, trd, wdn), n <= m,
         \A i \in new : i = m /\ n < m,
         gone \subseteq {table[c].epoch : c \in Pending(table) \ Pending(left)},
         \A c \in Pending(left) : /\ c \in Pending(table) /\ left[c].epoch = table[c].epoch
                                  /\ left[c].retry = table[c].retry
  PROVE  History(m, left, others, snt, trd \cup new, wdn \cup gone)
<1>1. /\ Used(n, table, timers, snt, trd, wdn) /\ OneCommandEach(table, snt)
      /\ NoneToRepeat(table, timers, trd) /\ NoneWithdrawn(table, wdn) /\ OnceIn(snt, trd)
  BY DEF History
<1>2. /\ \A c \in Pending(table) : c \in Commands /\ table[c].epoch \in Nat
      /\ \A a \in snt \cup timers : a.epoch \in Nat
      /\ \A i \in trd \cup wdn : i \in Nat
  BY CommandsAssumption DEF Pending, Entry, Attempt, Epochs
<1>3. Used(m, left, others, snt, trd \cup new, wdn \cup gone)
  BY <1>1, <1>2 DEF Used
<1>4. OneCommandEach(left, snt)
  BY <1>1 DEF OneCommandEach
<1>5. NoneToRepeat(left, others, trd \cup new)
  <2>1. \A c \in Pending(left) : left[c].epoch \notin new
    BY <1>1, <1>2 DEF Used
  <2>2. \A t \in others : t.epoch \notin new
    BY <1>1, <1>2 DEF Used
  <2> QED BY <1>1, <2>1, <2>2 DEF NoneToRepeat
<1>6. NoneWithdrawn(left, wdn \cup gone)
  <2> SUFFICES ASSUME NEW c \in Pending(left) PROVE left[c].epoch \notin wdn \cup gone
    BY DEF NoneWithdrawn
  <2>1. left[c].epoch \notin wdn
    BY <1>1 DEF NoneWithdrawn
  <2>2. ASSUME NEW d \in Pending(table) \ Pending(left) PROVE left[c].epoch # table[d].epoch
    BY <1>1 DEF OneCommandEach
  <2> QED BY <2>1, <2>2
<1>7. OnceIn(snt, trd \cup new)
  <2>1. \A a \in snt : a.epoch \notin new
    BY <1>1, <1>2 DEF Used
  <2> QED BY <1>1, <2>1 DEF OnceIn
<1> QED BY <1>3, <1>4, <1>5, <1>6, <1>7 DEF History

\* The epoch of e is free, or that of c; if c was sent before, it may be sent again.
MayHold(n, table, snt, trd, wdn, c, e) ==
  /\ e.epoch \in 1..n /\ e.epoch \notin wdn
  /\ \A d \in Pending(table) : d # c => table[d].epoch # e.epoch
  /\ \A a \in snt : a.epoch = e.epoch => a.cmd = c
  /\ e.epoch \in trd => ~e.retry

\* An entry that keeps its epoch takes the place of what the table had for its command.
LEMMA HoldKeepsHistory ==
  ASSUME NEW n \in Nat, NEW table \in [Commands -> Entry], NEW timers \in SUBSET Attempt,
         NEW snt \in SUBSET Attempt, NEW trd \in SUBSET Epochs, NEW wdn \in SUBSET Epochs,
         History(n, table, timers, snt, trd, wdn),
         NEW c \in Commands, NEW e \in Entry, MayHold(n, table, snt, trd, wdn, c, e)
  PROVE  /\ History(n, [table EXCEPT ![c] = e], timers, snt, trd, wdn)
         /\ History(n, [table EXCEPT ![c] = Absent], timers, snt, trd, wdn)
<1> DEFINE kept == [table EXCEPT ![c] = e]
           left == [table EXCEPT ![c] = Absent]
<1>0. /\ e.epoch \in 1..n /\ e.epoch \notin wdn
      /\ \A d \in Pending(table) : d # c => table[d].epoch # e.epoch
      /\ \A a \in snt : a.epoch = e.epoch => a.cmd = c
      /\ e.epoch \in trd => ~e.retry
  BY DEF MayHold
<1>1. /\ Used(n, table, timers, snt, trd, wdn) /\ OneCommandEach(table, snt)
      /\ NoneToRepeat(table, timers, trd) /\ NoneWithdrawn(table, wdn) /\ OnceIn(snt, trd)
  BY DEF History
<1>2. \A d \in Pending(left) : d # c /\ d \in Pending(table) /\ left[d] = table[d]
  BY DEF Pending, Absent
<1>3. \A d \in Pending(kept) : (d = c /\ kept[d] = e)
                               \/ (d # c /\ d \in Pending(table) /\ kept[d] = table[d])
  BY DEF Pending
<1> HIDE DEF kept, left
<1>4. History(n, left, timers, snt, trd, wdn)
  <2>1. Used(n, left, timers, snt, trd, wdn)
    BY <1>1, <1>2 DEF Used
  <2>2. OneCommandEach(left, snt)
    BY <1>1, <1>2 DEF OneCommandEach
  <2>3. NoneToRepeat(left, timers, trd) /\ NoneWithdrawn(left, wdn)
    BY <1>1, <1>2 DEF NoneToRepeat, NoneWithdrawn
  <2> QED BY <1>1, <2>1, <2>2, <2>3 DEF History
<1>5. History(n, kept, timers, snt, trd, wdn)
  <2>1. Used(n, kept, timers, snt, trd, wdn)
    BY <1>0, <1>1, <1>3 DEF Used
  <2>2. OneCommandEach(kept, snt)
    BY <1>0, <1>1, <1>3 DEF OneCommandEach
  <2>3. NoneToRepeat(kept, timers, trd) /\ NoneWithdrawn(kept, wdn)
    BY <1>0, <1>1, <1>3 DEF NoneToRepeat, NoneWithdrawn
  <2> QED BY <1>1, <2>1, <2>2, <2>3 DEF History
<1> QED BY <1>4, <1>5 DEF kept, left

\* A failure drops the command or makes it wait for a timer it is allowed to have.
LEMMA FailureKeepsHistory ==
  ASSUME NEW n \in Nat, NEW table \in [Commands -> Entry], NEW indicators, NEW open,
         NEW timers \in SUBSET Attempt,
         NEW trd \in SUBSET Epochs, NEW wdn \in SUBSET Epochs, sent \in SUBSET Attempt,
         History(n, table, timers, sent, trd, wdn),
         NEW c \in Commands, NEW e \in Entry, MayHold(n, table, sent, trd, wdn, c, e),
         NEW code, HandleFailure(table, indicators, timers, open, c, e, code)
  PROVE  History(n, entry', retryTimers', sent, trd, wdn)
<1>1. CASE Resends(c, e, code)
  <2>1. entry' = [table EXCEPT ![c] = e] /\ retryTimers' = timers \cup {Captured(c, e)}
    BY <1>1 DEF HandleFailure
  <2>2. c.kind # "repeat" /\ e.epoch \notin trd /\ e.epoch <= n
    BY <1>1 DEF Resends, MayResend, MayHold
  <2>3. Captured(c, e).cmd = c /\ Captured(c, e).epoch = e.epoch
    BY DEF Captured
  <2>4. History(n, entry', timers, sent, trd, wdn)
    BY <2>1, HoldKeepsHistory
  <2> QED BY <2>1, <2>2, <2>3, <2>4 DEF History, Used, NoneToRepeat
<1>2. CASE ~Resends(c, e, code)
  <2>1. entry' = [table EXCEPT ![c] = Absent] /\ retryTimers' = timers
    BY <1>2 DEF HandleFailure
  <2> QED BY <2>1, HoldKeepsHistory
<1> QED BY <1>1, <1>2

\* An attempt leaves with an epoch that was not sent before, or that may be sent again.
LEMMA AttemptKeepsHistory ==
  ASSUME NEW n \in Nat, NEW table \in [Commands -> Entry], NEW indicators, NEW open,
         NEW timers \in SUBSET Attempt, lastRequest \in 0..MaxRequests,
         NEW trd \in SUBSET Epochs, NEW wdn \in SUBSET Epochs, sent \in SUBSET Attempt,
         History(n, table, timers, sent, trd, wdn),
         NEW c \in Commands, NEW e \in Entry, MayHold(n, table, sent, trd, wdn, c, e),
         \A a \in sent : a.epoch = e.epoch => c.kind # "repeat" /\ e.epoch \notin trd,
         RetrySendAttempt(table, indicators, timers, open, c, e)
  PROVE  /\ History(n, entry', retryTimers', sent', trd, wdn)
         /\ \A a \in sent' \ sent : a.epoch = e.epoch
<1>1. CASE HandleFailure(table, indicators, timers, open, c, [e EXCEPT !.request = -1],
                         "unreachable")
           /\ sent' = sent
  <2> DEFINE now == [e EXCEPT !.request = -1]
  <2>1. now \in Entry /\ now.epoch = e.epoch /\ now.retry = e.retry
    BY DEF Entry, RequestIds
  <2>2. MayHold(n, table, sent, trd, wdn, c, now)
    BY <2>1 DEF MayHold
  <2> HIDE DEF now
  <2>3. HandleFailure(table, indicators, timers, open, c, now, "unreachable")
    BY <1>1 DEF now
  <2> QED BY <1>1, <2>1, <2>2, <2>3, FailureKeepsHistory
<1>2. CASE /\ lastRequest < MaxRequests
           /\ LET now == [e EXCEPT !.request = lastRequest + 1]
              IN  /\ entry' = [table EXCEPT ![c] = now]
                  /\ sent' = sent \cup {Captured(c, now)}
           /\ retryTimers' = timers
  <2> DEFINE now == [e EXCEPT !.request = lastRequest + 1]
             a == Captured(c, now)
  <2>1. now \in Entry /\ now.epoch = e.epoch /\ now.retry = e.retry
    BY <1>2, CommandsAssumption DEF Entry, RequestIds
  <2>2. a.cmd = c /\ a.epoch = e.epoch
    BY <2>1 DEF Captured
  <2>3. entry' = [table EXCEPT ![c] = now] /\ sent' = sent \cup {a}
    BY <1>2
  <2> HIDE DEF now, a
  <2>4. MayHold(n, table, sent, trd, wdn, c, now)
    BY <2>1 DEF MayHold
  <2>5. History(n, entry', timers, sent, trd, wdn)
    BY <2>1, <2>3, <2>4, HoldKeepsHistory
  <2>6. Used(n, entry', timers, sent', trd, wdn)
    <3>1. Used(n, entry', timers, sent, trd, wdn)
      BY <2>5 DEF History
    <3>2. a.epoch <= n
      BY <2>2 DEF MayHold
    <3> QED BY <2>3, <3>1, <3>2 DEF Used
  <2>7. OneCommandEach(entry', sent')
    <3>1. \A d \in Pending(entry') : d # c => d \in Pending(table) /\ entry'[d] = table[d]
      BY <2>3 DEF Pending
    <3>2. \A d \in Pending(entry') : entry'[d].epoch = a.epoch => a.cmd = d
      BY <2>2, <3>1 DEF MayHold
    <3> QED BY <2>3, <2>5, <3>2 DEF History, OneCommandEach
  <2>8. OnceIn(sent', trd)
    <3> SUFFICES ASSUME NEW x \in sent, x.epoch = e.epoch,
                        x.cmd.kind = "repeat" \/ c.kind = "repeat" \/ e.epoch \in trd
                 PROVE  FALSE
      BY <2>2, <2>3, <2>5 DEF History, OnceIn
    <3>1. x.cmd = c
      BY DEF MayHold
    <3> QED BY <3>1
  <2> QED BY <1>2, <2>2, <2>3, <2>5, <2>6, <2>7, <2>8 DEF History
<1> QED BY <1>1, <1>2 DEF RetrySendAttempt

\* A pending command may keep its epoch.
LEMMA PendingMayHold ==
  ASSUME IInv, HistoryInv, NEW c \in Pending(entry)
  PROVE  /\ c \in Commands /\ entry[c] \in Entry
         /\ MayHold(commandEpoch, entry, sent, tried, withdrawn, c, entry[c])
<1>1. c \in Commands /\ entry[c] \in Entry /\ entry[c].epoch # 0
  BY DEF IInv, TypeOK, Pending
<1>2. entry[c].epoch \in Nat /\ commandEpoch \in Nat
  BY <1>1, CommandsAssumption DEF IInv, TypeOK, Entry
<1>3. entry[c].epoch \in 1..commandEpoch
  BY <1>1, <1>2 DEF HistoryInv, History, Used
<1> QED BY <1>1, <1>3
        DEF MayHold, HistoryInv, History, OneCommandEach, NoneToRepeat, NoneWithdrawn

\* The next epoch was given to no command and to no attempt.
LEMMA NextMayHold ==
  ASSUME IInv, HistoryInv, NEW left \in [Commands -> Entry], NEW c \in Commands,
         NEW e \in Entry, NEW new, NEW gone, e.epoch = commandEpoch + 1,
         \A d \in Pending(left) : d \in Pending(entry) /\ left[d].epoch = entry[d].epoch,
         gone \subseteq {entry[d].epoch : d \in Pending(entry)},
         e.epoch \in new => ~e.retry
  PROVE  /\ MayHold(commandEpoch + 1, left, sent, tried \cup new, withdrawn \cup gone, c, e)
         /\ \A a \in sent : a.epoch # e.epoch
<1>1. Used(commandEpoch, entry, retryTimers, sent, tried, withdrawn) /\ commandEpoch \in Nat
  BY CommandsAssumption DEF HistoryInv, History, IInv, TypeOK
<1>2. e.epoch \in 1..(commandEpoch + 1)
  BY <1>1
<1>3. \A d \in Pending(entry) : entry[d].epoch # e.epoch
  BY <1>1 DEF Used
<1>4. e.epoch \notin withdrawn \cup gone /\ e.epoch \notin tried
  BY <1>1, <1>3 DEF Used
<1>5. \A a \in sent : a.epoch # e.epoch
  BY <1>1 DEF Used
<1> QED BY <1>2, <1>3, <1>4, <1>5 DEF MayHold

\* Steps that send nothing and give out no epoch.
LEMMA DropKeepsHistoryInv ==
  ASSUME IInv, HistoryInv, entry' \in [Commands -> Entry], NEW gone,
         \A c \in Pending(entry') : /\ c \in Pending(entry)
                                    /\ entry'[c].epoch = entry[c].epoch
                                    /\ entry'[c].retry = entry[c].retry,
         gone \subseteq {entry[c].epoch : c \in Pending(entry) \ Pending(entry')},
         commandEpoch' \in {commandEpoch, commandEpoch + 1}, retryTimers' \subseteq retryTimers,
         sent' = sent, tried' = tried, withdrawn' = withdrawn \cup gone
  PROVE  HistoryInv'
<1>1. /\ commandEpoch \in Nat /\ commandEpoch' \in Nat /\ commandEpoch <= commandEpoch'
      /\ entry \in [Commands -> Entry] /\ retryTimers \in SUBSET Attempt
      /\ sent \in SUBSET Attempt /\ tried \in SUBSET Epochs /\ withdrawn \in SUBSET Epochs
  BY CommandsAssumption DEF IInv, TypeOK
<1>2. History(commandEpoch, entry, retryTimers, sent, tried, withdrawn)
  BY DEF HistoryInv
<1>3. History(commandEpoch', entry', retryTimers', sent, tried \cup {}, withdrawn \cup gone)
  BY <1>1, <1>2, DropKeepsHistory
<1> QED BY <1>3 DEF HistoryInv

LEMMA WithoutLeaves ==
  ASSUME IInv, NEW gone \in SUBSET Commands
  PROVE  /\ Without(entry, gone) \in [Commands -> Entry]
         /\ \A c \in Pending(Without(entry, gone)) :
              c \in Pending(entry) /\ c \notin gone /\ Without(entry, gone)[c] = entry[c]
<1>1. Absent \in Entry
  BY CommandsAssumption DEF Absent, Entry, RequestIds
<1> QED BY <1>1 DEF Without, Pending, Absent, IInv, TypeOK

\* What a step keeps of the history, and what it may send.
Silent == \A a \in sent' \ sent : a.epoch \notin withdrawn
HistoryKept == HistoryInv' /\ Silent

LEMMA OnEntityCommandKeepsHistory ==
  ASSUME IInv, HistoryInv, NEW c \in Commands, OnEntityCommand(c)
  PROVE  HistoryKept
<1> DEFINE ended == EndedBy(c)
           table == Without(entry, ended)
           gone == {entry[g].epoch : g \in ended}
           e == NewEntry(commandEpoch + 1)
<1>1. ended \subseteq Pending(entry) /\ ended \in SUBSET Commands
  BY DEF EndedBy, StartsOf, Pending
<1>2. commandEpoch < MaxEpoch /\ commandEpoch' = commandEpoch + 1 /\ commandEpoch' \in Nat
      /\ withdrawn' = withdrawn \cup gone /\ tried' = tried
  BY CommandsAssumption DEF OnEntityCommand, IInv, TypeOK
<1>3. /\ table \in [Commands -> Entry]
      /\ \A d \in Pending(table) : d \in Pending(entry) /\ d \notin ended /\ table[d] = entry[d]
  BY <1>1, WithoutLeaves
<1>4. gone \subseteq {entry[d].epoch : d \in Pending(entry) \ Pending(table)}
  BY <1>1, <1>3
<1>5. CASE c \in Pending(table)
  <2>1. entry' = table /\ retryTimers' = retryTimers /\ sent' = sent
    BY <1>5 DEF OnEntityCommand, Obsolete
  <2> HIDE DEF table, gone, ended
  <2>2. HistoryInv'
    BY <1>2, <1>3, <1>4, <2>1, DropKeepsHistoryInv
  <2> QED BY <2>1, <2>2 DEF HistoryKept, Silent
<1>6. CASE c \notin Pending(table)
  <2> DEFINE indicators == Cleared(busy, table, ended)
  <2>1. RetrySendAttempt(table, indicators, retryTimers, prompts, c, e)
    BY <1>6 DEF OnEntityCommand, Obsolete, FirstAttempt
  <2>2. e \in Entry /\ e.epoch = commandEpoch + 1
    BY <1>2, CommandsAssumption DEF NewEntry, Entry, RequestIds, Eligible, IInv, TypeOK
  <2>3. /\ commandEpoch \in Nat /\ lastRequest \in 0..MaxRequests
        /\ entry \in [Commands -> Entry] /\ retryTimers \in SUBSET Attempt
        /\ sent \in SUBSET Attempt /\ tried \in SUBSET Epochs /\ withdrawn \in SUBSET Epochs
    BY CommandsAssumption DEF IInv, TypeOK
  <2>4. withdrawn \cup gone \in SUBSET Epochs
    BY <1>1, <2>3, EpochsOfPending DEF IInv
  <2> HIDE DEF table, gone, ended, e, indicators
  <2>5. History(commandEpoch + 1, table, retryTimers, sent, tried \cup {}, withdrawn \cup gone)
    <3>1. /\ \A i \in {} : i = commandEpoch + 1 /\ commandEpoch < commandEpoch + 1
          /\ commandEpoch <= commandEpoch + 1 /\ commandEpoch + 1 \in Nat
          /\ retryTimers \in SUBSET retryTimers
      BY <2>3
    <3>2. History(commandEpoch, entry, retryTimers, sent, tried, withdrawn)
      BY DEF HistoryInv
    <3>3. \A d \in Pending(table) : /\ d \in Pending(entry) /\ table[d].epoch = entry[d].epoch
                                    /\ table[d].retry = entry[d].retry
      BY <1>3
    <3> QED BY <1>3, <1>4, <2>3, <3>1, <3>2, <3>3, DropKeepsHistory
  <2>6. /\ MayHold(commandEpoch + 1, table, sent, tried \cup {}, withdrawn \cup gone, c, e)
        /\ \A a \in sent : a.epoch # e.epoch
    <3>1. gone \subseteq {entry[d].epoch : d \in Pending(entry)} /\ e.epoch \notin {}
      BY <1>4
    <3>2. \A d \in Pending(table) : d \in Pending(entry) /\ table[d].epoch = entry[d].epoch
      BY <1>3
    <3> QED BY <1>3, <2>2, <3>1, <3>2, NextMayHold
  <2>7. tried \cup {} = tried
    OBVIOUS
  <2>8. /\ History(commandEpoch', entry', retryTimers', sent', tried, withdrawn \cup gone)
        /\ \A a \in sent' \ sent : a.epoch = e.epoch
    BY <1>2, <1>3, <2>1, <2>2, <2>3, <2>4, <2>5, <2>6, <2>7, AttemptKeepsHistory
  <2>9. e.epoch \notin withdrawn
    BY <2>6 DEF MayHold
  <2> QED BY <1>2, <2>8, <2>9 DEF HistoryKept, HistoryInv, Silent
<1> QED BY <1>5, <1>6

LEMMA TryAgainKeepsHistory ==
  ASSUME IInv, HistoryInv, NEW p \in prompts, TryAgain(p)
  PROVE  HistoryKept
<1> DEFINE e == TryAgainEntry(commandEpoch + 1)
           c == p.cmd
<1>1. CASE c \in Pending(entry)
  <2>1. UNCHANGED <<entry, commandEpoch, retryTimers, sent, tried, withdrawn>>
    BY <1>1 DEF TryAgain
  <2> QED BY <2>1 DEF HistoryKept, HistoryInv, Silent
<1>2. CASE c \notin Pending(entry)
  <2>1. /\ RetrySendAttempt(entry, busy, retryTimers, prompts \ {p}, c, e)
        /\ commandEpoch < MaxEpoch /\ commandEpoch' = commandEpoch + 1
        /\ tried' = tried \cup {commandEpoch + 1} /\ withdrawn' = withdrawn
    BY <1>2 DEF TryAgain, FirstAttempt
  <2>2. /\ commandEpoch \in Nat /\ lastRequest \in 0..MaxRequests
        /\ entry \in [Commands -> Entry] /\ retryTimers \in SUBSET Attempt
        /\ sent \in SUBSET Attempt /\ tried \in SUBSET Epochs /\ withdrawn \in SUBSET Epochs
        /\ c \in Commands /\ commandEpoch + 1 \in Epochs
    BY <2>1, CommandsAssumption DEF IInv, TypeOK, Issued, Epochs
  <2>3. e \in Entry /\ e.epoch = commandEpoch + 1 /\ ~e.retry
    BY <2>2, CommandsAssumption DEF TryAgainEntry, Entry, RequestIds, Epochs
  <2> HIDE DEF e, c
  <2>4. History(commandEpoch + 1, entry, retryTimers, sent, tried \cup {commandEpoch + 1},
                withdrawn \cup {})
    <3>1. /\ \A i \in {commandEpoch + 1} : i = commandEpoch + 1 /\ commandEpoch < commandEpoch + 1
          /\ {} \subseteq {entry[d].epoch : d \in Pending(entry) \ Pending(entry)}
          /\ commandEpoch <= commandEpoch + 1 /\ commandEpoch + 1 \in Nat
          /\ retryTimers \in SUBSET retryTimers
      BY <2>2
    <3>2. History(commandEpoch, entry, retryTimers, sent, tried, withdrawn)
      BY DEF HistoryInv
    <3> QED BY <2>2, <3>1, <3>2, DropKeepsHistory
  <2>5. /\ MayHold(commandEpoch + 1, entry, sent, tried \cup {commandEpoch + 1},
                   withdrawn \cup {}, c, e)
        /\ \A a \in sent : a.epoch # e.epoch
    BY <2>2, <2>3, NextMayHold
  <2>6. withdrawn \cup {} = withdrawn /\ tried' \in SUBSET Epochs
    BY <2>1, <2>2
  <2>7. /\ History(commandEpoch', entry', retryTimers', sent', tried', withdrawn)
        /\ \A a \in sent' \ sent : a.epoch = e.epoch
    BY <2>1, <2>2, <2>3, <2>4, <2>5, <2>6, AttemptKeepsHistory
  <2>8. e.epoch \notin withdrawn
    BY <2>5 DEF MayHold
  <2> QED BY <2>1, <2>7, <2>8 DEF HistoryKept, HistoryInv, Silent
<1> QED BY <1>1, <1>2

LEMMA CommandFailsKeepsHistory ==
  ASSUME IInv, HistoryInv, NEW h \in handlers, NEW code \in Codes, CommandFails(h, code)
  PROVE  HistoryKept
<1>1. UNCHANGED <<commandEpoch, sent, tried, withdrawn>>
  BY DEF CommandFails
<1>2. CASE IsOwnRequest(h)
  <2>1. HandleFailure(entry, busy, retryTimers, prompts, h.cmd, entry[h.cmd], code)
        /\ h.cmd \in Pending(entry)
    BY <1>2 DEF CommandFails, IsOwnRequest
  <2>2. /\ commandEpoch \in Nat /\ entry \in [Commands -> Entry]
        /\ retryTimers \in SUBSET Attempt
        /\ sent \in SUBSET Attempt /\ tried \in SUBSET Epochs /\ withdrawn \in SUBSET Epochs
    BY CommandsAssumption DEF IInv, TypeOK
  <2>3. History(commandEpoch, entry', retryTimers', sent, tried, withdrawn)
    BY <2>1, <2>2, PendingMayHold, FailureKeepsHistory DEF HistoryInv
  <2> QED BY <1>1, <2>3 DEF HistoryKept, HistoryInv, Silent
<1>3. CASE ~IsOwnRequest(h)
  BY <1>1, <1>3 DEF CommandFails, HistoryKept, HistoryInv, Silent
<1> QED BY <1>2, <1>3

\* A timer that is live resends a command it was made for: one that may be repeated.
LEMMA RetryTimeoutKeepsHistory ==
  ASSUME IInv, HistoryInv, NEW t \in retryTimers, RetryTimeout(t)
  PROVE  HistoryKept
<1> DEFINE c == t.cmd
           e == entry[c]
           others == retryTimers \ {t}
<1>1. /\ commandEpoch \in Nat /\ lastRequest \in 0..MaxRequests
      /\ entry \in [Commands -> Entry] /\ others \in SUBSET retryTimers
      /\ retryTimers \in SUBSET Attempt /\ others \in SUBSET Attempt
      /\ sent \in SUBSET Attempt /\ tried \in SUBSET Epochs /\ withdrawn \in SUBSET Epochs
      /\ UNCHANGED <<commandEpoch, tried, withdrawn>>
  BY CommandsAssumption DEF IInv, TypeOK, RetryTimeout
<1>2. CASE IsLive(t)
  <2>1. /\ RetrySendAttempt(entry, busy, others, prompts, c, e)
        /\ c \in Pending(entry) /\ e.epoch = t.epoch
    BY <1>2 DEF RetryTimeout, IsLive
  <2>2. c.kind # "repeat" /\ e.epoch \notin tried
    BY <2>1 DEF HistoryInv, History, NoneToRepeat
  <2> HIDE DEF c, e, others
  <2>3. /\ c \in Commands /\ e \in Entry
        /\ MayHold(commandEpoch, entry, sent, tried, withdrawn, c, e)
    BY <2>1, PendingMayHold DEF e
  <2>4. History(commandEpoch, entry, others, sent, tried \cup {}, withdrawn \cup {})
    <3>1. /\ \A i \in {} : i = commandEpoch /\ commandEpoch < commandEpoch
          /\ {} \subseteq {entry[d].epoch : d \in Pending(entry) \ Pending(entry)}
          /\ commandEpoch <= commandEpoch
      BY <1>1
    <3>2. History(commandEpoch, entry, retryTimers, sent, tried, withdrawn)
      BY DEF HistoryInv
    <3> QED BY <1>1, <3>1, <3>2, DropKeepsHistory
  <2>5. tried \cup {} = tried /\ withdrawn \cup {} = withdrawn
    OBVIOUS
  <2>6. /\ History(commandEpoch, entry', retryTimers', sent', tried, withdrawn)
        /\ \A a \in sent' \ sent : a.epoch = e.epoch
    BY <1>1, <2>1, <2>2, <2>3, <2>4, <2>5, AttemptKeepsHistory
  <2> QED BY <1>1, <2>3, <2>6 DEF HistoryKept, HistoryInv, Silent, MayHold
<1>3. CASE ~IsLive(t)
  <2>1. entry' = entry /\ sent' = sent /\ retryTimers' = others
    BY <1>3 DEF RetryTimeout
  <2>2. HistoryInv'
    BY <1>1, <2>1, DropKeepsHistoryInv
  <2> QED BY <2>1, <2>2 DEF HistoryKept, Silent
<1> QED BY <1>2, <1>3

\* Steps that drop some commands, withdrawing those or not.
LEMMA WithoutKeepsHistory ==
  ASSUME IInv, HistoryInv, NEW dropped \in SUBSET Commands, entry' = Without(entry, dropped),
         UNCHANGED <<commandEpoch, retryTimers, sent, tried>>,
         \/ withdrawn' = withdrawn
         \/ /\ dropped \subseteq Pending(entry)
            /\ withdrawn' = withdrawn \cup {entry[c].epoch : c \in dropped}
  PROVE  HistoryKept
<1> DEFINE gone == {entry[c].epoch : c \in dropped \cap Pending(entry)}
<1>1. /\ entry' \in [Commands -> Entry]
      /\ \A c \in Pending(entry') : c \in Pending(entry) /\ c \notin dropped
                                    /\ entry'[c] = entry[c]
  BY WithoutLeaves
<1>2. gone \subseteq {entry[c].epoch : c \in Pending(entry) \ Pending(entry')}
  BY <1>1
<1>3. withdrawn' = withdrawn \cup {} \/ withdrawn' = withdrawn \cup gone
  OBVIOUS
<1> HIDE DEF gone
<1>4. HistoryInv'
  BY <1>1, <1>2, <1>3, DropKeepsHistoryInv
<1> QED BY <1>4 DEF HistoryKept, Silent

LEMMA NextKeepsHistory == IInv /\ HistoryInv /\ [Next]_vars => HistoryKept
<1> SUFFICES ASSUME IInv, HistoryInv, [Next]_vars PROVE HistoryKept
  OBVIOUS
<1>1. ASSUME NEW h \in handlers, CommandSucceeds(h) PROVE HistoryKept
  <2>1. UNCHANGED <<commandEpoch, retryTimers, sent, tried, withdrawn>>
    BY <1>1 DEF CommandSucceeds
  <2>2. h.cmd \in Commands
    BY DEF IInv, TypeOK, Attempt
  <2>3. CASE entry' = Without(entry, {h.cmd})
    BY <2>1, <2>2, <2>3, WithoutKeepsHistory
  <2>4. CASE entry' = entry
    BY <2>1, <2>4 DEF HistoryKept, HistoryInv, Silent
  <2> QED BY <1>1, <2>3, <2>4 DEF CommandSucceeds
<1>2. ASSUME NEW c \in Commands, OverlayClosed(c.entity, c.session) PROVE HistoryKept
  <2>1. StartsOf(c.entity, c.session) \subseteq Pending(entry)
        /\ StartsOf(c.entity, c.session) \in SUBSET Commands
    BY DEF StartsOf, Pending
  <2> QED BY <1>2, <2>1, WithoutKeepsHistory DEF OverlayClosed
<1>3. ASSUME NEW x \in Entities, EntityDeleted(x) PROVE HistoryKept
  <2>1. {c \in Commands : c.entity = x} \in SUBSET Commands
    OBVIOUS
  <2> QED BY <1>3, <2>1, WithoutKeepsHistory DEF EntityDeleted
<1>4. CASE CoreDisconnected
  <2>1. entry' = Without(entry, Commands)
    BY <1>4 DEF CoreDisconnected, ClearPendingCommands, Without
  <2> QED BY <1>4, <2>1, WithoutKeepsHistory DEF CoreDisconnected
<1>5. CASE PowerNormal \/ \E c \in Commands : DeadlinePasses(c)
  <2>1. UNCHANGED <<commandEpoch, retryTimers, sent, tried, withdrawn>>
    BY <1>5 DEF PowerNormal, DeadlinePasses
  <2>2. entry \in [Commands -> Entry]
    BY DEF IInv, TypeOK
  <2>3. /\ entry' \in [Commands -> Entry]
        /\ \A c \in Commands : entry'[c].epoch = entry[c].epoch
                               /\ entry'[c].retry = entry[c].retry
    <3>1. CASE \E c \in Commands : DeadlinePasses(c)
      <4>1. PICK c \in Commands : entry' = [entry EXCEPT ![c].late = TRUE]
        BY <3>1 DEF DeadlinePasses
      <4> QED BY <2>2, <4>1 DEF Entry
    <3>2. CASE PowerNormal
      <4>1. entry' = entry \/ entry' = Extended
        BY <3>2 DEF PowerNormal
      <4> QED BY <2>2, <4>1 DEF Extended, Entry
    <3> QED BY <1>5, <3>1, <3>2
  <2>4. \A c \in Pending(entry') : c \in Pending(entry) /\ c \in Commands
    BY <2>3 DEF Pending
  <2>5. withdrawn' = withdrawn \cup {}
    BY <2>1
  <2>6. HistoryInv'
    BY <2>1, <2>3, <2>4, <2>5, DropKeepsHistoryInv
  <2> QED BY <2>1, <2>6 DEF HistoryKept, Silent
<1>6. CASE \/ \E b \in busyTimers : BusyTimeout(b)
           \/ CoreConnected \/ PowerSuspend \/ PowerLow \/ ResumeTimerTimeout
           \/ ResumeWindowConfigured \/ UNCHANGED vars
  <2>1. UNCHANGED <<entry, commandEpoch, retryTimers, sent, tried, withdrawn>>
    BY <1>6 DEF BusyTimeout, CoreConnected, PowerSuspend, PowerLow, ResumeTimerTimeout,
                ResumeWindowConfigured, vars, commandVars
  <2> QED BY <2>1 DEF HistoryKept, HistoryInv, Silent
<1> QED BY <1>1, <1>2, <1>3, <1>4, <1>5, <1>6, OnEntityCommandKeepsHistory,
           TryAgainKeepsHistory, CommandFailsKeepsHistory, RetryTimeoutKeepsHistory DEF Next

LEMMA InitHistory == Init => HistoryInv
<1> SUFFICES ASSUME Init PROVE HistoryInv
  OBVIOUS
<1>1. Pending(entry) = {}
  BY DEF Init, Pending, Absent
<1> QED BY <1>1 DEF Init, HistoryInv, History, Used, OneCommandEach, NoneToRepeat,
                    NoneWithdrawn, OnceIn

-----------------------------------------------------------------------------
(* Theorems                                                                *)

\* The command table, its timers and indicators are well typed (module EntityCommands).
THEOREM TypeCorrect == Spec => []TypeOK
<1>1. IInv => TypeOK
  BY DEF IInv
<1> QED
  BY <1>1, Invariance, PTL

\* No indicator outlives the commands of its entity: removePendingCommand() and the
\* other paths that drop commands keep m_busyEntities in step.
THEOREM NoOrphanedIndicator == Spec => []BusyMeansPending
<1>1. IInv => BusyMeansPending
  BY DEF IInv
<1> QED
  BY <1>1, Invariance, PTL

\* A pending command always has exactly one thing that will move it on: the handler
\* of its last attempt or the timer of the next.
THEOREM PendingHasOneDriver == Spec => []PendingIsDriven
<1>1. IInv => PendingIsDriven
  BY DEF IInv
<1> QED
  BY <1>1, Invariance, PTL

\* An answer changes no command but the one its request was sent for: the epoch and
\* request id that the callbacks compare tell a late answer from a live one.
THEOREM AnswersAreOwn == Spec => OnlyOwnAnswer
<1> DEFINE Own == \A h \in handlers \ handlers' : \A c \in Pending(entry) :
                    entry[c].epoch # h.epoch => entry'[c] = entry[c]
<1>1. IInv /\ [Next]_vars => Own
  <2> SUFFICES ASSUME IInv, [Next]_vars,
                      NEW h \in handlers, h \notin handlers',
                      NEW c \in Pending(entry), entry[c].epoch # h.epoch
               PROVE  entry'[c] = entry[c]
    OBVIOUS
  <2>1. c \in Commands
    BY DEF Pending
  <2>2. CASE CommandSucceeds(h)
    <3>1. IsLive(h) => c # h.cmd
      BY DEF IsLive
    <3> QED
      BY <2>1, <2>2, <3>1 DEF CommandSucceeds, Without
  <2>3. ASSUME NEW code \in Codes, CommandFails(h, code) PROVE entry'[c] = entry[c]
    <3>1. CASE ~IsOwnRequest(h)
      BY <2>3, <3>1 DEF CommandFails
    <3>2. CASE IsOwnRequest(h)
      <4>1. h.cmd \in Commands /\ c # h.cmd
        BY <3>2, OwnRequestIsLive DEF IsLive, Pending
      <4>2. entry' = [entry EXCEPT ![h.cmd] = entry[h.cmd]]
            \/ entry' = [entry EXCEPT ![h.cmd] = Absent]
        BY <2>3, <3>2 DEF CommandFails, HandleFailure
      <4> QED
        BY <2>1, <4>1, <4>2 DEF IInv, TypeOK
    <3> QED
      BY <3>1, <3>2
  <2>4. ASSUME NEW g \in handlers, g # h, handlers' = handlers \ {g} PROVE FALSE
    BY <2>4
  <2>5. handlers \subseteq handlers' => FALSE
    OBVIOUS
  <2>6. CASE \/ \E k \in Commands : OnEntityCommand(k)
             \/ \E p \in prompts : TryAgain(p)
             \/ \E t \in retryTimers : RetryTimeout(t)
    BY <2>5, <2>6 DEF OnEntityCommand, TryAgain, FirstAttempt, RetryTimeout, RetrySendAttempt
  <2>7. CASE \/ \E b \in busyTimers : BusyTimeout(b)
             \/ \E k \in Commands : OverlayClosed(k.entity, k.session)
             \/ \E x \in Entities : EntityDeleted(x)
             \/ CoreConnected \/ CoreDisconnected
             \/ \E k \in Commands : DeadlinePasses(k)
             \/ PowerSuspend \/ PowerLow \/ PowerNormal
             \/ ResumeTimerTimeout \/ ResumeWindowConfigured
             \/ UNCHANGED vars
    BY <2>5, <2>7 DEF BusyTimeout, OverlayClosed, EntityDeleted, CoreConnected, CoreDisconnected,
       DeadlinePasses, PowerSuspend, PowerLow, PowerNormal, ResumeTimerTimeout,
       ResumeWindowConfigured, commandVars, vars
  <2>8. CASE \E g \in handlers : CommandSucceeds(g)
    BY <2>2, <2>4, <2>8 DEF CommandSucceeds
  <2>9. CASE \E g \in handlers, code \in Codes : CommandFails(g, code)
    BY <2>3, <2>4, <2>9 DEF CommandFails
  <2> QED
    BY <2>6, <2>7, <2>8, <2>9 DEF Next
<1> QED
  BY <1>1, Invariance, PTL DEF Spec, OnlyOwnAnswer

\* A key repeat, and a command tried again by the user, leave the remote at most once: no path
\* through handleCommandFailure() and the resend timer sends them another time.
THEOREM RepeatsLeaveOnce == Spec => []SentOnce
<1>1. HistoryInv => SentOnce
  BY DEF HistoryInv, History, OnceIn, SentOnce
<1>2. IInv /\ HistoryInv /\ [Next]_vars => HistoryInv'
  BY NextKeepsHistory DEF HistoryKept
<1> QED BY <1>1, <1>2, InitHistory, Invariance, PTL DEF Spec

\* A voice start whose session has ended is not sent any more: its epoch is not pending, and
\* an attempt carries the epoch of a pending command or a new one.
THEOREM EndedSessionsStaySilent == Spec => WithdrawnStaysSilent
<1>1. IInv /\ HistoryInv /\ [Next]_vars => HistoryInv'
  BY NextKeepsHistory DEF HistoryKept
<1>2. IInv /\ HistoryInv /\ [Next]_vars => Silent
  BY NextKeepsHistory DEF HistoryKept
<1>3. Silent <=> \A a \in sent' \ sent : a.epoch \notin withdrawn
  BY DEF Silent
<1> QED BY <1>1, <1>2, <1>3, InitHistory, Invariance, PTL DEF Spec, WithdrawnStaysSilent

-----------------------------------------------------------------------------
(* The playback of spoken answers                                          *)

\* A download begins once its player runs, and each player hears its own only.
DownloadOfPlayer ==
  /\ reply # None => process[reply] \in {"running", "gone"}
  /\ \A p \in Playbacks : heard[p] \subseteq {p}

VoiceInv == VoiceTypeOK /\ EndedOrReplaced /\ OnlyNewestPlays /\ DownloadOfPlayer

LEMMA CountIsFresh ==
  ASSUME VoiceTypeOK, count < MaxPlaybacks
  PROVE  count + 1 \in Playbacks /\ count + 1 <= MaxPlaybacks
  BY VoicePlaybackAssumption DEF VoiceTypeOK, Playbacks

LEMMA VoiceInitHolds == VoiceInit => VoiceInv
  BY VoicePlaybackAssumption
  DEF VoiceInit, VoiceInv, VoiceTypeOK, EndedOrReplaced, OnlyNewestPlays, DownloadOfPlayer,
      Playbacks, None, Alive

LEMMA StopEffect ==
  ASSUME VoiceInv, Stop
  PROVE  /\ reply' = None
         /\ download' \in [Playbacks -> {"none", "loading", "over"}]
         /\ killed' \subseteq Playbacks /\ killed \subseteq killed'
         /\ player # None /\ process[player] = "running" => player \in killed'
         /\ replaced' = replaced \cup ({player} \ {None}) /\ replaced' \subseteq Playbacks
<1>1. reply' = None /\ download' \in [Playbacks -> {"none", "loading", "over"}]
  BY DEF VoiceInv, VoiceTypeOK, Stop, AbortDownload
<1>2. killed' \subseteq Playbacks /\ killed \subseteq killed'
  BY DEF VoiceInv, VoiceTypeOK, Stop, KilledWith
<1>3. player # None /\ process[player] = "running" => player \in killed'
  BY DEF Stop, KilledWith
<1>4. QED
  BY <1>1, <1>2, <1>3 DEF VoiceInv, VoiceTypeOK, Stop

LEMMA StopSpeechResponseKeepsVoiceInv == VoiceInv /\ StopSpeechResponse => VoiceInv'
<1> SUFFICES ASSUME VoiceInv, StopSpeechResponse PROVE VoiceInv' OBVIOUS
<1>1. Stop /\ player' = None /\ UNCHANGED <<process, dead, closed, count, heard, ends>>
  BY DEF StopSpeechResponse
<1>2. VoiceTypeOK'
  BY <1>1, StopEffect DEF VoiceInv, VoiceTypeOK, None, Playbacks
<1>3. EndedOrReplaced'
  BY <1>1, StopEffect DEF VoiceInv, EndedOrReplaced, VoiceTypeOK, None, Playbacks
<1>4. OnlyNewestPlays'
  BY <1>1, StopEffect DEF VoiceInv, OnlyNewestPlays, VoiceTypeOK, None, Playbacks
<1>5. DownloadOfPlayer'
  BY <1>1, StopEffect DEF VoiceInv, DownloadOfPlayer
<1>6. QED
  BY <1>2, <1>3, <1>4, <1>5 DEF VoiceInv

LEMMA PlaySpeechResponseKeepsVoiceInv ==
  ASSUME NEW supported \in BOOLEAN, VoiceInv, PlaySpeechResponse(supported) PROVE VoiceInv'
<1> DEFINE new == count + 1
<1>1. /\ Stop /\ new \in Playbacks /\ count' = new /\ new <= MaxPlaybacks
      /\ UNCHANGED <<dead, closed, heard>>
  BY CountIsFresh DEF PlaySpeechResponse, VoiceInv
<1>2. \/ /\ player' = new /\ process' = [process EXCEPT ![new] = "starting"] /\ UNCHANGED ends
      \/ player' = None /\ ends' = [ends EXCEPT ![new] = @ + 1] /\ UNCHANGED process
  BY <1>1 DEF PlaySpeechResponse, End
<1> HIDE DEF new
<1>3. count' \in 0..MaxPlaybacks /\ new = count + 1 /\ count \in Nat
  BY <1>1, VoicePlaybackAssumption DEF new, VoiceInv, VoiceTypeOK, Playbacks
<1>4. /\ process' \in [Playbacks -> Alive \cup {"none", "gone"}]
      /\ ends' \in [Playbacks -> Nat]
      /\ player' \in Playbacks \cup {None} /\ (player' # None => process'[player'] \in Alive)
  BY <1>1, <1>2 DEF VoiceInv, VoiceTypeOK, Alive
<1>5. VoiceTypeOK'
  BY <1>1, <1>3, <1>4, StopEffect DEF VoiceInv, VoiceTypeOK
<1>6. EndedOrReplaced'
  <2>1. player # new /\ player # new' /\ new \notin replaced' /\ ends[new] = 0
    BY <1>1, <1>3, StopEffect DEF VoiceInv, EndedOrReplaced, VoiceTypeOK, None, Playbacks, new
  <2> SUFFICES ASSUME NEW p \in Playbacks
      PROVE /\ p > count' => ends'[p] = 0 /\ p # player' /\ p \notin replaced'
            /\ p \in replaced' => ends'[p] = 0 /\ p # player'
            /\ p \in 1..count' \ replaced' => ends'[p] = IF p = player' THEN 0 ELSE 1
    BY DEF EndedOrReplaced
  <2>2. ASSUME p # new
        PROVE  /\ ends'[p] = ends[p] /\ p # player'
               /\ p > count' => p > count
               /\ p \in 1..count' => p \in 1..count
               /\ p \in replaced' <=> p \in replaced \/ p = player
    <3>1. ends'[p] = ends[p] /\ p # player'
      <4>1. CASE player' = new /\ UNCHANGED ends
        BY <2>2, <4>1
      <4>2. CASE player' = None /\ ends' = [ends EXCEPT ![new] = @ + 1]
        BY <2>2, <4>2 DEF VoiceInv, VoiceTypeOK, None, Playbacks
      <4>3. QED
        BY <1>2, <4>1, <4>2
    <3>2. (p > count' => p > count) /\ (p \in 1..count' => p \in 1..count)
      BY <1>1, <1>3, <2>2 DEF Playbacks
    <3>3. p \in replaced' <=> p \in replaced \/ p = player
      BY <1>1, StopEffect DEF None, Playbacks
    <3>4. QED
      BY <3>1, <3>2, <3>3
  <2>3. CASE p # new
    BY <2>2, <2>3 DEF VoiceInv, EndedOrReplaced, VoiceTypeOK, None, Playbacks
  <2>4. CASE p = new
    <3>1. p \notin replaced' /\ ~(p > count')
      BY <1>1, <1>3, <2>1, <2>4
    <3>2. ends'[p] = IF p = player' THEN 0 ELSE 1
      <4>1. CASE player' = new /\ UNCHANGED ends
        BY <2>1, <2>4, <4>1
      <4>2. CASE player' = None /\ ends' = [ends EXCEPT ![new] = @ + 1]
        <5>1. ends'[new] = 1 /\ new # None
          BY <1>1, <2>1, <4>2 DEF VoiceInv, VoiceTypeOK, None, Playbacks
        <5>2. QED
          BY <2>4, <4>2, <5>1
      <4>3. QED
        BY <1>2, <4>1, <4>2
    <3>3. QED
      BY <3>1, <3>2
  <2>5. QED
    BY <2>3, <2>4
<1>7. OnlyNewestPlays'
  <2> SUFFICES ASSUME NEW p \in Playbacks, process'[p] = "running"
      PROVE p = player' \/ p \in killed' \cup dead'
    BY DEF OnlyNewestPlays
  <2>1. process[p] = "running"
    BY <1>2 DEF VoiceInv, VoiceTypeOK
  <2>2. p = player \/ p \in killed \cup dead
    BY <2>1 DEF VoiceInv, OnlyNewestPlays
  <2>3. p # None /\ dead' = dead
    BY <1>1 DEF None, Playbacks
  <2>4. QED
    BY <1>1, <2>1, <2>2, <2>3, StopEffect
<1>8. DownloadOfPlayer'
  BY <1>1, StopEffect DEF VoiceInv, DownloadOfPlayer
<1>9. QED
  BY <1>5, <1>6, <1>7, <1>8 DEF VoiceInv

LEMMA StartedKeepsVoiceInv ==
  ASSUME NEW p \in Playbacks, VoiceInv, Started(p) PROVE VoiceInv'
<1>1. VoiceTypeOK'
  BY DEF Started, VoiceInv, VoiceTypeOK, Alive, None, Playbacks
<1>2. EndedOrReplaced'
  BY DEF Started, VoiceInv, EndedOrReplaced
<1>3. OnlyNewestPlays'
  BY DEF Started, VoiceInv, OnlyNewestPlays, VoiceTypeOK
<1>4. DownloadOfPlayer'
  BY DEF Started, VoiceInv, DownloadOfPlayer, VoiceTypeOK
<1>5. QED
  BY <1>1, <1>2, <1>3, <1>4 DEF VoiceInv

\* The end of the current playback is reported, and that of no other.
LEMMA EndKeepsEndedOrReplaced ==
  ASSUME NEW p \in Playbacks, VoiceTypeOK, EndedOrReplaced, UNCHANGED <<count, replaced>>,
         \/ p = player /\ player' = None /\ End(p)
         \/ p # player /\ UNCHANGED <<player, ends>>
  PROVE  EndedOrReplaced'
<1>1. CASE p # player
  BY <1>1 DEF EndedOrReplaced
<1>2. CASE p = player
  <2>1. player' = None /\ ends' = [ends EXCEPT ![p] = @ + 1] /\ count' = count
        /\ replaced' = replaced
    BY <1>2 DEF End
  <2>2. p \in 1..count \ replaced
    BY <1>2 DEF EndedOrReplaced, VoiceTypeOK, Playbacks
  <2>3. QED
    BY <1>2, <2>1, <2>2 DEF EndedOrReplaced, VoiceTypeOK, None, Playbacks
<1>3. QED
  BY <1>1, <1>2

LEMMA FailsToStartKeepsVoiceInv ==
  ASSUME NEW p \in Playbacks, VoiceInv, FailsToStart(p) PROVE VoiceInv'
<1>1. VoiceTypeOK'
  <2>1. CASE p = player
    <3>1. /\ player' = None /\ reply' = None
          /\ download' \in [Playbacks -> {"none", "loading", "over"}]
          /\ ends' \in [Playbacks -> Nat]
      BY <2>1 DEF FailsToStart, AbortDownload, End, VoiceInv, VoiceTypeOK
    <3>2. QED
      BY <3>1 DEF FailsToStart, VoiceInv, VoiceTypeOK
  <2>2. CASE p # player
    BY <2>2 DEF FailsToStart, VoiceInv, VoiceTypeOK, None, Playbacks
  <2>3. QED
    BY <2>1, <2>2
<1>2. EndedOrReplaced'
  BY EndKeepsEndedOrReplaced DEF FailsToStart, VoiceInv
<1>3. OnlyNewestPlays'
  BY DEF FailsToStart, VoiceInv, OnlyNewestPlays, VoiceTypeOK
<1>4. DownloadOfPlayer'
  BY DEF FailsToStart, AbortDownload, VoiceInv, DownloadOfPlayer, VoiceTypeOK
<1>5. QED
  BY <1>1, <1>2, <1>3, <1>4 DEF VoiceInv

LEMMA FinishedKeepsVoiceInv ==
  ASSUME NEW p \in Playbacks, VoiceInv, Finished(p) PROVE VoiceInv'
<1>1. VoiceTypeOK'
  BY DEF Finished, End, VoiceInv, VoiceTypeOK, Alive, None, Playbacks
<1>2. EndedOrReplaced'
  BY EndKeepsEndedOrReplaced DEF Finished, VoiceInv
<1>3. OnlyNewestPlays'
  BY DEF Finished, VoiceInv, OnlyNewestPlays, VoiceTypeOK
<1>4. DownloadOfPlayer'
  BY DEF Finished, VoiceInv, DownloadOfPlayer, VoiceTypeOK
<1>5. QED
  BY <1>1, <1>2, <1>3, <1>4 DEF VoiceInv

LEMMA ExitsKeepsVoiceInv ==
  ASSUME NEW p \in Playbacks, VoiceInv, Exits(p) PROVE VoiceInv'
<1>1. VoiceTypeOK'
  BY DEF Exits, VoiceInv, VoiceTypeOK
<1>2. EndedOrReplaced' /\ OnlyNewestPlays' /\ DownloadOfPlayer'
  BY DEF Exits, VoiceInv, EndedOrReplaced, OnlyNewestPlays, DownloadOfPlayer
<1>3. QED
  BY <1>1, <1>2 DEF VoiceInv

LEMMA ReadyReadKeepsVoiceInv ==
  ASSUME NEW p \in Playbacks, VoiceInv, ReadyRead(p) PROVE VoiceInv'
<1>1. VoiceTypeOK'
  BY DEF ReadyRead, VoiceInv, VoiceTypeOK
<1>2. EndedOrReplaced' /\ OnlyNewestPlays'
  BY DEF ReadyRead, VoiceInv, EndedOrReplaced, OnlyNewestPlays
<1>3. DownloadOfPlayer'
  BY DEF ReadyRead, VoiceInv, DownloadOfPlayer, VoiceTypeOK
<1>4. QED
  BY <1>1, <1>2, <1>3 DEF VoiceInv

LEMMA ReplyFinishedKeepsVoiceInv ==
  ASSUME NEW p \in Playbacks, NEW ok \in BOOLEAN, VoiceInv, ReplyFinished(p, ok) PROVE VoiceInv'
<1>1. VoiceTypeOK'
  BY DEF ReplyFinished, VoiceInv, VoiceTypeOK, None, Playbacks
<1>2. EndedOrReplaced' /\ OnlyNewestPlays'
  BY DEF ReplyFinished, VoiceInv, EndedOrReplaced, OnlyNewestPlays
<1>3. DownloadOfPlayer'
  BY DEF ReplyFinished, VoiceInv, DownloadOfPlayer
<1>4. QED
  BY <1>1, <1>2, <1>3 DEF VoiceInv

LEMMA NextKeepsVoiceInv == VoiceInv /\ [VoiceNext]_voiceVars => VoiceInv'
<1> SUFFICES ASSUME VoiceInv, [VoiceNext]_voiceVars PROVE VoiceInv' OBVIOUS
<1>1. CASE StopSpeechResponse
  BY <1>1, StopSpeechResponseKeepsVoiceInv
<1>2. CASE \E supported \in BOOLEAN : PlaySpeechResponse(supported)
  BY <1>2, PlaySpeechResponseKeepsVoiceInv
<1>3. ASSUME NEW p \in Playbacks,
             \/ Started(p) \/ FailsToStart(p) \/ Exits(p) \/ Finished(p) \/ ReadyRead(p)
             \/ \E ok \in BOOLEAN : ReplyFinished(p, ok)
      PROVE  VoiceInv'
  BY <1>3, StartedKeepsVoiceInv, FailsToStartKeepsVoiceInv, ExitsKeepsVoiceInv,
     FinishedKeepsVoiceInv, ReadyReadKeepsVoiceInv, ReplyFinishedKeepsVoiceInv
<1>4. CASE UNCHANGED voiceVars
  BY <1>4 DEF voiceVars, VoiceInv, VoiceTypeOK, EndedOrReplaced, OnlyNewestPlays, DownloadOfPlayer
<1>5. QED
  BY <1>1, <1>2, <1>3, <1>4 DEF VoiceNext

LEMMA VoiceInvHolds == VoiceSpec => []VoiceInv
  BY VoiceInitHolds, NextKeepsVoiceInv, PTL DEF VoiceSpec

(***************************************************************************)
(* Every answer is playing, has had its end reported exactly once, or was  *)
(* replaced or stopped and never has it reported.                          *)
(***************************************************************************)
THEOREM EachEndReportedOnce == VoiceSpec => []EndedOrReplaced
<1>1. VoiceInv => EndedOrReplaced
  BY DEF VoiceInv
<1>2. QED
  BY <1>1, VoiceInvHolds, PTL

(***************************************************************************)
(* At most one player that has not been killed runs: the newest.           *)
(***************************************************************************)
THEOREM OneAnswerSounds == VoiceSpec => []OnlyNewestPlays
<1>1. VoiceInv => OnlyNewestPlays
  BY DEF VoiceInv
<1>2. QED
  BY <1>1, VoiceInvHolds, PTL

(***************************************************************************)
(* m_player and m_speechReply point to a live player and a live download.  *)
(***************************************************************************)
THEOREM NoDanglingPointer == VoiceSpec => []VoiceTypeOK
<1>1. VoiceInv => VoiceTypeOK
  BY DEF VoiceInv
<1>2. QED
  BY <1>1, VoiceInvHolds, PTL

(***************************************************************************)
(* No part of an answer reaches the player of another, nor its own player  *)
(* once that was replaced or has gone.                                     *)
(***************************************************************************)
THEOREM AnswersDoNotMix == VoiceSpec => HearsOwnAnswer
<1> DEFINE Clean ==
      \A p \in Playbacks :
        heard'[p] # heard[p] =>
          heard'[p] = {p} /\ p = player /\ p \notin replaced /\ process[p] = "running"
<1>1. ASSUME VoiceInv, [VoiceNext]_voiceVars PROVE [Clean]_voiceVars
  <2>1. ASSUME NEW q \in Playbacks, ReadyRead(q) PROVE Clean
    <3> SUFFICES ASSUME NEW p \in Playbacks, heard'[p] # heard[p]
        PROVE heard'[p] = {p} /\ p = player /\ p \notin replaced /\ process[p] = "running"
      OBVIOUS
    <3>1. p = q /\ reply = p /\ player = p /\ heard'[p] = heard[p] \cup {p}
      BY <1>1, <2>1 DEF ReadyRead, VoiceInv, VoiceTypeOK
    <3>2. process[p] = "running"
      BY <1>1, <3>1 DEF VoiceInv, VoiceTypeOK, DownloadOfPlayer, Alive, None, Playbacks
    <3>3. p \notin replaced /\ heard[p] \subseteq {p}
      BY <1>1, <3>1 DEF VoiceInv, EndedOrReplaced, DownloadOfPlayer
    <3>4. QED
      BY <3>1, <3>2, <3>3
  <2>2. ASSUME UNCHANGED heard PROVE Clean
    BY <2>2
  <2>3. VoiceNext => UNCHANGED heard \/ \E q \in Playbacks : ReadyRead(q)
    BY DEF VoiceNext, StopSpeechResponse, PlaySpeechResponse, Started, FailsToStart, Exits,
           Finished, ReplyFinished
  <2>4. QED
    BY <1>1, <2>1, <2>2, <2>3
<1>2. QED
  BY <1>1, VoiceInvHolds, PTL DEF VoiceSpec, HearsOwnAnswer

=============================================================================
