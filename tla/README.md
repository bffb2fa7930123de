# remote-ui: a TLA+ verification project

This directory models the logic of the Unfolded Circle remote UI (`src/src`, C++ with Qt 5 and QML): what it
keeps, how it reacts to the core, to timers and to the user, and what has to hold whatever order these arrive in.
Paths below are relative to the repository, source files to its directory `src/`.

    tlc -config CoreApi.cfg CoreApi        # a run: any cfg of the table below with its module
    tlapm CoreApiProofs.tla                # a proof module

## The system

The UI is one process with one Qt event loop. Nothing in the modelled code runs in parallel; its concurrency is
the interleaving of event loop callbacks:

* messages of **remote-core** over one WebSocket: events, and answers to the UI's requests, which come late, twice,
  never, or after the answer to a later request;
* **timers**: request timeout (10 s), reconnect (2 s), command retry (0.5 s), busy indicator (0.2 s), resume window,
  readiness ceiling (4 s), ...;
* **user actions** from QML, keys and the touch slider;
* the **power mode** of the remote, reported by the core as an event.

A slot, a response handler or a timer callback runs to completion before the next one, so each is one atomic action,
with every call it makes. What a callback *captured* (a request id, a generation, an epoch) is part of its model: it
may run after the state it was captured from has changed.

## Inventory

| Component | State | Operations | Hard behaviour | What makes it correct |
|---|---|---|---|---|
| core API client (`core/`) | socket, authentication, request ids, timeout timers, handlers | send, answer, timeout, connect, retry | late and duplicate answers, a core that restarts with requests in flight | a request is settled once and always; flags follow the socket |
| entity commands (`ui/entity/entityController.cpp`) | pending commands, indicators, resume window | issue, resend, settle, try again, withdraw | stale callbacks, deadlines, voice sessions, disconnects, suspends | one driver per command, no orphaned indicator, nothing sent after it was withdrawn |
| entity store (same file) | known entities, load generation | paged load, added, changed, deleted | pages racing events, loads racing loads, loads cut short | ends with the entities of the core |
| activities (`ui/entity/activity.cpp`) | sequence state, list of running activities | turn on and off, state reports | own starts crossing reports, reconnects | list and progress screen follow the core |
| readiness check (`qml/main.qml`, `entityController.cpp`) | waits by activity, check timers | press, poll, answer, ceiling | ceiling racing the answer, overlapping presses | one result, every press decided, no wait left behind |
| readiness report (`ui/entity/sequenceReadinessReport.cpp`) | - | report to rows | steps behind the one that stops | order and severity |
| profiles and pages (`ui/uiController.cpp`, `ui/page`, `ui/group`) | current profile, pages, groups | load, switch, edit, events | answers of overlapping loads | one profile shown, as the core has it |
| integrations (`integration/`) | drivers, drivers in error, instances, setup session | load, discovery, setup | overlapping loads, pending counters, events during a load and after the end of a setup | every load ends once; the lists agree |
| docks (`dock/`) | configured docks, setup | load, setup, discovery | as the entity store | as the entity store |
| key input (`ui/inputController.cpp`, `qml/components/ButtonNavigation.qml`) | stack of control owners, owner of each held key, repeats and long-press timers | press, repeat, release, take and release control, block | release after the owner changed, deferred releases | press and release reach the same owner; one action for each press |
| touch slider (`hardware/ucr3`, `qml/components/TouchSlider*.qml`) | frame, touch, device; slider, popup, timers | evdev events, reopen; touch signals, entity events | dropped events, device lost and entity unavailable during a touch | press, moves and release in order; commands only during a touch |
| voice playback (`voice.cpp`) | player, download | play, stop, player and download events | a replaced player that starts, exits or is fed late | one answer sounds; its end is reported once |
| software update (`softwareupdate/`) | versions, download state, progress | check, download, events | answers racing events | the state shown is the last one known |
| configuration (`config/`) | settings | set, get | combined requests with values in flight | settings converge to the core |
| lists of entities to add, media player, wifi, onboarding, notifications, power, views, ... | see `PROJECT.json` | | | |

**Interactions.** Every controller calls the core API client, which hands out a request id and runs the handler
registered for it; `EntityCommands`, `Readiness` and `ProfilePages` rely on exactly the promise `RequestContract`
states of it (a handler runs at most once, and at the latest after the timeout). After a connect `Config` loads the
active profile, `EntityController` the entities and `IntegrationController` the drivers. `EntityController` owns the
activities and passes on their commands and state reports; the readiness check of `main.qml` reads its resume window.
`TouchDevice` and `TouchSlider` meet in `TouchStream`: the first is proved to implement it, the second takes its
signals from it.

`PROJECT.json` lists all components with their source files, and the hazards, each with the line where it bites and
the properties that would catch it.

## Modules

Every module translates the code lines that `PROJECT.json` names for each definition. Variables that are not state
of the program are marked: *history* (what a property remembers) and *bound* (what keeps the state space finite).
Operators with a comment `Mutant:` are broken versions of the definition below them, used to see that a property
does notice the bug; no specification uses them.

### CoreApi and RequestContract (`core/core.cpp`, `core/core.h`)

The socket states of `QWebSocket`, `m_connected`, the reconnect timer with its counter, the timeout timers and, for
each request id, whether its handler is still connected. One action for each slot and timer: `SendRequest` (which
accepts nothing unless the socket is valid), `AuthRequired`, `Response`, `AuthResponse`, `RequestTimeout`,
`SocketConnected`, `SocketUnconnected`, `SocketError`, `ReconnectTimeout`. The three ways to register
(`onResult`, `onResponseWithErrorResult`, `onResponse`) differ in which signals they are connected to, and in what
they do on a failure; `Callback` and `Settle` keep that difference. The core is external: it answers any request it
received on this connection, at any time, more than once or never.

`RequestContract` is the abstract specification: a request is issued, waits, and is settled once, running at most one
callback; and every waiting request is settled. `CoreApi` is shown to implement it with `Contract == INSTANCE
RequestContract WITH ...`: the waiting requests are those with a connected handler. TLC checks the whole contract,
its fairness included; its safety part is proved.

### EntityCommands (`ui/entity/entityController.cpp`, lines 853-1286)

`entry` is `m_pendingCommands`; `handlers`, `retryTimers` and `busyTimers` are the callbacks registered so far, each
with the command id, request id and epoch it captured. Actions: `OnEntityCommand` (issue, refuse a duplicate, make a
voice command obsolete), `CommandSucceeds`, `CommandFails` (the resend policy of `commandRetryPolicy.cpp`),
`RetryTimeout`, `BusyTimeout`, `TryAgain`, `OverlayClosed` (the end of a voice session), `EntityDeleted`,
`CoreConnected`, `CoreDisconnected`, and the power mode with the resume window. A deadline is ahead or past and may
pass at any moment, so every interleaving of deadlines and timers is covered. An attempt that the client refuses
fails within the same step, as the code does. The core client is replaced by its contract.

### EntityStore (same file, lines 478-812)

The core keeps entities in an order and answers a page request with the part of the order it has *at that moment*; the
socket delivers in order, and answers and events share one `inbox`. The UI has `m_entityLoadGeneration`, the set of
ids loaded so far for each generation and the entities shown. Actions: the changes of the core, `CoreAnswers`,
`RequestTimesOut`, `Receive` (page answers with the next request or the removal of missing entities, and the events),
`CoreConnected`, `CoreDisconnected`. An entity is a version number: what is told apart is only whether the last
version is shown. The history variables `handedOut` and `displaced` name the entities that a change moved in front of
the pages the core has cut for the running load. `Paging` has what this load and that of the drivers share: the cut of
a page from a list that may have changed since the page before (`PageOf`), and the number of pages (`PageCount`,
`Util::pageCount()`).

### Activity (`ui/entity/activity.cpp`, with the lists of `entityController.cpp`)

One activity, with every state of `activity.h`. `Receive` is `updateState()` with all it calls: the filter of repeated
states, the list of running activities, the end of the progress screen (which does not end on `Unknown`), the mark of
an own start. `Turn`, `TryAgain` and `CoreRefuses` are the commands of this remote, whose answers cross the state
reports; `OtherClientRuns` is any other client. In `StateLost` and `StateBack` the core itself loses the state of an
activity that is on. `CoreDisconnected` forces the state to unavailable and clears the list of running activities,
which the reports of the reload have to fill again.

### Readiness (`qml/main.qml`, `entityController.cpp` lines 392-438)

One activity and one direction, several presses. `phase` follows a press through `checkActivityReadiness()`;
`check` is its last `checkSequenceReadiness()` with its ceiling timer and its request; `waits` is
`activityReadinessWaits[key]`. `Press`, `PollTimer`, `CeilingPasses`, `CoreAnswers`, `UserDecides` move a press; the
rest (deletion, option, devices, connection, suspend, wakeup, end of the window) happens at any time.

### ProfilePages (`config/config.cpp`, `ui/uiController.cpp`, `ui/group/groupController.cpp`)

Three objects that hand over to each other: `current` (Config), `shown` and `pages` (Controller), `groups`
(GroupController). Each request is a record with an id and a kind; `requests` are those the core has not answered,
`handlers` those the UI waits for. Changing the profile sends the load; the answer to it sends the loads of groups
and pages, each with a newest-request check. The core's other clients add, change and delete pages, groups and
profiles meanwhile; an added profile makes the UI switch to it, as `onProfileAdded()` does. `UserEditsPage` stands for
`updatePageItems()`, which changes the screen first, and `renamePage()`, which does not. A page that is added here
comes as the event of the core, as `addPage()` does nothing on success; its failure reloads like that of a rename.

### InputController (`ui/inputController.cpp`, `qml/components/ButtonNavigation.qml`)

`stack`, `active`, `baseOwner`, `keyOwner`, `deferred` and the power key's flags are the members of the controller;
`repeats` and `timers` are what the button navigation of each scope (a view, or the window with `overrideActive`)
keeps of a key. One action for each way an event ends in `eventFilter()`: `KeyPress`, `AutoRepeatPress`, `KeyRelease`,
`AutoRepeatRelease`, `ReleaseSwallowed`, and for the timers `DeferredRelease`, `LongPressTimeout`, `PowerHeld`; each
runs the handlers of every scope that listens (`PressFor`, `ReleaseFor`) in the same step, as the direct signal
connections do. The views take, release, hide and die at any time (`TakeControl`, `ReleaseControl`, `ReleaseTop`,
`SetBaseOwner`, `ViewShown`, `ViewHidden`, `OwnerDestroyed`). `swallowed` and `strayed` name the scopes whose release
is lost in a way the code allows.

### TouchStream, TouchDevice and TouchSlider (`hardware/ucr3`, `qml/components/TouchSliderVolume.qml`)

`TouchStream` is the abstract specification both sides rest on: press, moves, at most one release, and a reset when
the device was lost. `TouchDevice` has the evdev buffer of the kernel with its `SYN_DROPPED`, the event filter and the
driver that drains, emits and reopens, one action each (`ReadEvent`, `Drained`, `EmitOutput`, `EmitDone`, `ReadError`,
`ReopenFails`, `Reopen`, `ReopenRangeless`), and implements `TouchStream` (`ImplementsStream`). `TouchSlider` takes its
signals from `TouchStream`: `Signal` is a signal with the handler of the slider, `UpdateTimeout` and `ReleaseTimeout`
are its two timers, `Rearm` the loader that replaces it, `EntityEvent` what the entity reports meanwhile. The six
sliders differ in the value they compute, which is any value here; the volume slider is the one translated.

### IntegrationDrivers (`integration/integrationController.cpp`)

`generation`, `pending`, `lastPage`, `totalPages` are the members that carry a load; `requests` holds the page and
driver requests on their way with the generation they captured. `GetAllIntegrationDrivers` starts a load (after a
connect, from the settings, or for a discovery); `PageAnswered`, `PageFails`, `DriverAnswered`, `DriverFails` settle
its requests, and whatever they call is part of the step: the requests for the drivers of a page, those that could not
be sent, the next page, the end of the load with the status load and the waiting discovery. `StatusAnswered`,
`DriverStateChanged`, `DriverAdded`, `DriverDeleted` keep the states and the list of drivers in error. The page is cut
from the list the core has when it answers; `displaced` (history) has the drivers that a change of that list took off
the pages the load would still ask for (`Coming`): moved to a page received before, or behind the last page counted.

### VoicePlayback (`voice.cpp`)

Each answer has a player and a download of its own, so both are functions of the playback; `player` and `reply` are
the two pointers. `PlaySpeechResponse` and `StopSpeechResponse` are the calls, `Started`, `FailsToStart`, `Finished`
the slots of `QProcess`, `ReadyRead` and `ReplyFinished` those of the download. That a process has exited (`Exits`) and
that `QProcess` reports it are two steps: between them the playback may be replaced. A kill that comes while the
process is starting may or may not reach it.

## Runs

| Run | Module | Shows |
|---|---|---|
| `core` | CoreApi | implements RequestContract (every request settled, and once); flags follow the socket; outages reported, and once |
| `commands` | MCEntityCommands | one driver for each command, no orphaned indicator, repeats sent once, late answers settle nothing else, the start of an ended voice session is not sent, every command ends |
| `store` | EntityStore | the UI ends with the entities of the core and drops none it has, but for those displaced between the pages; every load ends |
| `activity` | Activity | list and progress screen follow the core (but for `Unknown`); a start is external at most once |
| `readiness` | Readiness | one result for each check, no wait left behind, every press decided |
| `readiness_twice` | Readiness | *violation*: two quick presses both wait and both run |
| `profiles` | MCProfilePages | one profile is shown, as the core has it, and it is the current one |
| `input` | MCInputController | no scope, nor the power hold, regards a key as held that is up; one action for each press |
| `touch_device` | TouchDevice | implements TouchStream through overflows and reopens; the last position gets out; touches end |
| `slider` | TouchSlider | the timer that sends values ends with the touch, the popup closes, except in the named cases |
| `drivers` | IntegrationDrivers | a load waits for exactly what is in flight, and ends; a discovery starts once; the lists agree, but for drivers missed between the pages |
| `voice` | VoicePlayback | one answer sounds; it ends, and its end is reported once |

Of the type invariants TLC checks those of `EntityStore`, `Activity` and `ProfilePages`; those of the other modules
are theorems only, as are some lesser properties of them (see Proofs).

**Bounds.** They are chosen so that each hazard of `PROJECT.json` occurs, and each property is broken by a mutant
within them:
* `core`: four requests cover one of each kind, over as many connections as the behaviour likes; `ProblemTries` is 2
  instead of 10, `MaxTries` lets the counter go past it.
* `commands`: a key repeat of one device, and the start and the end of a voice session of an assistant; the end stands
  for every plain command, since both may be resent and both prompt the user. Two issues, two requests, a suspend with
  its wakeup: a stale answer needs two issues of one id, a withdrawn start one issue for itself and one for the end.
* `store`: three entities in pages of two make loads of one and of two pages; three generations let a load be
  superseded and another be cut short.
* `activity`: two starts, so that the second meets marks the first one left; two disconnects around them.
* `readiness`: two presses. More press one at a time, since the first waiting one blocks the rest.
* `profiles`: two profiles with one page and one group slot each, one change by another client, one input, one fault
  and one message under way, besides any number of answers; the load after the connect overlaps with the switch.
  Profiles are interchangeable in `Init`, `Next` and all invariants, and no temporal property is checked, so
  `ProfileSymmetry` is sound. Ids of deleted profiles, pages and groups are not used again, as in the core.
* `input`: two views, so that one can be in front of the other, the window, and one key, the power key, with a long
  press in one of the views and in the window. Keys share only the stack and the block of the input.
* `touch_device`: two positions; `MaxQueue` lets two frames wait and the third overflow the buffer; `MaxOutputs` lets a
  touch arrive while the outputs of the one before have not been delivered (after a read error). Events that arrive
  while the buffer is drained are as if they had arrived before.
* `drivers`: three drivers in pages of two make loads of one and of two pages; three loads let a late answer meet the
  next load and the one after it; one driver comes or goes, in any of the loads.
* `voice`: three answers, so that one is replaced by an answer that is replaced itself.

**Deadlock** is checked in the other runs. `EntityStore`, `Activity`, `ProfilePages`, `IntegrationDrivers` and
`VoicePlayback` really may stop: with every change made and every message received there is nothing to do until the
outside acts again, and the bounds end that.

**Fairness.** Only what the process and the system below it guarantee: a running `QTimer` fires (request timeouts,
reconnects, resends, the poll and the ceiling of a readiness check, the popup of the slider), the
clock passes a deadline, a socket that is closing gets closed, the socket notifier wakes a reader of a device that has
events, a player that was killed or whose input was closed exits, `QProcess` reports what happened to a player, and a
download ends at its transfer timeout. Nothing is assumed of the core, the network or the user: each may be silent
forever. So `ImplementsContract`, `PendingSettles`, both `LoadEnds` and `EveryPressDecided` hold although no request
is ever answered, and `PlaybackEnds` although no download succeeds.

## Where the code and its documentation disagree

One violation run, with the quoted line in `PROJECT.json`:
* `readiness_twice`: a second press before the answer to the first one's check waits on its own, and the sequence runs
  twice (`qml/main.qml`).

Exceptions that a property names, each a case in which the code falls short of what it would otherwise promise:
* A state `Unknown` clears `m_sequencePending` like every outcome (`ui/entity/activity.cpp:159`), but is not among the
  states that `LoadingScreen.qml` (line 119) ends on: the progress screen stays open with no sequence pending.
  `ProgressEnds` speaks of the other outcomes.
* An entity that is added in front of the page just answered, or moves to an earlier page when another is deleted, is
  removed at the end of the load (`ui/entity/entityController.cpp:515`, against
  `openspec/specs/core-connection/spec.md:117`). `LoadedMatchesCore` and `OnlyDeletedIsRemoved` except exactly these
  entities, as `displaced`: they may be missing, but are not shown in an old version. `dock/dockController.cpp:342` has
  the same scheme.
* A driver that moves to a page received before is missed likewise, as is one that an addition pushes behind the last
  page counted (`integration/integrationController.cpp:180`, against `openspec/specs/integrations/spec.md:10`). Both
  are `displaced` in `CleanLoadIsComplete`.
* `loadProfile()` has no newest-request check (`ui/uiController.cpp:591`), although `docs/adr/0017` asks for one
  wherever an answer replaces state: of two loads that overlap, the one answered last is shown. `CurrentIsShown` speaks
  of loads that do not overlap.
* The release of a touch while the entity is unavailable returns before it starts the timer that closes the popup
  (`qml/components/TouchSliderVolume.qml:131`, against `openspec/specs/touch-slider/spec.md:70`), and a slider that is
  replaced takes the timer with it. `OverlayCloses` excepts both.

Seen while modelling and left without a run:
* A resend is scheduled 500 ms ahead without looking at the deadline again, so an attempt can start up to 500 ms after
  `retryDeadlineMs` (`ui/entity/entityController.cpp:1103` and `:1108`, comment in `entityController.h:261`).
* `m_wasSuspended` stays set when the resume window is set to 0 between the suspend and the wakeup
  (`ui/entity/entityController.cpp:1243`).
* A start that the core refused keeps its mark (`m_startedFromRemote`, `ui/entity/entityController.cpp:991`), so the
  next start of another client is not reported as external.
* A `voice_end` that is being resent after a wakeup may reach the core after the start of the assistant's next session
  (`ui/entity/entityController.cpp:1120`).
* A profile that is current but failed to load is not loaded again when it is selected, because a setter that changes
  nothing emits nothing (`config/config.cpp:46`).
* A switch that timed out but was carried out by the core leaves the UI on the former profile until the next connect
  (`ui/uiController.cpp:276`); `AgreesWithCore` leaves that case open.
* A request registered with `onResponse()` that times out runs no callback (`core/core.h:353`), while
  `openspec/specs/core-connection/spec.md:56` promises its handler the code 408.
* A second wakeup within an open window gives the commands issued while waking up no time
  (`ui/entity/entityController.cpp:1256`, against the comment at line 1265).
* The mark of an own start is cleared by any Off, Error or Timeout report, also one that crossed the command
  (`ui/entity/activity.cpp:212`); the start is then taken for one from outside
  (`openspec/specs/activities/spec.md:268`). `ReportedOncePerStart` shows that it is at least reported only once.
* An auto-repeat press without a recorded owner is delivered but not recorded, and a press drops the deferred release
  of the one before (`ui/inputController.cpp:291`, `:276`, against `openspec/specs/key-navigation/spec.md:122`): the
  scopes in `strayed`.
* The release of a touch that began on an unavailable entity sends the target of an earlier touch, or the initial 0
  (`qml/components/TouchSliderVolume.qml:137`, against `openspec/specs/touch-slider/spec.md:87`): the exception in
  `SendsInGesture`. A slider that is loaded in the middle of a touch does the same.
* A release while the entity is unavailable leaves the 200 ms timer of the slider running: the exception in
  `StopsOnRelease`. That the release is ignored then is what `openspec/specs/touch-slider/spec.md:87` asks for.
* A release that the kernel dropped with its buffer is not asked for again after `SYN_DROPPED`: the touch stays active
  until the next one ends (the exception in `TouchEnds`).
* The end of a voice session within the 300 ms in which its overlay opens is ignored, because `opened` becomes true
  only after the transition (`qml/components/VoiceOverlay.qml`): no `voice_end` is sent. `onClosed` stops neither the
  timeout nor the hide timer, so that those of an earlier session can close a new overlay.
* A player that was replaced and then fails to start is never deleted (`voice.cpp:79`).
* A keep-alive, a response or an event that arrives after `stopIntegrationSetup()` starts the keep-alive timer of the
  setup session again, and a stop that fails leaves the session active
  (`integration/integrationController.cpp:938`).
* `stopDriverDiscovery()` does not drop a discovery start that still waits for its load
  (`integration/integrationController.cpp:328`), which then starts after the sheet was closed.
* The pages of the status load carry no generation, so two overlapping loads share their counters
  (`integration/integrationController.cpp:1068`).

Hazards without a property, besides the one noted in `PROJECT.json`: the answer to an update check overwrites the
download state that progress events set while it was under way (`softwareupdate/softwareUpdate.cpp:66`); the closing
animation of one run of an activity ends after the next run was started and closes its screen
(`qml/components/entities/activity/LoadingScreen.qml:326`).

## Proofs

The theorems hold for every value of the constants under the named assumptions of the modules: any number of requests,
commands, presses, views, keys, positions, drivers, profiles and playbacks. Each component has one inductive invariant
(`IInv`, in the modules that hold more than one component also under the component's name). EntityCommandsProofs and
ProfilePagesProofs (whose first one is `Base`) add further invariants, each inductive relative to those before it. The
lemmas say what each operator does to the invariant, with one lemma or step for each action.

| Module | What the invariant adds to the properties, and why | Results |
|---|---|---|
| CoreApiProofs | ids above `requestId` are unused, or a new request could inherit a handler or a callback; only requests with callbacks have handlers; the retry counter tells whether the outage was reported | `TypeCorrect`, `HandlersAreTimed`, `CallbacksRunOnce`, `ConnectionFlagsFollowSocket`, `ClientRefinesContract` |
| EntityCommandsProofs | an attempt is recognised by the request id it captured, so request ids are handed out once and those captured lie behind (`RequestsInv`); for what was sent (`HistoryInv`), that an epoch belongs to one command, is used up when it is dropped, and that what must not be repeated has no resend timer; playback (`VoiceInv`): a download begins once its player runs, and a player has heard its own answer only (`DownloadOfPlayer`) | `TypeCorrect`, `NoOrphanedIndicator`, `PendingHasOneDriver`, `AnswersAreOwn`, `RepeatsLeaveOnce`, `EndedSessionsStaySilent`; `NoDanglingPointer`, `EachEndReportedOnce`, `OneAnswerSounds`, `AnswersDoNotMix` |
| ActivityProofs | activity: what is on its way decides what the UI will show, so the invariant speaks of the reports: the last of them is the state of the core (`FollowsCore`), the list follows the state shown (`ListFollowsState`), a screen that waits has a report that ends it among them, or the core is in a step of the run, `Running` or `Unknown` (`ProgressInv`), the reports of one start are consecutive up to the core while it counts the activity as on (`StartsInv`); readiness check: nothing is added, what makes its properties inductive is `Moves`, that every way through `checkActivityReadiness()` moves one press and treats the wait flag accordingly | `TypeCorrect`, `ListIsRight`, `ScreenEnds`, `ReportedOnce`; `ReadinessTypeCorrect`, `OneResult`, `WaitHasItsPress` |
| InputProofs | keys: the view a release will go to is the one that regards the key as held (`ReceiverIsKnown`), a running long-press timer has not run anything yet (`FreshTimers`), a blocked input has no power hold; device (`DeviceInv`): the outputs that wait continue the stream emitted so far (`Chain`), `m_touching` agrees with the last of them, a position not handed out yet is pending; slider (`SliderInv`): during an accepted touch it is active, the order of the signals comes from `TouchStream` | `KeysAreReleased`, `PressRunsOnce`; `DeviceTypeCorrect`, `DriverImplementsStream`, `LastPositionGetsOut`; `ReleaseStopsTimer`, `TouchSends` |
| IntegrationDriversProofs | no request is of a later load, discoveries belong to loads that ended, at most one start waits; the requests are finite, and `OneRequestEach` counts those for the drivers of a page; `CompleteInv`: what a load without failures lists is in the core, and what it has not listed is in flight, on a page to come, or displaced | `TypeCorrect`, `PendingIsExact`, `EachLoadEndsOnce`, `DiscoveryStartsOnce`, `ErrorListIsCurrent`, `LoadsAreComplete` |
| EntityStoreProofs | what is on its way decides what the store will hold, so the invariant speaks of the messages: each agrees with the core at its time, and now if none about the same entity follows (`Accurate`); the store agrees with the core on what no message is about (`InSync`); what the load has not got yet is behind the pages the core has cut, or was displaced (`CoverInv`); with the load through, everything not displaced is in sync, and nothing is shown in an old version (`SyncInv`) | `TypeCorrect`, `LoadsMatch`, `RemovedIsDeleted` |
| PagingProofs | no invariant: what the arithmetic of the pages both loads rest on gives for every length and page size | lemmas only, used in the two modules above it |
| ProfilePagesProofs | several invariants, each inductive relative to those before it, because what the UI shows lags behind the core by the messages on their way: request ids are handed out once, an answer is of a request that is over, and versions stay within the changes and edits (`Base`); a load that nothing overlaps is for the current profile (`ProfileInv`); the last answer about the active profile says what the core has (`AgreeInv`); nothing tells of a page before it is told of as new (`OrderInv`); the newest load is for the profile shown, or has no answer (`NewestInv`); a page shown exists or did, and will not be told of as new (`ScreenInv`); each message agrees with the core at its time, and now if none about the same page or group follows (`InboxInv`); so what is loaded is right or will be, but for an edit that waits for the core (`PagesInv`), and groups that arrive before their answer do not contradict it (`GroupsInv`) | `TypeCorrect`, `CurrentStaysShown`, `CurrentAgreesWithCore`, `OneProfileAtATime`, `ShowsWhatCoreHas` |

`ClientRefinesContract` and `DriverImplementsStream` are refinements: the initial states map to initial states, and
every step maps to a step of the abstract specification or changes nothing it speaks of. The second is what entitles
`TouchSlider` to take its signals from `TouchStream`.

**Only model-checked.** Liveness and the fairness part of the contract (`ImplementsContract` as a whole,
`LongOutageReported`, `PendingSettles`, `LoadEnds` of both modules, `EveryPressDecided`, `TouchEnds`, `OverlayCloses`,
`PlaybackEnds`): `ENABLED` and fairness are out of the prover's reach. Every other property of a
passing run is a theorem. No module declares a `RECURSIVE` operator, so nothing stands in the way.

## Plan

What would come next, in this order:
1. The setup session of an integration (`integration/`): keep-alive timer, response and event handlers after a stop.
   A setup that was stopped is not taken up by a late event.
2. `DockController` as an instance of the scheme of `EntityStore`, and `SoftwareUpdate`: the download state shown is
   the last one known.
3. The settings of `Config`: of two changes in flight none is taken back.
4. The voice overlay with `EntityCommands` and `VoicePlayback`: a session that began is ended once.
5. The readiness report as operators on small reports against a reference definition.
6. `Activity` composed with `EntityCommands`, so that the answer of a start command and the state reports come from
   one core.

Theorems to prove next: those of these models; of the present ones every safety property that TLC checks is proved.

## Not modelled

Views, layouts, translations, fonts, sounds and the virtual keyboard decide nothing the properties could speak of;
where a view keeps state that does (progress screen, readiness prompt, button navigation, touch slider), a model
includes it. The program is C++ and QML; the `.ts` files of `resources/translations` are message catalogues of Qt
Linguist (XML), not code, and no definition maps to them. JSON parsing and the values of attributes are abstracted to
versions or model values. The factory reset, onboarding, notifications, wifi and power controllers are short sequences
of single requests. `PROJECT.json` gives the reason for every component.
