------------------------- MODULE IntegrationDrivers -------------------------
(***************************************************************************)
(* The list of integration drivers of integrationController.cpp: its load  *)
(* in pages with a request for each driver, the states and the list of     *)
(* drivers in error, and the start of a discovery that waits for the load. *)
(*                                                                         *)
(* External and modelled from its use: the core, which answers a request,  *)
(* fails it or lets it time out, and reports its changes to a connected    *)
(* UI; and the client, which may refuse any request (-1) and settles the   *)
(* others once (see RequestContract).  Messages arrive in the order they   *)
(* are sent, so an answer is read when it is given.  A late answer of an   *)
(* earlier connection is admitted as well: it is one of an earlier load.   *)
(***************************************************************************)
EXTENDS Naturals, FiniteSets, Paging

CONSTANTS
  NumDrivers,       \* bound: drivers the core may have, listed in this order
  MaxGeneration,    \* bound: loads of the list
  MaxChanges        \* bound: drivers the core adds and deletes

ASSUME IntegrationDriversAssumption ==
  NumDrivers \in Nat /\ MaxGeneration \in Nat /\ MaxChanges \in Nat

Drivers == 1..NumDrivers
Generations == 1..MaxGeneration

VARIABLES
  coreDrivers,   \* the drivers of the core
  changes,       \* bound: how often they have changed
  connected,     \* the UI is authenticated
  drivers,       \* m_integrationDrivers: the state shown of each driver
  errors,        \* m_integrationDriversError
  generation,    \* m_driverLoadGeneration
  pending,       \* m_integrationDriversPending
  totalPages,    \* m_integrationDrivers.totalPages, 0 before the first page like its limit
  lastPage,      \* m_integrationDrivers.lastPageLoaded
  requests,      \* page and driver requests whose handler is registered
  statusLoads,   \* status requests whose handler is registered
  starts,        \* discovery starts connected to integrationDriversLoaded
  ends,          \* history: integrationDriversLoaded emitted by each load
  discoveries,   \* history: discoveries started at the end of each load
  clean,         \* history: nothing failed in this load
  displaced      \* history: drivers that a change has taken off the pages the load will ask for

core == <<coreDrivers, changes>>
loadVars == <<generation, pending, totalPages, lastPage, requests, starts, ends, discoveries>>
vars == <<core, connected, drivers, errors, statusLoads, clean, displaced, loadVars>>

\* "error" is every state but active; "fine" is active, or none reported yet.
States == {"fine", "error"}
PageRequest == [kind : {"page"}, page : Nat \ {0}, generation : Generations]
DriverRequest == [kind : {"driver"}, driver : Drivers, generation : Generations]

TypeOK ==
  /\ coreDrivers \subseteq Drivers /\ changes \in Nat /\ connected \in BOOLEAN
  /\ drivers \in [Drivers -> States \cup {"absent"}] /\ errors \subseteq Drivers
  /\ generation \in 0..MaxGeneration /\ pending \in Nat
  /\ totalPages \in Nat /\ lastPage \in Nat
  /\ requests \subseteq PageRequest \cup DriverRequest
  /\ statusLoads \in Nat /\ starts \in Nat
  /\ ends \in [Generations -> Nat] /\ discoveries \in [Generations -> Nat]
  /\ clean \in BOOLEAN /\ displaced \subseteq Drivers

Init ==
  /\ coreDrivers \in SUBSET Drivers /\ changes = 0 /\ connected = FALSE
  /\ drivers = [d \in Drivers |-> "absent"] /\ errors = {}
  /\ generation = 0 /\ pending = 0 /\ totalPages = 0 /\ lastPage = 0
  /\ requests = {} /\ statusLoads = 0 /\ starts = 0
  /\ ends = [g \in Generations |-> 0] /\ discoveries = [g \in Generations |-> 0]
  /\ clean = FALSE /\ displaced = {}

Listed == {d \in Drivers : drivers[d] # "absent"}
Running == generation > 0 /\ ends[generation] = 0

-----------------------------------------------------------------------------
(* The load                                                                *)

(***************************************************************************)
(* integrationDriversLoaded is emitted: the discovery starts that wait for *)
(* it are sent, and getAllIntegrationStatus() asks for the states.         *)
(***************************************************************************)
LoadEnded(waiting, ok) ==
  /\ ends' = [ends EXCEPT ![generation'] = @ + 1]
  /\ discoveries' = [discoveries EXCEPT ![generation'] = @ + waiting]
  /\ starts' = 0
  /\ statusLoads' \in {statusLoads} \cup (IF connected' THEN {statusLoads + 1} ELSE {})
  /\ clean' = ok

LoadGoesOn(waiting, ok) ==
  /\ starts' = waiting
  /\ clean' = ok
  /\ UNCHANGED <<ends, discoveries, statusLoads>>

\* getIntegrationDrivers(): a request that could not be sent ends the load.
GetIntegrationDrivers(rest, page, waiting, ok) ==
  \/ /\ connected'
     /\ requests' = rest \cup {[kind |-> "page", page |-> page, generation |-> generation']}
     /\ LoadGoesOn(waiting, ok)
  \/ requests' = rest /\ LoadEnded(waiting, FALSE)

\* Mutant: the list of drivers in error survives the list of drivers.
GetAllKeepsErrors(waiting) ==
  /\ generation < MaxGeneration
  /\ generation' = generation + 1
  /\ drivers' = [d \in Drivers |-> "absent"]
  /\ pending' = 0 /\ totalPages' = 0 /\ lastPage' = 0
  /\ GetIntegrationDrivers(requests, 1, waiting, TRUE)
  /\ displaced' = {}
  /\ UNCHANGED <<core, errors>>

\* getAllIntegrationDrivers()
GetAllIntegrationDrivers(waiting) ==
  /\ generation < MaxGeneration
  /\ generation' = generation + 1
  /\ drivers' = [d \in Drivers |-> "absent"] /\ errors' = {}
  /\ pending' = 0 /\ totalPages' = 0 /\ lastPage' = 0
  /\ GetIntegrationDrivers(requests, 1, waiting, TRUE)
  /\ displaced' = {}
  /\ UNCHANGED core

\* The connected signal of the client.
CoreConnected ==
  /\ ~connected
  /\ connected' = TRUE
  /\ GetAllIntegrationDrivers(starts)

CoreDisconnected ==
  /\ connected
  /\ connected' = FALSE
  /\ clean' = FALSE
  /\ UNCHANGED <<core, drivers, errors, displaced, generation, pending, totalPages, lastPage,
                 requests, statusLoads, starts, ends, discoveries>>

\* The settings page of the integrations is opened.
OpenSettings == UNCHANGED connected /\ GetAllIntegrationDrivers(starts)

\* Mutant: a start that still waits is added to, not replaced.
StartDriverDiscoveryAgain == UNCHANGED connected /\ GetAllIntegrationDrivers(starts + 1)

\* startDriverDiscovery(): the earlier start that still waits is dropped.
StartDriverDiscovery == UNCHANGED connected /\ GetAllIntegrationDrivers(1)

\* Every driver of the page is settled: the next page, or the end.
PageDone(rest, ok) ==
  IF lastPage' < totalPages'
  THEN GetIntegrationDrivers(rest, lastPage' + 1, starts, ok)
  ELSE requests' = rest /\ LoadEnded(starts, ok)

Drops(r) ==
  /\ requests' = requests \ {r}
  /\ UNCHANGED <<pending, totalPages, lastPage, statusLoads, starts, ends, discoveries, clean>>

\* The requests for the drivers of a page, and those that could not be sent settled at once.
GetPageDrivers(rest, items) ==
  \E sent \in SUBSET items :
    /\ connected \/ sent = {}
    /\ pending' = Cardinality(sent)
    /\ IF sent = {} THEN PageDone(rest, FALSE)
       ELSE /\ requests' = rest \cup [kind : {"driver"}, driver : sent, generation : {generation}]
            /\ LoadGoesOn(starts, clean /\ sent = items)

\* The answer to a page request.
PageAnswered(r) ==
  /\ r \in requests /\ r.kind = "page" /\ connected
  /\ UNCHANGED <<core, connected, drivers, errors, displaced, generation>>
  /\ IF r.generation # generation THEN Drops(r)
     ELSE /\ totalPages' = IF totalPages = 0 THEN PageCount(Cardinality(coreDrivers))
                           ELSE totalPages
          /\ lastPage' = r.page
          /\ IF PageOf(coreDrivers, r.page) = {}
             THEN requests' = requests \ {r} /\ LoadEnded(starts, clean) /\ UNCHANGED pending
             ELSE GetPageDrivers(requests \ {r}, PageOf(coreDrivers, r.page))

\* The failure or the timeout of a page request.
PageFails(r) ==
  /\ r \in requests /\ r.kind = "page"
  /\ UNCHANGED <<core, connected, drivers, errors, displaced, generation>>
  /\ IF r.generation # generation THEN Drops(r)
     ELSE /\ requests' = requests \ {r} /\ LoadEnded(starts, FALSE)
          /\ UNCHANGED <<pending, totalPages, lastPage>>

\* Mutant: drivers of an earlier load are counted as well.
DriverSettledAnyLoad(r, ok) ==
  /\ pending' = pending - 1
  /\ UNCHANGED <<totalPages, lastPage>>
  /\ IF pending' > 0 THEN requests' = requests \ {r} /\ LoadGoesOn(starts, ok)
     ELSE PageDone(requests \ {r}, ok)

\* onIntegrationDriverSettled()
DriverSettled(r, ok) ==
  IF r.generation # generation THEN Drops(r)
  ELSE /\ pending' = pending - 1
       /\ UNCHANGED <<totalPages, lastPage>>
       /\ IF pending' > 0 THEN requests' = requests \ {r} /\ LoadGoesOn(starts, ok)
          ELSE PageDone(requests \ {r}, ok)

\* append() to the model, which drops what it already has.
Appended(d) == IF drivers[d] = "absent" THEN [drivers EXCEPT ![d] = "fine"] ELSE drivers

\* The answer to the request for one driver.
DriverAnswered(r) ==
  /\ r \in requests /\ r.kind = "driver" /\ connected
  /\ r.driver \in coreDrivers
  /\ drivers' = IF r.generation = generation THEN Appended(r.driver) ELSE drivers
  /\ UNCHANGED <<core, connected, errors, displaced, generation>>
  /\ DriverSettled(r, clean)

\* Mutant: a driver that cannot be loaded holds up the load.
DriverFailsSilently(r) ==
  /\ r \in requests /\ r.kind = "driver"
  /\ Drops(r)
  /\ UNCHANGED <<core, connected, drivers, errors, displaced, generation>>

\* The failure or the timeout of the request for one driver.
DriverFails(r) ==
  /\ r \in requests /\ r.kind = "driver"
  /\ UNCHANGED <<core, connected, drivers, errors, displaced, generation>>
  /\ DriverSettled(r, FALSE)

-----------------------------------------------------------------------------
(* States and events                                                       *)

\* updateDriversError() for several drivers at once
UpdateDriversError(known) ==
  errors' = (errors \ known) \cup {d \in known : drivers'[d] = "error"}

(***************************************************************************)
(* The status answer sets the state of every driver that is listed and has *)
(* an integration in the list of integrations, which is loaded on its own: *)
(* any part of the drivers.                                                *)
(***************************************************************************)
StatusAnswered ==
  /\ statusLoads > 0 /\ connected
  /\ statusLoads' = statusLoads - 1
  /\ \E known \in SUBSET Listed : \E reported \in [known -> States] :
       /\ drivers' = [d \in Drivers |-> IF d \in known THEN reported[d] ELSE drivers[d]]
       /\ UpdateDriversError(known)
  /\ UNCHANGED <<core, connected, clean, displaced, loadVars>>

StatusFails ==
  /\ statusLoads > 0
  /\ statusLoads' = statusLoads - 1
  /\ UNCHANGED <<core, connected, drivers, errors, clean, displaced, loadVars>>

\* onIntegrationDriverStateChanged(), also called by onDriverChanged()
DriverStateChanged(d, state) ==
  /\ connected
  /\ d \in Listed /\ drivers[d] # state
  /\ drivers' = [drivers EXCEPT ![d] = state]
  /\ UpdateDriversError({d})
  /\ UNCHANGED <<core, connected, statusLoads, clean, displaced, loadVars>>

\* The drivers of a list that are on a page the load has yet to get.
Coming(all) ==
  {d \in all : /\ Rank(all, d) > lastPage * PageSize
               /\ totalPages = 0 \/ Rank(all, d) <= totalPages * PageSize}

NoteDisplaced == displaced' = displaced \cup (Coming(coreDrivers) \ Coming(coreDrivers'))

\* onDriverAdded(); without a connection the UI is not told.
DriverAdded(d) ==
  /\ changes < MaxChanges /\ changes' = changes + 1
  /\ d \notin coreDrivers
  /\ coreDrivers' = coreDrivers \cup {d}
  /\ drivers' = IF connected THEN Appended(d) ELSE drivers
  /\ NoteDisplaced
  /\ UNCHANGED <<connected, errors, statusLoads, clean, loadVars>>

\* onDriverDeleted()
DriverDeleted(d) ==
  /\ changes < MaxChanges /\ changes' = changes + 1
  /\ d \in coreDrivers
  /\ coreDrivers' = coreDrivers \ {d}
  /\ IF connected
     THEN drivers' = [drivers EXCEPT ![d] = "absent"] /\ errors' = errors \ {d}
     ELSE UNCHANGED <<drivers, errors>>
  /\ NoteDisplaced
  /\ UNCHANGED <<connected, statusLoads, clean, loadVars>>

-----------------------------------------------------------------------------

Next ==
  \/ CoreConnected \/ CoreDisconnected \/ OpenSettings \/ StartDriverDiscovery
  \/ \E r \in requests : PageAnswered(r) \/ PageFails(r) \/ DriverAnswered(r) \/ DriverFails(r)
  \/ StatusAnswered \/ StatusFails
  \/ \E d \in Drivers, state \in States : DriverStateChanged(d, state)
  \/ \E d \in Drivers : DriverAdded(d) \/ DriverDeleted(d)

Spec == Init /\ [][Next]_vars

\* The request timeouts fire.  A load of the drivers has no more pages than drivers.
Fairness ==
  \A g \in Generations, d \in Drivers :
    /\ WF_vars(PageFails([kind |-> "page", page |-> d, generation |-> g]))
    /\ WF_vars(DriverFails([kind |-> "driver", driver |-> d, generation |-> g]))

FairSpec == Spec /\ Fairness

-----------------------------------------------------------------------------
(* Properties                                                              *)

Of(g) == {r \in requests : r.generation = g}

(***************************************************************************)
(* While a load runs it waits for exactly one page, or for the drivers of  *)
(* one page, and then m_integrationDriversPending counts them.  Counting   *)
(* an answer of an earlier load, or missing one of this load, would end it *)
(* early or never.                                                         *)
(***************************************************************************)
PendingIsInFlight ==
  IF Running
  THEN \/ \E r \in requests : Of(generation) = {r} /\ r.kind = "page"
       \/ /\ Of(generation) # {} /\ Of(generation) \subseteq DriverRequest
          /\ pending = Cardinality(Of(generation))
  ELSE Of(generation) = {}

(***************************************************************************)
(* openspec integrations, "Reload while a load is running": a load ends at *)
(* most once, and none ends for an answer to an earlier one.               *)
(***************************************************************************)
LoadEndsOnce == \A g \in Generations : ends[g] <= 1 /\ (g > generation => ends[g] = 0)

(***************************************************************************)
(* A discovery start that waits has a load to wait for, and a load starts  *)
(* one discovery at most, however often the sheet was opened meanwhile.    *)
(***************************************************************************)
StartIsServedOnce ==
  /\ starts > 0 => Running
  /\ \A g \in Generations : discoveries[g] <= 1

(***************************************************************************)
(* The connection status page looks up every driver in error: the list     *)
(* names drivers that are there and whose state is an error, whichever of  *)
(* status load, event, deletion and reload came last.                      *)
(***************************************************************************)
ErrorsFollowStates == errors = {d \in Listed : drivers[d] = "error"}

(***************************************************************************)
(* A load in which no request failed lists no driver the core does not     *)
(* have, and all it has, also those that came and went while it ran, for   *)
(* one page or several.  The exception is a driver that a change between   *)
(* two pages has moved to one received before or behind the last counted.  *)
(***************************************************************************)
CleanLoadIsComplete ==
  generation > 0 /\ ~Running /\ clean =>
    Listed \subseteq coreDrivers /\ coreDrivers \subseteq Listed \cup displaced

(***************************************************************************)
(* Every load ends or is replaced by a newer one, whatever is answered or  *)
(* refused: the status load and a waiting discovery depend on it.          *)
(***************************************************************************)
LoadEnds ==
  \A g \in Generations : generation = g ~> generation # g \/ ~Running

=============================================================================
