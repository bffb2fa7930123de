---------------------------- MODULE EntityStore ----------------------------
(***************************************************************************)
(* The entity half of EntityController (ui/entity/entityController.cpp):   *)
(* the bulk load of all entities in pages, and the entity_change events    *)
(* that arrive while it runs.                                              *)
(*                                                                         *)
(* External and modelled from its use: the core, which keeps the entities, *)
(* reports every change, answers a page request with what it has at that   *)
(* moment, fails it or never answers; and the socket, which delivers in    *)
(* order and loses what is under way when it closes.                       *)
(***************************************************************************)
EXTENDS Integers, Sequences, FiniteSets, Paging

CONSTANTS
  NumEntities,      \* bound: entities the core may have, listed in this order
  MaxVersion,       \* bound: changes in the core
  MaxGeneration     \* bound: loads started and connections lost

ASSUME EntityStoreAssumption ==
  NumEntities \in Nat /\ MaxVersion \in Nat \ {0} /\ MaxGeneration \in Nat

Ids == 1..NumEntities
Absent == 0            \* the entity is not there
Unavailable == -1      \* the UI knows it and shows it unavailable
Versions == 1..MaxVersion
Generations == 1..MaxGeneration

VARIABLES
  core,         \* the entities of the core: the version of each, or Absent
  version,      \* bound: versions handed out
  connected,    \* the UI is authenticated
  requests,     \* page requests the core received and did not answer
  inbox,        \* messages on their way to the UI
  entities,     \* m_entities: the version shown of each
  generation,   \* m_entityLoadGeneration
  loaded,       \* loadedEntityIds of each load
  waiting,      \* page requests whose handler is registered
  announced,    \* history: load that emitted allEntitiesLoaded
  failed,       \* history: the load of this connection was cut short
  handedOut,    \* history: pages the core has cut for this load while others are to follow
  displaced     \* history: entities that a change has moved in front of the pages handed out

vars == <<core, version, connected, requests, inbox, entities, generation, loaded, waiting,
          announced, failed, handedOut, displaced>>

Request == [page : Nat \ {0}, generation : Generations]

TypeOK ==
  /\ core \in [Ids -> {Absent} \cup Versions]
  /\ version \in 0..MaxVersion
  /\ connected \in BOOLEAN
  /\ requests \subseteq Request /\ waiting \subseteq Request
  /\ entities \in [Ids -> {Absent, Unavailable} \cup Versions]
  /\ generation \in 0..MaxGeneration
  /\ loaded \in [Generations -> SUBSET Ids]
  /\ announced \in 0..MaxGeneration
  /\ failed \in BOOLEAN
  /\ handedOut \in Nat /\ displaced \subseteq Ids

Init ==
  /\ \E present \in SUBSET Ids : core = [i \in Ids |-> IF i \in present THEN 1 ELSE Absent]
  /\ version = 1
  /\ connected = FALSE
  /\ requests = {} /\ waiting = {} /\ inbox = <<>>
  /\ entities = [i \in Ids |-> Absent]
  /\ generation = 0
  /\ loaded = [g \in Generations |-> {}]
  /\ announced = 0 /\ failed = FALSE
  /\ handedOut = 0 /\ displaced = {}

-----------------------------------------------------------------------------
(* The core                                                                *)

Present(table) == {i \in Ids : table[i] # Absent}

PageAnswer(r) ==
  [type |-> "page", request |-> r, count |-> Cardinality(Present(core)),
   items |-> [i \in PageOf(Present(core), r.page) |-> core[i]]]

\* The last page ends the load, and so does an empty one.
HasNext(message) ==
  message.request.page < PageCount(message.count) /\ DOMAIN message.items # {}

(***************************************************************************)
(* Pages are cut from the list as it stands.  When it changes between two  *)
(* pages of a load, an entity may get a place on a page that was handed    *)
(* out before: a new one, or one that moves up when others are deleted.    *)
(***************************************************************************)
InFront(table, i) ==
  i \in Present(table) /\ Rank(Present(table), i) <= handedOut * PageSize

NoteDisplaced ==
  displaced' = displaced \cup {i \in Ids : InFront(core', i) /\ ~InFront(core, i)}

Deliver(message) == inbox' = IF connected THEN Append(inbox, message) ELSE inbox

CoreSetsEntity(i) ==
  /\ version < MaxVersion
  /\ version' = version + 1
  /\ core' = [core EXCEPT ![i] = version + 1]
  /\ Deliver([type |-> IF core[i] = Absent THEN "new" ELSE "change", id |-> i,
              version |-> version + 1])
  /\ NoteDisplaced
  /\ UNCHANGED <<connected, requests, entities, generation, loaded, waiting, announced, failed,
                 handedOut>>

CoreDeletesEntity(i) ==
  /\ core[i] # Absent
  /\ version < MaxVersion
  /\ version' = version + 1
  /\ core' = [core EXCEPT ![i] = Absent]
  /\ Deliver([type |-> "delete", id |-> i])
  /\ NoteDisplaced
  /\ UNCHANGED <<connected, requests, entities, generation, loaded, waiting, announced, failed,
                 handedOut>>

\* An event without entity data: everything is to be loaded again.
CoreAsksReload ==
  /\ connected
  /\ version < MaxVersion
  /\ version' = version + 1
  /\ Deliver([type |-> "reload"])
  /\ UNCHANGED <<core, connected, requests, entities, generation, loaded, waiting, announced,
                 failed, handedOut, displaced>>

\* The answer, kept in mind while it is one of the load that is not superseded.
CoreSendsPage(r) ==
  /\ inbox' = Append(inbox, PageAnswer(r))
  /\ handedOut' = IF r \notin waiting \/ r.generation # generation THEN handedOut
                  ELSE IF HasNext(PageAnswer(r)) THEN r.page ELSE 0

CoreFailsPage(r) ==
  /\ inbox' = Append(inbox, [type |-> "error", request |-> r])
  /\ UNCHANGED handedOut

CoreAnswers(r) ==
  /\ r \in requests
  /\ requests' = requests \ {r}
  /\ CoreSendsPage(r) \/ CoreFailsPage(r)
  /\ UNCHANGED <<core, version, connected, entities, generation, loaded, waiting, announced,
                 failed, displaced>>

-----------------------------------------------------------------------------
(* The load                                                                *)

\* loadAllEntities()
LoadPage(page, g, handlers, received) ==
  LET r == [page |-> page, generation |-> g]
  IN /\ requests' = received \cup {r}
     /\ waiting' = handlers \cup {r}

\* Mutant: pages are counted from zero.
StartLoadAtZero ==
  /\ generation' = generation + 1
  /\ LoadPage(0, generation + 1, waiting, requests)
  /\ failed' = FALSE
  /\ handedOut' = 0 /\ displaced' = {}

\* onCoreConnected(), also for reloadEntities: a new load makes every other one stale.
StartLoad ==
  /\ generation' = generation + 1
  /\ LoadPage(1, generation + 1, waiting, requests)
  /\ failed' = FALSE
  /\ handedOut' = 0 /\ displaced' = {}

CoreConnected ==
  /\ ~connected
  /\ generation < MaxGeneration
  /\ connected' = TRUE
  /\ StartLoad
  /\ UNCHANGED <<core, version, inbox, entities, loaded, announced>>

\* ++m_entityLoadGeneration of onCoreDisconnected()
Supersede == generation' = generation + 1

\* onCoreDisconnected(): entities are shown unavailable, the load is stale.
CoreDisconnected ==
  /\ connected
  /\ generation < MaxGeneration
  /\ connected' = FALSE
  /\ Supersede
  /\ requests' = {} /\ inbox' = <<>>
  /\ entities' = [i \in Ids |-> IF entities[i] = Absent THEN Absent ELSE Unavailable]
  /\ UNCHANGED <<core, version, loaded, waiting, announced, failed, handedOut, displaced>>

\* generation == m_entityLoadGeneration
IsCurrent(g) == g = generation

\* Mutant: what the core no longer has is kept.
WithoutMissingKeeps(table, ids) == table

\* removeMissingEntities()
WithoutMissing(table, ids) == [i \in Ids |-> IF i \in ids THEN table[i] ELSE Absent]

\* The page applied: known entities are updated in place, others added.
WithPage(message) ==
  [i \in Ids |-> IF i \in DOMAIN message.items THEN message.items[i] ELSE entities[i]]

(***************************************************************************)
(* The success callback of loadAllEntities(): a page of the current load   *)
(* is applied, then the next one is requested, or what was in no page is   *)
(* removed and the end of the load announced.                              *)
(***************************************************************************)
ApplyPage(message) ==
  LET r == message.request
      g == r.generation
      ids == loaded[g] \cup DOMAIN message.items
  IN /\ loaded' = [loaded EXCEPT ![g] = ids]
     /\ IF HasNext(message)
        THEN /\ entities' = WithPage(message)
             /\ LoadPage(r.page + 1, g, waiting \ {r}, requests)
             /\ UNCHANGED announced
        ELSE /\ entities' = WithoutMissing(WithPage(message), ids)
             /\ announced' = g
             /\ waiting' = waiting \ {r}
             /\ UNCHANGED requests

PageArrives(message) ==
  /\ IF message.request \in waiting /\ IsCurrent(message.request.generation)
     THEN ApplyPage(message)
     ELSE /\ waiting' = waiting \ {message.request}
          /\ UNCHANGED <<entities, loaded, requests, announced>>
  /\ UNCHANGED <<generation, failed, handedOut, displaced>>

\* Mutant: a failed page ends the load like the last one.
LoadFailedRemoves(r) ==
  /\ waiting' = waiting \ {r}
  /\ IF r \in waiting /\ IsCurrent(r.generation)
     THEN /\ announced' = r.generation
          /\ entities' = WithoutMissing(entities, loaded[r.generation])
     ELSE UNCHANGED <<announced, entities>>
  /\ UNCHANGED failed

\* Mutant: a failed page is only logged.
LoadFailedSilently(r) ==
  /\ waiting' = waiting \ {r}
  /\ failed' = (failed \/ (r \in waiting /\ IsCurrent(r.generation)))
  /\ UNCHANGED <<entities, announced>>

\* The failure callback: the load ends as it is, nothing is removed.
LoadFailed(r) ==
  /\ waiting' = waiting \ {r}
  /\ IF r \in waiting /\ IsCurrent(r.generation)
     THEN announced' = r.generation /\ failed' = TRUE
     ELSE UNCHANGED <<announced, failed>>
  /\ UNCHANGED entities

PageFails(r) ==
  /\ LoadFailed(r)
  /\ UNCHANGED <<generation, loaded, requests, handedOut, displaced>>

\* The request timeout of the core client; an answer may still arrive later.
RequestTimesOut(r) ==
  /\ r \in waiting
  /\ PageFails(r)
  /\ UNCHANGED <<core, version, connected, inbox>>

-----------------------------------------------------------------------------
(* Events                                                                  *)

\* onEntityChanged(): ignored for an unknown entity.
EntityChanged(id, v) ==
  entities' = IF entities[id] = Absent THEN entities ELSE [entities EXCEPT ![id] = v]

\* onEntityAdded(): an entity that is known is updated in place.
EntityAdded(id, v) == entities' = [entities EXCEPT ![id] = v]

\* onEntityDeleted()
EntityDeleted(id) == entities' = [entities EXCEPT ![id] = Absent]

EventArrives(message) ==
  /\ CASE message.type = "new" -> EntityAdded(message.id, message.version)
       [] message.type = "change" -> EntityChanged(message.id, message.version)
       [] message.type = "delete" -> EntityDeleted(message.id)
  /\ UNCHANGED <<generation, loaded, requests, waiting, announced, failed, handedOut, displaced>>

Receive ==
  /\ inbox # <<>>
  /\ LET message == Head(inbox)
     IN \/ message.type = "page" /\ PageArrives(message)
        \/ message.type = "error" /\ PageFails(message.request)
        \/ message.type \in {"new", "change", "delete"} /\ EventArrives(message)
        \/ /\ message.type = "reload"
           /\ generation < MaxGeneration
           /\ StartLoad
           /\ UNCHANGED <<entities, loaded, announced>>
  /\ inbox' = Tail(inbox)
  /\ UNCHANGED <<core, version, connected>>

-----------------------------------------------------------------------------

Next ==
  \/ \E i \in Ids : CoreSetsEntity(i)
  \/ \E i \in Ids : CoreDeletesEntity(i)
  \/ CoreAsksReload
  \/ \E r \in requests : CoreAnswers(r)
  \/ CoreConnected
  \/ CoreDisconnected
  \/ \E r \in waiting : RequestTimesOut(r)
  \/ Receive

Spec == Init /\ [][Next]_vars

\* Requests time out.  Nothing is assumed of the core and the network.
Fairness == \A r \in [page : 1..NumEntities, generation : Generations] : WF_vars(RequestTimesOut(r))

FairSpec == Spec /\ Fairness

-----------------------------------------------------------------------------
(* Properties                                                              *)

\* The load of this connection is through, and everything sent was received.
Settled ==
  /\ connected /\ waiting = {} /\ inbox = <<>>
  /\ announced = generation /\ ~failed

(***************************************************************************)
(* After a load the UI shows the entities of the core in their last        *)
(* version, whatever changed before, during and after it and however many  *)
(* loads were started and cut short.  The exception is an entity that a    *)
(* change between the pages of this load has moved in front of those       *)
(* handed out: it may be missing, but is not shown in an old version.      *)
(***************************************************************************)
LoadedMatchesCore ==
  Settled => \A i \in Ids :
    \/ entities[i] = core[i]
    \/ i \in displaced /\ entities[i] = Absent

(***************************************************************************)
(* The UI drops an entity only if the core has dropped it, or is about to  *)
(* tell of it again, or has displaced it during the load: a load that      *)
(* failed or was superseded removes nothing.                               *)
(***************************************************************************)
OnlyDeletedIsRemoved ==
  [][\A i \in Ids \ displaced :
       entities[i] # Absent /\ entities'[i] = Absent /\ core[i] # Absent =>
         \E n \in DOMAIN inbox' : inbox'[n].type = "new" /\ inbox'[n].id = i]_vars

(***************************************************************************)
(* Every load ends with allEntitiesLoaded, or is superseded: the profile   *)
(* is loaded on that signal, so the UI would stay empty without it.        *)
(***************************************************************************)
LoadEnds ==
  \A g \in Generations :
    connected /\ generation = g ~> announced = g \/ generation # g

=============================================================================
