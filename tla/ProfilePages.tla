---------------------------- MODULE ProfilePages ----------------------------
(***************************************************************************)
(* The current profile, its pages and its groups as the UI shows them:     *)
(* Config (config/config.cpp), which learns the active profile,            *)
(* Controller (ui/uiController.cpp), which loads it with its pages, and    *)
(* GroupController (ui/group/groupController.cpp).                         *)
(*                                                                         *)
(* External and modelled from its use: the core, which keeps the profiles, *)
(* reports changes, and answers requests in any order, fails them or never *)
(* answers; other clients, which edit the same profiles; and the socket,   *)
(* which delivers in order and loses what is under way when it closes.     *)
(***************************************************************************)
EXTENDS Naturals, Sequences, FiniteSets

CONSTANTS
  Profiles,     \* profiles that may exist
  Slots,        \* pages and groups a profile may have
  None,         \* no profile, the id "-1"
  MaxChanges,   \* bound: changes in the core
  MaxInputs,    \* bound: switches and edits of the user
  MaxFaults,    \* bound: connections lost and requests refused or timed out
  MaxInbox      \* bound: messages on their way before the core sends another

ASSUME ProfilePagesAssumption ==
  /\ IsFiniteSet(Profiles) /\ None \notin Profiles /\ IsFiniteSet(Slots)
  /\ MaxChanges \in Nat /\ MaxInputs \in Nat /\ MaxFaults \in Nat
  /\ MaxInbox \in Nat

Items == Profiles \X Slots
Absent == 0
Edited == 0               \* shown content that the core has not confirmed
Versions == 1..(MaxChanges + MaxInputs + 1)

VARIABLES
  core,           \* profiles, the active one, and the pages and groups with their versions
  deleted,        \* profiles deleted: their ids are not used again
  removed,        \* pages and groups deleted, likewise
  version,        \* bound: versions handed out
  connected,      \* the UI is authenticated
  inputs,         \* bound: inputs of the user
  faults,         \* bound: connections lost and requests refused or timed out
  nextId,         \* the id of the next request
  requests,       \* requests the core has not answered
  handlers,       \* requests whose handler is registered
  inbox,          \* messages on their way to the UI
  current,        \* Config: m_currentProfile
  shown,          \* Controller: m_profile.getId()
  pages,          \* Controller: m_pages
  pagesRequest,   \* Controller: m_pagesRequestId, 0 for a request that could not be sent
  groups,         \* GroupController: m_groups, the version of each or Absent
  groupProfile,   \* GroupController: m_profileId
  groupsRequest,  \* GroupController: m_groupsRequestId
  loaded,         \* history: "pages" and "groups" whose newest load was applied
  profileLoad,    \* history: how the loads of profiles went
  inDoubt         \* history: on this connection it is not known which profile is active

coreVars == <<core, deleted, removed, version>>
linkVars == <<nextId, requests, handlers>>
boundVars == <<inputs, faults>>
pageVars == <<pages, pagesRequest>>
groupVars == <<groups, groupProfile, groupsRequest>>
profileVars == <<current, shown, profileLoad, inDoubt>>
uiVars == <<profileVars, pageVars, groupVars, loaded>>
vars == <<coreVars, connected, boundVars, linkVars, inbox, uiVars>>

Kinds == {"active", "profile", "pages", "groups", "switch", "update"}
Request == [id : Nat \ {0}, kind : Kinds, of : Profiles \cup Items \cup {None}]
NoItems == [i \in Items |-> Absent]

Waiting(kind) == {r \in handlers : r.kind = kind}

\* Among others: a request id is handed out once.
TypeOK ==
  /\ core \in [profiles : SUBSET Profiles, active : Profiles \cup {None},
               pages : [Items -> {Absent} \cup Versions],
               groups : [Items -> {Absent} \cup Versions]]
  /\ deleted \subseteq Profiles /\ removed \subseteq {"pages", "groups"} \X Items
  /\ version \in Versions
  /\ connected \in BOOLEAN /\ inputs \in 0..MaxInputs /\ faults \in 0..MaxFaults
  /\ nextId \in Nat \ {0}
  /\ requests \subseteq Request /\ handlers \subseteq Request
  /\ \A r, s \in requests \cup handlers : r.id < nextId /\ (r.id = s.id => r = s)
  /\ current \in Profiles \cup {None} /\ shown \in Profiles \cup {None}
  /\ pages \in Seq([page : Items, version : {Edited} \cup Versions])
  /\ pagesRequest \in Nat /\ groupsRequest \in Nat
  /\ groups \in [Items -> {Absent} \cup Versions] /\ groupProfile \in Profiles \cup {None}
  /\ loaded \subseteq {"pages", "groups"}
  /\ profileLoad \in {"none", "loading", "overlapping", "done", "failed"}
  /\ inDoubt \in BOOLEAN

Init ==
  /\ \E existing \in SUBSET Profiles, slots \in SUBSET Slots :
       LET items == [i \in Items |-> IF i[1] \in existing /\ i[2] \in slots THEN 1 ELSE Absent]
       IN \E active \in IF existing = {} THEN {None} ELSE existing :
            core = [profiles |-> existing, active |-> active, pages |-> items, groups |-> items]
  /\ deleted = {} /\ removed = {} /\ version = 1
  /\ connected = FALSE /\ inputs = 0 /\ faults = 0
  /\ nextId = 1 /\ requests = {} /\ handlers = {} /\ inbox = <<>>
  /\ current = None /\ shown = None
  /\ pages = <<>> /\ pagesRequest = 0
  /\ groups = NoItems /\ groupProfile = None /\ groupsRequest = 0
  /\ loaded = {} /\ profileLoad = "none" /\ inDoubt = TRUE

-----------------------------------------------------------------------------
(* The core                                                                *)

Fault == faults < MaxFaults /\ faults' = faults + 1

Reported(message) == IF connected THEN Append(inbox, message) ELSE inbox

RoomInInbox == Len(inbox) < MaxInbox

NewVersion ==
  /\ RoomInInbox
  /\ version < MaxChanges + 1
  /\ version' = version + 1

\* A page or a group is added, changed or deleted by another client.
CoreSetsItem(what, i) ==
  /\ i[1] \in core.profiles /\ <<what, i>> \notin removed
  /\ NewVersion
  /\ \E v \in {version + 1} \cup (IF core[what][i] = Absent THEN {} ELSE {Absent}) :
       /\ core' = [core EXCEPT ![what][i] = v]
       /\ inbox' = Reported([type |-> what, item |-> i, version |-> v,
                             isNew |-> core[what][i] = Absent])
       /\ removed' = IF v = Absent THEN removed \cup {<<what, i>>} ELSE removed
  /\ UNCHANGED <<deleted, connected, boundVars, linkVars, uiVars>>

CoreAddsProfile(p) ==
  /\ p \notin core.profiles \cup deleted
  /\ NewVersion
  /\ core' = [core EXCEPT !.profiles = @ \cup {p}]
  /\ inbox' = Reported([type |-> "profileAdded", profile |-> p])
  /\ UNCHANGED <<deleted, removed, connected, boundVars, linkVars, uiVars>>

CoreDeletesProfile(p) ==
  /\ p \in core.profiles
  /\ NewVersion
  /\ LET Without(table) == [i \in Items |-> IF i[1] = p THEN Absent ELSE table[i]]
     IN core' = [profiles |-> core.profiles \ {p},
                 active |-> IF core.active = p THEN None ELSE core.active,
                 pages |-> Without(core.pages), groups |-> Without(core.groups)]
  /\ deleted' = deleted \cup {p}
  /\ inbox' = Reported([type |-> "profileDeleted", profile |-> p])
  /\ UNCHANGED <<removed, connected, boundVars, linkVars, uiVars>>

ItemsOf(table, p) == {i \in Items : i[1] = p /\ table[i] # Absent}

\* The data of a successful answer.
Content(r) ==
  CASE r.kind = "active" -> core.active
    [] r.kind \in {"pages", "groups"} ->
         [i \in ItemsOf(core[r.kind], r.of) |-> core[r.kind][i]]
    [] OTHER -> r.of

Failure(r) == [type |-> "answer", request |-> r, ok |-> FALSE]
Success(r) == [type |-> "answer", request |-> r, ok |-> TRUE, data |-> Content(r)]

CoreRefuses(r) ==
  /\ r \in requests
  /\ RoomInInbox
  /\ Fault
  /\ requests' = requests \ {r}
  /\ inbox' = Append(inbox, Failure(r))
  /\ UNCHANGED <<coreVars, connected, inputs, nextId, handlers, uiVars>>

\* A page that is updated gets a new version and is reported before the answer.
CoreAnswers(r) ==
  /\ r \in requests
  /\ RoomInInbox
  /\ CASE r.kind = "active" -> core.active # None
       [] r.kind = "update" -> core.pages[r.of] # Absent
       [] OTHER -> r.of \in core.profiles
  /\ requests' = requests \ {r}
  /\ IF r.kind = "update"
     THEN /\ version' = version + 1
          /\ core' = [core EXCEPT !.pages[r.of] = version + 1]
          /\ inbox' = inbox \o <<[type |-> "pages", item |-> r.of, version |-> version + 1,
                                  isNew |-> FALSE], Success(r)>>
     ELSE /\ core' = IF r.kind = "switch" THEN [core EXCEPT !.active = r.of] ELSE core
          /\ inbox' = Append(inbox, Success(r))
          /\ UNCHANGED version
  /\ UNCHANGED <<deleted, removed, connected, boundVars, nextId, handlers, uiVars>>

-----------------------------------------------------------------------------
(* Requests                                                                *)

\* Mutant: the request id is advanced once for all requests of a step.
SendUnderOneId(calls, settled) ==
  /\ nextId' = nextId + 1
  /\ requests' = requests \cup {[id |-> nextId, kind |-> calls[n][1], of |-> calls[n][2]] :
                                n \in DOMAIN calls}
  /\ handlers' = (handlers \ settled) \cup (requests' \ requests)

\* The requests of a step, given as <<kind, of>> in their order, after the handler of another ran.
Send(calls, settled) ==
  LET new == {[id |-> nextId + n - 1, kind |-> calls[n][1], of |-> calls[n][2]] :
                n \in DOMAIN calls}
  IN IF connected
     THEN /\ nextId' = nextId + Len(calls)
          /\ requests' = requests \cup new
          /\ handlers' = (handlers \ settled) \cup new
     ELSE /\ handlers' = handlers \ settled
          /\ UNCHANGED <<nextId, requests>>

\* The id of the n-th request sent in a step.
SentId(n) == IF connected THEN nextId + n - 1 ELSE 0

Settle(settled) == Send(<<>>, settled)

\* loadProfile(), when Config reports its profile
LoadProfile(p, settled) ==
  /\ Send(<<<<"profile", p>>>>, settled)
  /\ profileLoad' = IF {r \in handlers \ settled : r.kind = "profile"} = {}
                    THEN "loading" ELSE "overlapping"

\* syncWithCore() and loadPages()
Sync(settled) ==
  /\ pages' = <<>>
  /\ loaded' = loaded \ {"pages"}
  /\ Send(<<<<"pages", shown>>>>, settled)
  /\ pagesRequest' = SentId(1)

-----------------------------------------------------------------------------
(* Answers, for the handler registered with the request                    *)

\* getActiveProfile(); the change is reported even if it is none.
ActiveAnswer(r, p) ==
  /\ current' = p
  /\ LoadProfile(p, {r})
  /\ UNCHANGED <<shown, inDoubt, pageVars, groupVars, loaded>>

\* Mutant: the profile is set without a report of the change.
SwitchAnswerUnreported(r, p) ==
  /\ current' = p
  /\ Settle({r})
  /\ UNCHANGED <<shown, profileLoad, inDoubt, pageVars, groupVars, loaded>>

\* switchProfile(), setCurrentProfileId(): a profile that is current already is not loaded again.
SwitchAnswer(r, p) ==
  /\ current' = p
  /\ IF current = p THEN Settle({r}) /\ UNCHANGED profileLoad ELSE LoadProfile(p, {r})
  /\ UNCHANGED <<shown, inDoubt, pageVars, groupVars, loaded>>

\* loadProfile(): the profile, then setProfileId() for its groups and loadPages().
ProfileAnswer(r, p) ==
  /\ shown' = p
  /\ groups' = NoItems /\ groupProfile' = p /\ pages' = <<>>
  /\ Send(<<<<"groups", p>>, <<"pages", p>>>>, {r})
  /\ groupsRequest' = SentId(1) /\ pagesRequest' = SentId(2)
  /\ loaded' = {}
  /\ profileLoad' = IF profileLoad = "loading" THEN "done" ELSE profileLoad
  /\ UNCHANGED <<current, inDoubt>>

Listing(content) ==
  CHOOSE s \in [1..Cardinality(DOMAIN content) -> {[page |-> i, version |-> content[i]] :
                                                     i \in DOMAIN content}] :
    \A m, n \in DOMAIN s : s[m] = s[n] => m = n

\* Mutant: every answer counts.
IsNewestAny(r, newest) == TRUE

IsNewest(r, newest) == r.id = newest

\* loadPages(): a page announced since the request was sent is part of the answer.
PagesAnswer(r, content) ==
  /\ Settle({r})
  /\ IF IsNewest(r, pagesRequest)
     THEN pages' = Listing(content) /\ loaded' = loaded \cup {"pages"}
     ELSE UNCHANGED <<pages, loaded>>
  /\ UNCHANGED <<profileVars, pagesRequest, groupVars>>

\* setProfileId(): each group is added as by an event, for the profile of the request.
GroupsAnswer(r, content) ==
  /\ Settle({r})
  /\ IF IsNewest(r, groupsRequest)
     THEN /\ groups' = IF groupProfile = r.of
                       THEN [i \in Items |-> IF i \in DOMAIN content THEN content[i] ELSE groups[i]]
                       ELSE groups
          /\ loaded' = loaded \cup {"groups"}
     ELSE UNCHANGED <<groups, loaded>>
  /\ UNCHANGED <<profileVars, pageVars, groupProfile, groupsRequest>>

Succeeds(r, data) ==
  CASE r.kind = "active" -> ActiveAnswer(r, data)
    [] r.kind = "switch" -> SwitchAnswer(r, data)
    [] r.kind = "profile" -> ProfileAnswer(r, data)
    [] r.kind = "pages" -> PagesAnswer(r, data)
    [] r.kind = "groups" -> GroupsAnswer(r, data)
    [] r.kind = "update" -> Settle({r}) /\ UNCHANGED uiVars

\* Mutant: the change that was refused stays on the screen.
ReloadsNever(r) == FALSE

\* addPage(), renamePage(), updatePage(): a refused change of a page is followed by a reload, the
\* other failures are logged or shown to the user. A page added here comes as the core's event.
Reloads(r) == r.kind = "update"

Fails(r, isAnswer) ==
  /\ IF Reloads(r) THEN Sync({r}) ELSE Settle({r}) /\ UNCHANGED <<pageVars, loaded>>
  /\ profileLoad' = IF r.kind = "profile" /\ profileLoad = "loading" THEN "failed" ELSE profileLoad
  /\ inDoubt' = (inDoubt \/ r.kind = "active" \/ (r.kind = "switch" /\ ~isAnswer))
  /\ UNCHANGED <<current, shown, groupVars>>

\* An answer without a handler is not read.
ReceiveAnswer ==
  /\ inbox # <<>> /\ Head(inbox).type = "answer"
  /\ inbox' = Tail(inbox)
  /\ LET r == Head(inbox).request
     IN IF r \notin handlers THEN UNCHANGED <<linkVars, uiVars>>
        ELSE IF Head(inbox).ok THEN Succeeds(r, Head(inbox).data)
        ELSE Fails(r, TRUE)
  /\ UNCHANGED <<coreVars, connected, boundVars>>

\* The core may have carried out what it did not answer.
RequestTimeout(r) ==
  /\ r \in handlers
  /\ Fault
  /\ Fails(r, FALSE)
  /\ UNCHANGED <<coreVars, connected, inputs, inbox>>

-----------------------------------------------------------------------------
(* Events                                                                  *)

ShownAt(i) == {n \in DOMAIN pages : pages[n].page = i}

\* The first page of this id is removed, if there is one.
PagesWithout(i) ==
  IF ShownAt(i) = {} THEN pages
  ELSE LET first == CHOOSE n \in ShownAt(i) : \A m \in ShownAt(i) : n <= m
       IN [n \in 1..(Len(pages) - 1) |-> IF n < first THEN pages[n] ELSE pages[n + 1]]

\* onPageAdded(), onPageChanged(), onPageDeleted()
PageEvent(e) ==
  /\ pages' = IF e.item[1] # shown THEN pages
              ELSE IF e.version = Absent THEN PagesWithout(e.item)
              ELSE IF e.isNew THEN Append(pages, [page |-> e.item, version |-> e.version])
              ELSE [n \in DOMAIN pages |-> IF n \in ShownAt(e.item)
                                           THEN [pages[n] EXCEPT !.version = e.version]
                                           ELSE pages[n]]
  /\ UNCHANGED <<linkVars, profileVars, pagesRequest, groupVars, loaded>>

\* onGroupAdded(), onGroupChanged(), onGroupDeleted(): the change of an unknown group is ignored.
GroupEvent(e) ==
  /\ groups' = IF e.item[1] # groupProfile \/ (groups[e.item] = Absent /\ ~e.isNew) THEN groups
               ELSE [groups EXCEPT ![e.item] = e.version]
  /\ UNCHANGED <<linkVars, profileVars, pageVars, groupProfile, groupsRequest, loaded>>

\* Mutant: the new profile is made the current one here alone.
ProfileAddedLocally(p) ==
  /\ current' = p
  /\ LoadProfile(p, {})
  /\ UNCHANGED <<shown, inDoubt, pageVars, groupVars, loaded>>

\* onProfileAdded()
ProfileAdded(p) == Send(<<<<"switch", p>>>>, {}) /\ UNCHANGED uiVars

\* onProfileDeleted()
ProfileDeleted(p) ==
  /\ IF shown = p
     THEN shown' = None /\ pages' = <<>> /\ loaded' = {}
     ELSE UNCHANGED <<shown, pages, loaded>>
  /\ UNCHANGED <<linkVars, current, profileLoad, inDoubt, pagesRequest, groupVars>>

ReceiveEvent ==
  /\ inbox # <<>> /\ Head(inbox).type # "answer"
  /\ inbox' = Tail(inbox)
  /\ LET e == Head(inbox)
     IN CASE e.type = "pages" -> PageEvent(e)
          [] e.type = "groups" -> GroupEvent(e)
          [] e.type = "profileAdded" -> ProfileAdded(e.profile)
          [] e.type = "profileDeleted" -> ProfileDeleted(e.profile)
  /\ UNCHANGED <<coreVars, connected, boundVars>>

-----------------------------------------------------------------------------
(* The user and the connection                                             *)

UserInput == inputs < MaxInputs /\ inputs' = inputs + 1

\* switchProfile(); without a connection nothing is sent.
UserSwitches(p) ==
  /\ UserInput
  /\ Send(<<<<"switch", p>>>>, {})
  /\ UNCHANGED <<coreVars, connected, faults, inbox, uiVars>>

\* The page is changed on the screen, then updatePageItems() sends the change; renamePage() only
\* sends it, and its answer shows the name the core reported before.
UserEditsPage(i) ==
  /\ UserInput
  /\ ShownAt(i) # {}
  /\ \/ pages' = [n \in DOMAIN pages |-> IF n \in ShownAt(i) THEN [page |-> i, version |-> Edited]
                                         ELSE pages[n]]
     \/ pages' = pages
  /\ Send(<<<<"update", i>>>>, {})
  /\ UNCHANGED <<coreVars, connected, faults, inbox, profileVars, pagesRequest, groupVars,
                 loaded>>

\* Handlers stay until their request times out.
CoreDisconnected ==
  /\ connected
  /\ Fault
  /\ connected' = FALSE
  /\ requests' = {} /\ inbox' = <<>>
  /\ loaded' = {}
  /\ UNCHANGED <<coreVars, inputs, nextId, handlers, profileVars, pageVars, groupVars>>

\* onCoreConnected() of Config
CoreConnected ==
  /\ ~connected
  /\ connected' = TRUE
  /\ LET r == [id |-> nextId, kind |-> "active", of |-> None]
     IN requests' = {r} /\ handlers' = handlers \cup {r} /\ nextId' = nextId + 1
  /\ inDoubt' = FALSE
  /\ UNCHANGED <<coreVars, boundVars, inbox, current, shown, profileLoad, pageVars, groupVars,
                 loaded>>

-----------------------------------------------------------------------------

Next ==
  \/ \E i \in Items : CoreSetsItem("pages", i) \/ CoreSetsItem("groups", i) \/ UserEditsPage(i)
  \/ \E p \in Profiles : CoreAddsProfile(p) \/ CoreDeletesProfile(p) \/ UserSwitches(p)
  \/ \E r \in requests : CoreAnswers(r) \/ CoreRefuses(r)
  \/ \E r \in handlers : RequestTimeout(r)
  \/ ReceiveAnswer
  \/ ReceiveEvent
  \/ CoreDisconnected
  \/ CoreConnected

Spec == Init /\ [][Next]_vars

-----------------------------------------------------------------------------
(* Properties                                                              *)

(***************************************************************************)
(* However switches, reconnects, reloads and events overlap, the pages and *)
(* groups of one profile are shown, each once, never a mix of two.         *)
(***************************************************************************)
OneProfileShown ==
  /\ \A n \in DOMAIN pages : pages[n].page[1] = shown /\ ShownAt(pages[n].page) = {n}
  /\ \A i \in Items : groups[i] # Absent => i[1] = groupProfile
  /\ shown # None => groupProfile = shown

\* Every message of this connection was received.
UpToDate == connected /\ inbox = <<>>

(***************************************************************************)
(* Once the newest answer was applied, pages and groups are those of the   *)
(* core: no event that raced the answer is lost or applied twice, and no   *)
(* edit the core refused stays on the screen.                              *)
(***************************************************************************)
LoadedMatchesCore ==
  UpToDate /\ shown \in core.profiles =>
    /\ "pages" \in loaded /\ Waiting("update") = {} =>
         {<<pages[n].page, pages[n].version>> : n \in DOMAIN pages}
           = {<<i, core.pages[i]>> : i \in ItemsOf(core.pages, shown)}
    /\ "groups" \in loaded =>
         \A i \in Items : i[1] = shown => groups[i] = core.groups[i]

(***************************************************************************)
(* The remote and the core agree on the active profile, whoever added the  *)
(* profile it switched to: the UI makes none current the core did not.     *)
(* An answer that was not received in time leaves it open.                 *)
(***************************************************************************)
AgreesWithCore ==
  UpToDate /\ Waiting("active") \cup Waiting("switch") = {} /\ ~inDoubt /\ core.active # None
    => current = core.active

(***************************************************************************)
(* A profile that was made current is the one shown, if its load succeeded *)
(* and no other was under way: loadProfile() takes any answer, so of two   *)
(* loads that overlap the one answered last is shown.                      *)
(***************************************************************************)
CurrentIsShown == profileLoad = "done" => shown \in {current, None}

=============================================================================
