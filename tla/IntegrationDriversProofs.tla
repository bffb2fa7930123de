---------------------- MODULE IntegrationDriversProofs ----------------------
(***************************************************************************)
(* Proofs about IntegrationDrivers, for any number of drivers and pages,   *)
(* any number of loads and of changes of the core.                         *)
(***************************************************************************)
EXTENDS IntegrationDrivers, PagingProofs

(***************************************************************************)
(* What the load properties rest on: no request is of a later load, a      *)
(* discovery is started by a load that has ended, and by no other, and     *)
(* never does more than one start wait.                                    *)
(***************************************************************************)
Bounded ==
  /\ IsFiniteSet(requests)
  /\ \A r \in requests : r.generation <= generation
  /\ \A g \in Generations : discoveries[g] <= ends[g]
  /\ starts \in {0, 1}

LoadTypes ==
  /\ pending \in Nat /\ totalPages \in Nat /\ lastPage \in Nat
  /\ requests \subseteq PageRequest \cup DriverRequest
  /\ statusLoads \in Nat
  /\ ends \in [Generations -> Nat] /\ discoveries \in [Generations -> Nat]
  /\ clean \in BOOLEAN

ListTypes ==
  /\ coreDrivers \subseteq Drivers /\ changes \in Nat /\ connected \in BOOLEAN
  /\ drivers \in [Drivers -> States \cup {"absent"}] /\ errors \subseteq Drivers
  /\ displaced \subseteq Drivers

LoadInv ==
  /\ LoadTypes /\ Bounded
  /\ PendingIsInFlight /\ LoadEndsOnce /\ StartIsServedOnce

IInv == generation \in 0..MaxGeneration /\ ListTypes /\ ErrorsFollowStates /\ LoadInv

LEMMA InvariantParts == IInv => TypeOK /\ PendingIsInFlight /\ LoadEndsOnce
                                /\ StartIsServedOnce /\ ErrorsFollowStates
  BY DEF IInv, ListTypes, LoadInv, LoadTypes, Bounded, TypeOK

LEMMA InitHolds == Init => IInv
<1> SUFFICES ASSUME Init PROVE IInv OBVIOUS
<1>1. generation \in 0..MaxGeneration /\ ListTypes /\ LoadTypes
  <2>1. generation \in 0..MaxGeneration
    BY IntegrationDriversAssumption DEF Init
  <2>2. ListTypes
    BY DEF Init, ListTypes
  <2>3. LoadTypes
    BY DEF Init, LoadTypes
  <2>4. QED
    BY <2>1, <2>2, <2>3
<1>2. ErrorsFollowStates
  BY DEF Init, ErrorsFollowStates, Listed
<1>3. Bounded
  BY FS_EmptySet, IntegrationDriversAssumption DEF Init, Bounded, Generations
<1>4. PendingIsInFlight /\ LoadEndsOnce /\ StartIsServedOnce
  BY IntegrationDriversAssumption
  DEF Init, PendingIsInFlight, Of, Running, LoadEndsOnce, StartIsServedOnce, Generations
<1>5. QED
  BY <1>1, <1>2, <1>3, <1>4 DEF IInv, LoadInv

-----------------------------------------------------------------------------
(* Requests and their number                                               *)

LEMMA DriversAreFinite == ASSUME NEW S \in SUBSET Drivers
                          PROVE IsFiniteSet(S) /\ Cardinality(S) \in Nat
<1>1. IsFiniteSet(Drivers)
  BY FS_Interval, IntegrationDriversAssumption DEF Drivers
<1>2. QED
  BY <1>1, FS_Subset, FS_CardinalityType

DriverRequests(S, g) == [kind : {"driver"}, driver : S, generation : {g}]

\* One request for each driver of a page.
LEMMA OneRequestEach ==
  ASSUME NEW S, IsFiniteSet(S), NEW g
  PROVE  /\ IsFiniteSet(DriverRequests(S, g))
         /\ Cardinality(DriverRequests(S, g)) = Cardinality(S)
<1> DEFINE request == [d \in S |-> [kind |-> "driver", driver |-> d, generation |-> g]]
<1>1. request \in Surjection(S, DriverRequests(S, g))
  BY DEF Surjection, DriverRequests
<1>2. request \in Injection(S, DriverRequests(S, g))
  BY DEF Injection, IsInjective, DriverRequests
<1>3. QED
  BY <1>1, <1>2, FS_Surjection

-----------------------------------------------------------------------------
(* The end of a load, and its next request                                 *)

(***************************************************************************)
(* A load that has been begun (again) and not ended, with `rest' what is   *)
(* in flight of the earlier ones.                                          *)
(***************************************************************************)
Open(rest, g) ==
  /\ g \in Generations /\ ends[g] = 0
  /\ ends \in [Generations -> Nat] /\ discoveries \in [Generations -> Nat]
  /\ \A h \in Generations : ends[h] <= 1 /\ discoveries[h] <= ends[h] /\ (h > g => ends[h] = 0)
  /\ IsFiniteSet(rest) /\ rest \subseteq PageRequest \cup DriverRequest
  /\ \A r \in rest : r.generation <= g /\ r.generation # g
  /\ statusLoads \in Nat
  /\ pending' \in Nat /\ totalPages' \in Nat /\ lastPage' \in Nat

LEMMA LoadEndedEffect ==
  ASSUME NEW rest, NEW waiting \in {0, 1}, NEW ok \in BOOLEAN, Open(rest, generation'),
         requests' = rest, LoadEnded(waiting, ok)
  PROVE  LoadInv'
<1> DEFINE g == generation'
<1>1. /\ ends' = [ends EXCEPT ![g] = @ + 1]
      /\ discoveries' = [discoveries EXCEPT ![g] = @ + waiting]
      /\ starts' = 0 /\ clean' = ok
      /\ statusLoads' \in Nat
  BY DEF LoadEnded, Open
<1>2. g \in Generations /\ g \in Nat /\ g > 0 /\ ends[g] = 0
  BY IntegrationDriversAssumption DEF Open, Generations
<1>3. /\ ends' \in [Generations -> Nat] /\ discoveries' \in [Generations -> Nat]
  BY <1>1, <1>2 DEF Open
<1>4. discoveries[g] = 0
  BY <1>2 DEF Open
<1> HIDE DEF g
<1>5. \A h \in Generations : ends'[h] <= 1 /\ discoveries'[h] <= ends'[h] /\ (h > g => ends'[h] = 0)
  <2> TAKE h \in Generations
  <2>1. CASE h = g
    BY <1>1, <1>2, <1>4, <2>1 DEF Open
  <2>2. CASE h # g
    BY <1>1, <2>2 DEF Open, g
  <2>3. QED
    BY <2>1, <2>2
<1>6. LoadTypes'
  BY <1>1, <1>3 DEF LoadTypes, Open
<1>7. Bounded'
  BY <1>1, <1>5 DEF Bounded, Open, g
<1>8. PendingIsInFlight'
  <2>1. Of(generation)' = {} /\ ends'[generation'] # 0
    BY <1>1, <1>2 DEF Of, Open, g
  <2>2. QED
    BY <2>1 DEF PendingIsInFlight, Running
<1>9. LoadEndsOnce' /\ StartIsServedOnce'
  BY <1>1, <1>3, <1>5 DEF LoadEndsOnce, StartIsServedOnce, g
<1>10. QED
  BY <1>6, <1>7, <1>8, <1>9 DEF LoadInv

\* The load waits for what was sent: one page, or the drivers of a page.
LEMMA LoadGoesOnEffect ==
  ASSUME NEW rest, NEW sent, NEW waiting \in {0, 1}, NEW ok \in BOOLEAN,
         Open(rest, generation'), LoadGoesOn(waiting, ok), requests' = rest \cup sent,
         IsFiniteSet(sent), sent \subseteq PageRequest \cup DriverRequest,
         \A r \in sent : r.generation = generation',
         \/ \E r \in sent : sent = {r} /\ r.kind = "page"
         \/ sent # {} /\ sent \subseteq DriverRequest /\ pending' = Cardinality(sent)
  PROVE  LoadInv'
<1>1. starts' = waiting /\ clean' = ok /\ UNCHANGED <<ends, discoveries, statusLoads>>
  BY DEF LoadGoesOn
<1>2. generation' \in Nat /\ generation' > 0
  BY IntegrationDriversAssumption DEF Open, Generations
<1>3. LoadTypes'
  BY <1>1 DEF LoadTypes, Open
<1>4. Bounded'
  <2>1. IsFiniteSet(requests')
    BY FS_Union DEF Open
  <2>2. \A r \in requests' : r.generation <= generation'
    BY <1>2 DEF Open
  <2>3. QED
    BY <1>1, <2>1, <2>2 DEF Bounded, Open
<1>5. Of(generation)' = sent
  BY DEF Of, Open
<1>6. Running'
  BY <1>1, <1>2 DEF Running, Open
<1>7. PendingIsInFlight'
  BY <1>5, <1>6 DEF PendingIsInFlight
<1>8. LoadEndsOnce'
  BY <1>1 DEF LoadEndsOnce, Open
<1>9. StartIsServedOnce'
  <2>1. \A g \in Generations : discoveries[g] <= 1
    BY DEF Open
  <2>2. QED
    BY <1>1, <1>6, <2>1 DEF StartIsServedOnce
<1>10. QED
  BY <1>3, <1>4, <1>7, <1>8, <1>9 DEF LoadInv

LEMMA GetIntegrationDriversEffect ==
  ASSUME NEW rest, NEW page \in Nat \ {0}, NEW waiting \in {0, 1}, NEW ok \in BOOLEAN,
         Open(rest, generation'), GetIntegrationDrivers(rest, page, waiting, ok)
  PROVE  LoadInv'
<1> DEFINE r == [kind |-> "page", page |-> page, generation |-> generation']
<1>1. CASE requests' = rest \cup {r} /\ LoadGoesOn(waiting, ok)
  <2>1. r \in PageRequest
    BY DEF PageRequest, Open
  <2>2. IsFiniteSet({r}) /\ r.generation = generation' /\ r.kind = "page"
    BY FS_Singleton
  <2> HIDE DEF r
  <2>3. QED
    BY <1>1, <2>1, <2>2, LoadGoesOnEffect
<1>2. CASE requests' = rest /\ LoadEnded(waiting, FALSE)
  BY <1>2, LoadEndedEffect
<1>3. QED
  BY <1>1, <1>2 DEF GetIntegrationDrivers

-----------------------------------------------------------------------------
(* Beginning a load                                                        *)

LEMMA GetAllKeepsIInv ==
  ASSUME IInv, NEW waiting \in {0, 1}, GetAllIntegrationDrivers(waiting), connected' \in BOOLEAN
  PROVE  IInv'
<1>1. /\ generation < MaxGeneration /\ generation' = generation + 1
      /\ drivers' = [d \in Drivers |-> "absent"] /\ errors' = {} /\ displaced' = {}
      /\ pending' = 0 /\ totalPages' = 0 /\ lastPage' = 0 /\ UNCHANGED core
      /\ GetIntegrationDrivers(requests, 1, waiting, TRUE)
  BY DEF GetAllIntegrationDrivers
<1>2. generation \in Nat /\ generation' \in Generations
  BY <1>1, IntegrationDriversAssumption DEF IInv, Generations
<1>3. generation' \in 0..MaxGeneration
  BY <1>2, IntegrationDriversAssumption DEF Generations
<1>4. ListTypes' /\ ErrorsFollowStates'
  BY <1>1 DEF IInv, ListTypes, ErrorsFollowStates, Listed, core
<1>5. Open(requests, generation')
  <2>1. \A r \in requests : r.generation <= generation' /\ r.generation # generation'
    <3> TAKE r \in requests
    <3>1. r.generation <= generation /\ r.generation \in Nat
      BY IntegrationDriversAssumption
      DEF IInv, LoadInv, Bounded, LoadTypes, PageRequest, DriverRequest, Generations
    <3>2. QED
      BY <1>1, <1>2, <3>1
  <2>2. \A h \in Generations : ends[h] <= 1 /\ discoveries[h] <= ends[h]
                               /\ (h > generation => ends[h] = 0)
    BY DEF IInv, LoadInv, Bounded, LoadEndsOnce
  <2>3. ends[generation'] = 0 /\ \A h \in Generations : h > generation' => ends[h] = 0
    BY <1>1, <1>2, <2>2, IntegrationDriversAssumption DEF Generations
  <2>4. QED
    BY <1>1, <1>2, <2>1, <2>2, <2>3 DEF Open, IInv, LoadInv, Bounded, LoadTypes
<1>6. LoadInv'
  <2>1. 1 \in Nat \ {0} /\ TRUE \in BOOLEAN
    OBVIOUS
  <2>2. GetIntegrationDrivers(requests, 1, waiting, TRUE)
    BY <1>1
  <2>3. QED
    BY <1>5, <2>1, <2>2, GetIntegrationDriversEffect
<1>7. QED
  BY <1>3, <1>4, <1>6 DEF IInv

LEMMA BeginningsKeepIInv ==
  ASSUME IInv, CoreConnected \/ OpenSettings \/ StartDriverDiscovery
  PROVE  IInv'
<1>1. starts \in {0, 1} /\ connected' \in BOOLEAN
  BY DEF IInv, LoadInv, Bounded, ListTypes, CoreConnected, OpenSettings, StartDriverDiscovery
<1>2. \E waiting \in {0, 1} : GetAllIntegrationDrivers(waiting)
  BY <1>1 DEF CoreConnected, OpenSettings, StartDriverDiscovery
<1>3. QED
  BY <1>1, <1>2, GetAllKeepsIInv

-----------------------------------------------------------------------------
(* Answers and failures                                                    *)

\* An answer of an earlier load is dropped.
LEMMA DropsEffect ==
  ASSUME IInv, NEW r \in requests, r.generation # generation, Drops(r), UNCHANGED generation
  PROVE  LoadInv'
<1>1. /\ requests' = requests \ {r}
      /\ UNCHANGED <<pending, totalPages, lastPage, statusLoads, starts, ends, discoveries, clean>>
  BY DEF Drops
<1>2. Of(generation)' = Of(generation) /\ (Running' <=> Running)
  BY <1>1 DEF Of, Running
<1>3. IsFiniteSet(requests')
  BY <1>1, FS_RemoveElement DEF IInv, LoadInv, Bounded
<1>4. LoadTypes' /\ Bounded'
  BY <1>1, <1>3 DEF IInv, LoadInv, LoadTypes, Bounded
<1>5. PendingIsInFlight'
  <2>1. \A q : q \in Of(generation)' <=> q \in Of(generation)
    BY <1>2
  <2>2. CASE Running
    <3>1. \/ \E q \in requests : Of(generation) = {q} /\ q.kind = "page"
          \/ /\ Of(generation) # {} /\ Of(generation) \subseteq DriverRequest
             /\ pending = Cardinality(Of(generation))
      BY <2>2 DEF IInv, LoadInv, PendingIsInFlight
    <3>2. CASE \E q \in requests : Of(generation) = {q} /\ q.kind = "page"
      <4>1. PICK q \in requests : Of(generation) = {q} /\ q.kind = "page"
        BY <3>2
      <4>2. q \in requests'
        BY <1>1, <4>1 DEF Of
      <4>3. QED
        BY <1>2, <2>2, <4>1, <4>2 DEF PendingIsInFlight
    <3>3. QED
      BY <1>1, <1>2, <2>2, <3>1, <3>2 DEF PendingIsInFlight
  <2>3. CASE ~Running
    BY <1>2, <2>3 DEF IInv, LoadInv, PendingIsInFlight
  <2>4. QED
    BY <2>2, <2>3
<1>6. LoadEndsOnce' /\ StartIsServedOnce'
  BY <1>1, <1>2 DEF IInv, LoadInv, LoadEndsOnce, StartIsServedOnce
<1>7. QED
  BY <1>4, <1>5, <1>6 DEF LoadInv

\* With the last request of the load answered, it is open and nothing of it is in flight.
LEMMA LastAnswerOpens ==
  ASSUME IInv, NEW r \in requests, Of(generation) \subseteq {r}, r.generation = generation,
         UNCHANGED generation,
         pending' \in Nat, totalPages' \in Nat, lastPage' \in Nat
  PROVE  Open(requests \ {r}, generation')
<1>1. Running
  BY DEF IInv, LoadInv, PendingIsInFlight, Of
<1>2. generation \in Generations /\ ends[generation] = 0
  BY <1>1, IntegrationDriversAssumption DEF Running, IInv, Generations
<1>3. IsFiniteSet(requests \ {r})
  BY FS_RemoveElement DEF IInv, LoadInv, Bounded
<1>4. \A q \in requests \ {r} : q.generation <= generation /\ q.generation # generation
  BY DEF IInv, LoadInv, Bounded, Of
<1>5. QED
  BY <1>2, <1>3, <1>4 DEF Open, IInv, LoadInv, Bounded, LoadTypes, LoadEndsOnce

LEMMA PageDoneEffect ==
  ASSUME IInv, NEW r \in requests, Of(generation) \subseteq {r}, r.generation = generation,
         UNCHANGED generation, NEW ok \in BOOLEAN,
         pending' \in Nat, totalPages' \in Nat, lastPage' \in Nat,
         PageDone(requests \ {r}, ok)
  PROVE  LoadInv'
<1>1. Open(requests \ {r}, generation')
  BY LastAnswerOpens
<1>2. starts \in {0, 1}
  BY DEF IInv, LoadInv, Bounded
<1>3. lastPage' + 1 \in Nat \ {0}
  <2>1. \A n \in Nat : n + 1 \in Nat \ {0}
    OBVIOUS
  <2>2. QED
    BY <2>1
<1>4. QED
  BY <1>1, <1>2, <1>3, GetIntegrationDriversEffect, LoadEndedEffect DEF PageDone

\* A page is the only request of its load.
LEMMA PageIsAlone ==
  ASSUME IInv, NEW r \in requests, r.kind = "page", r.generation = generation
  PROVE  Of(generation) \subseteq {r} /\ r.page \in Nat
<1>1. r \in Of(generation) /\ r \notin DriverRequest
  BY DEF Of, DriverRequest
<1>2. QED
  BY <1>1 DEF IInv, LoadInv, LoadTypes, PendingIsInFlight, PageRequest

LEMMA PageAnsweredKeepsIInv ==
  ASSUME IInv, NEW r \in requests, PageAnswered(r) PROVE IInv'
<1>1. r.kind = "page" /\ UNCHANGED <<core, connected, drivers, errors, displaced, generation>>
  BY DEF PageAnswered
<1>2. generation' \in 0..MaxGeneration /\ ListTypes' /\ ErrorsFollowStates'
  BY <1>1 DEF IInv, ListTypes, ErrorsFollowStates, Listed, core
<1>3. CASE r.generation # generation
  <2>1. Drops(r)
    BY <1>3 DEF PageAnswered
  <2>2. QED
    BY <1>1, <1>2, <1>3, <2>1, DropsEffect DEF IInv
<1>4. CASE r.generation = generation
  <2> DEFINE items == PageOf(coreDrivers, r.page)
             rest == requests \ {r}
  <2>1. Of(generation) \subseteq {r} /\ r.page \in Nat
    BY <1>1, <1>4, PageIsAlone
  <2>2. totalPages' \in Nat /\ lastPage' \in Nat
    <3>1. Cardinality(coreDrivers) \in Nat
      BY DriversAreFinite DEF IInv, ListTypes
    <3>2. PageCount(Cardinality(coreDrivers)) \in Nat
      BY <3>1, PagesSuffice
    <3>3. QED
      BY <1>4, <2>1, <3>2 DEF PageAnswered, IInv, LoadInv, LoadTypes
  <2>3. starts \in {0, 1} /\ clean \in BOOLEAN /\ pending \in Nat
    BY DEF IInv, LoadInv, Bounded, LoadTypes
  <2>4. items \in SUBSET Drivers
    BY DEF PageOf, IInv, ListTypes
  <2>5. CASE requests' = rest /\ LoadEnded(starts, clean) /\ UNCHANGED pending
    <3>1. Open(rest, generation')
      BY <1>1, <1>4, <2>1, <2>2, <2>3, <2>5, LastAnswerOpens
    <3>2. QED
      BY <1>2, <2>3, <2>5, <3>1, LoadEndedEffect DEF IInv
  <2>6. CASE GetPageDrivers(rest, items)
    <3> HIDE DEF items
    <3>1. PICK sent \in SUBSET items :
            /\ pending' = Cardinality(sent)
            /\ IF sent = {} THEN PageDone(rest, FALSE)
               ELSE /\ requests' = rest \cup DriverRequests(sent, generation)
                    /\ LoadGoesOn(starts, clean /\ sent = items)
      BY <2>6 DEF GetPageDrivers, DriverRequests
    <3>2. IsFiniteSet(sent) /\ pending' \in Nat /\ sent \subseteq Drivers
      BY <2>4, <3>1, DriversAreFinite
    <3>3. CASE sent = {}
      BY <1>1, <1>2, <1>4, <2>1, <2>2, <3>1, <3>2, <3>3, PageDoneEffect DEF IInv
    <3>4. CASE sent # {}
      <4> DEFINE new == DriverRequests(sent, generation)
      <4>1. Open(rest, generation')
        BY <1>1, <1>4, <2>1, <2>2, <3>2, LastAnswerOpens
      <4>2. IsFiniteSet(new) /\ pending' = Cardinality(new)
        BY <3>1, <3>2, OneRequestEach
      <4>3. new # {} /\ new \subseteq DriverRequest /\ \A q \in new : q.generation = generation'
        <5>1. PICK d \in sent : TRUE
          BY <3>4
        <5>2. [kind |-> "driver", driver |-> d, generation |-> generation] \in new
          BY <5>1 DEF DriverRequests
        <5>3. generation \in Generations
          BY <1>1, <4>1 DEF Open
        <5>4. new \subseteq DriverRequest
          BY <3>2, <5>3 DEF DriverRequests, DriverRequest
        <5>5. \A q \in new : q.generation = generation'
          BY <1>1 DEF DriverRequests
        <5>6. QED
          BY <5>2, <5>4, <5>5
      <4>4. requests' = rest \cup new /\ LoadGoesOn(starts, clean /\ sent = items)
        BY <3>1, <3>4
      <4>5. (clean /\ sent = items) \in BOOLEAN
        BY <2>3
      <4> HIDE DEF new, rest
      <4>6. LoadInv'
        BY <2>3, <4>1, <4>2, <4>3, <4>4, <4>5, LoadGoesOnEffect
      <4>7. QED
        BY <1>2, <4>6 DEF IInv
    <3>5. QED
      BY <3>3, <3>4
  <2>7. QED
    BY <1>4, <2>5, <2>6 DEF PageAnswered
<1>5. QED
  BY <1>3, <1>4

LEMMA PageFailsKeepsIInv ==
  ASSUME IInv, NEW r \in requests, PageFails(r) PROVE IInv'
<1>1. r.kind = "page" /\ UNCHANGED <<core, connected, drivers, errors, displaced, generation>>
  BY DEF PageFails
<1>2. generation' \in 0..MaxGeneration /\ ListTypes' /\ ErrorsFollowStates'
  BY <1>1 DEF IInv, ListTypes, ErrorsFollowStates, Listed, core
<1>3. CASE r.generation # generation
  <2>1. Drops(r)
    BY <1>3 DEF PageFails
  <2>2. QED
    BY <1>1, <1>2, <1>3, <2>1, DropsEffect DEF IInv
<1>4. CASE r.generation = generation
  <2>1. /\ requests' = requests \ {r} /\ LoadEnded(starts, FALSE)
        /\ UNCHANGED <<pending, totalPages, lastPage>>
    BY <1>4 DEF PageFails
  <2>2. Open(requests \ {r}, generation')
    BY <1>1, <1>4, <2>1, PageIsAlone, LastAnswerOpens DEF IInv, LoadInv, LoadTypes
  <2>3. starts \in {0, 1}
    BY DEF IInv, LoadInv, Bounded
  <2>4. QED
    BY <1>2, <2>1, <2>2, <2>3, LoadEndedEffect DEF IInv
<1>5. QED
  BY <1>3, <1>4

(***************************************************************************)
(* One driver of the page less, and with the last of them the page is      *)
(* done: m_integrationDriversPending counts exactly those in flight.       *)
(***************************************************************************)
LEMMA DriverSettledEffect ==
  ASSUME IInv, NEW r \in requests, r.kind = "driver", NEW ok \in BOOLEAN,
         UNCHANGED generation, DriverSettled(r, ok)
  PROVE  LoadInv'
<1>1. CASE r.generation # generation
  BY <1>1, DropsEffect DEF DriverSettled
<1>2. CASE r.generation = generation
  <2>1. /\ pending' = pending - 1 /\ UNCHANGED <<totalPages, lastPage>>
        /\ IF pending' > 0 THEN requests' = requests \ {r} /\ LoadGoesOn(starts, ok)
           ELSE PageDone(requests \ {r}, ok)
    BY <1>2 DEF DriverSettled
  <2>2. r \in Of(generation) /\ Running
    BY <1>2 DEF Of, IInv, LoadInv, PendingIsInFlight
  <2>3. Of(generation) \subseteq DriverRequest /\ pending = Cardinality(Of(generation))
    BY <2>2 DEF IInv, LoadInv, PendingIsInFlight
  <2>4. IsFiniteSet(Of(generation)) /\ Of(generation) \subseteq requests
    BY FS_Subset DEF Of, IInv, LoadInv, Bounded
  <2> DEFINE left == Of(generation) \ {r}
  <2>5. IsFiniteSet(left) /\ Cardinality(left) = pending - 1 /\ Cardinality(left) \in Nat
    BY <2>2, <2>3, <2>4, FS_RemoveElement, FS_CardinalityType
  <2>6. pending' \in Nat /\ totalPages' \in Nat /\ lastPage' \in Nat /\ starts \in {0, 1}
    BY <2>1, <2>5 DEF IInv, LoadInv, LoadTypes, Bounded
  <2>7. CASE pending' > 0
    <3> DEFINE rest == requests \ Of(generation)
    <3>1. Open(rest, generation')
      <4>1. generation \in Generations /\ ends[generation] = 0
        BY <2>2, IntegrationDriversAssumption DEF Running, IInv, Generations
      <4>2. IsFiniteSet(rest)
        BY FS_Subset DEF IInv, LoadInv, Bounded
      <4>3. \A q \in rest : q.generation <= generation /\ q.generation # generation
        BY DEF IInv, LoadInv, Bounded, Of
      <4>4. QED
        BY <2>6, <4>1, <4>2, <4>3 DEF Open, IInv, LoadInv, Bounded, LoadTypes, LoadEndsOnce
    <3>2. requests' = rest \cup left /\ LoadGoesOn(starts, ok)
      BY <2>1, <2>2, <2>4, <2>7
    <3>3. left # {} /\ pending' = Cardinality(left)
      BY <2>1, <2>5, <2>7, FS_EmptySet
    <3>4. left \subseteq DriverRequest /\ \A q \in left : q.generation = generation'
      BY <2>3 DEF Of
    <3> HIDE DEF rest, left
    <3>5. QED
      BY <2>5, <2>6, <3>1, <3>2, <3>3, <3>4, LoadGoesOnEffect
  <2>8. CASE ~(pending' > 0)
    <3>1. left = {}
      BY <2>1, <2>5, <2>6, <2>8, FS_EmptySet
    <3>2. QED
      BY <1>2, <2>1, <2>6, <2>8, <3>1, PageDoneEffect
  <2>9. QED
    BY <2>7, <2>8
<1>3. QED
  BY <1>1, <1>2

\* A driver that appears in the list has reported no error.
LEMMA AppendedEffect ==
  ASSUME NEW d \in Drivers, ListTypes, ErrorsFollowStates, UNCHANGED errors,
         drivers' = Appended(d) \/ UNCHANGED drivers
  PROVE  drivers' \in [Drivers -> States \cup {"absent"}] /\ ErrorsFollowStates'
<1>1. drivers' \in [Drivers -> States \cup {"absent"}]
  BY DEF Appended, ListTypes, States
<1>2. \A e \in Drivers : drivers'[e] = "error" <=> drivers[e] = "error"
  BY DEF Appended, ListTypes
<1>3. QED
  BY <1>1, <1>2 DEF ErrorsFollowStates, Listed

LEMMA DriverAnsweredKeepsIInv ==
  ASSUME IInv, NEW r \in requests, DriverAnswered(r) PROVE IInv'
<1>1. /\ r.kind = "driver" /\ r.driver \in coreDrivers
      /\ drivers' = Appended(r.driver) \/ UNCHANGED drivers
      /\ UNCHANGED <<core, connected, errors, displaced, generation>>
      /\ DriverSettled(r, clean)
  BY DEF DriverAnswered
<1>2. ListTypes' /\ ErrorsFollowStates'
  BY <1>1, AppendedEffect DEF IInv, ListTypes, core
<1>3. clean \in BOOLEAN
  BY DEF IInv, LoadInv, LoadTypes
<1>4. LoadInv'
  BY <1>1, <1>3, DriverSettledEffect
<1>5. QED
  BY <1>1, <1>2, <1>4 DEF IInv

LEMMA DriverFailsKeepsIInv ==
  ASSUME IInv, NEW r \in requests, DriverFails(r) PROVE IInv'
<1>1. /\ r.kind = "driver" /\ UNCHANGED <<core, connected, drivers, errors, displaced, generation>>
      /\ DriverSettled(r, FALSE)
  BY DEF DriverFails
<1>2. ListTypes' /\ ErrorsFollowStates'
  BY <1>1 DEF IInv, ListTypes, ErrorsFollowStates, Listed, core
<1>3. LoadInv'
  BY <1>1, DriverSettledEffect
<1>4. QED
  BY <1>1, <1>2, <1>3 DEF IInv

-----------------------------------------------------------------------------
(* States and events                                                       *)

\* Nothing of the load is touched, except perhaps the history variable `clean'.
LEMMA LoadUntouched ==
  ASSUME IInv, UNCHANGED loadVars, statusLoads' \in Nat, clean' \in BOOLEAN
  PROVE  generation' \in 0..MaxGeneration /\ LoadInv'
  BY DEF IInv, LoadInv, LoadTypes, Bounded, PendingIsInFlight, Of, Running, LoadEndsOnce,
         StartIsServedOnce, loadVars

\* updateDriversError() follows the states it is called for.
LEMMA UpdateDriversErrorEffect ==
  ASSUME ListTypes, ErrorsFollowStates, NEW known \in SUBSET Listed,
         drivers' \in [Drivers -> States \cup {"absent"}],
         \A d \in Drivers \ known : drivers'[d] = drivers[d],
         UpdateDriversError(known)
  PROVE  ErrorsFollowStates' /\ errors' \subseteq Drivers
  BY DEF UpdateDriversError, ErrorsFollowStates, Listed, ListTypes

LEMMA StatusAnsweredKeepsIInv == ASSUME IInv, StatusAnswered PROVE IInv'
<1>1. /\ statusLoads > 0 /\ statusLoads' = statusLoads - 1
      /\ UNCHANGED <<core, connected, clean, displaced, loadVars>>
  BY DEF StatusAnswered
<1>2. PICK known \in SUBSET Listed : \E reported \in [known -> States] :
        /\ drivers' = [d \in Drivers |-> IF d \in known THEN reported[d] ELSE drivers[d]]
        /\ UpdateDriversError(known)
  BY DEF StatusAnswered
<1>3. drivers' \in [Drivers -> States \cup {"absent"}]
      /\ \A d \in Drivers \ known : drivers'[d] = drivers[d]
  BY <1>2 DEF IInv, ListTypes
<1>4. ErrorsFollowStates' /\ errors' \subseteq Drivers
  BY <1>2, <1>3, UpdateDriversErrorEffect DEF IInv
<1>5. ListTypes'
  BY <1>1, <1>3, <1>4 DEF IInv, ListTypes, core
<1>6. generation' \in 0..MaxGeneration /\ LoadInv'
  BY <1>1, LoadUntouched DEF IInv, LoadInv, LoadTypes
<1>7. QED
  BY <1>4, <1>5, <1>6 DEF IInv

LEMMA StatusFailsKeepsIInv == ASSUME IInv, StatusFails PROVE IInv'
<1>1. /\ statusLoads > 0 /\ statusLoads' = statusLoads - 1
      /\ UNCHANGED <<core, connected, drivers, errors, clean, displaced, loadVars>>
  BY DEF StatusFails
<1>2. ListTypes' /\ ErrorsFollowStates'
  BY <1>1 DEF IInv, ListTypes, ErrorsFollowStates, Listed, core
<1>3. generation' \in 0..MaxGeneration /\ LoadInv'
  BY <1>1, LoadUntouched DEF IInv, LoadInv, LoadTypes
<1>4. QED
  BY <1>2, <1>3 DEF IInv

LEMMA DriverStateChangedKeepsIInv ==
  ASSUME IInv, NEW d \in Drivers, NEW state \in States, DriverStateChanged(d, state) PROVE IInv'
<1>1. /\ d \in Listed /\ drivers' = [drivers EXCEPT ![d] = state] /\ UpdateDriversError({d})
      /\ UNCHANGED <<core, connected, statusLoads, clean, displaced, loadVars>>
  BY DEF DriverStateChanged
<1>2. drivers' \in [Drivers -> States \cup {"absent"}]
      /\ \A e \in Drivers \ {d} : drivers'[e] = drivers[e]
  BY <1>1 DEF IInv, ListTypes
<1>3. ErrorsFollowStates' /\ errors' \subseteq Drivers
  BY <1>1, <1>2, UpdateDriversErrorEffect DEF IInv
<1>4. ListTypes'
  BY <1>1, <1>2, <1>3 DEF IInv, ListTypes, core
<1>5. generation' \in 0..MaxGeneration /\ LoadInv'
  BY <1>1, LoadUntouched DEF IInv, LoadInv, LoadTypes
<1>6. QED
  BY <1>3, <1>4, <1>5 DEF IInv

LEMMA DriverAddedKeepsIInv ==
  ASSUME IInv, NEW d \in Drivers, DriverAdded(d) PROVE IInv'
<1>1. /\ changes' = changes + 1 /\ coreDrivers' = coreDrivers \cup {d}
      /\ drivers' = Appended(d) \/ UNCHANGED drivers
      /\ UNCHANGED <<connected, errors, statusLoads, loadVars>>
  BY DEF DriverAdded
<1>2. clean' \in BOOLEAN /\ displaced' \subseteq Drivers
  BY DEF DriverAdded, NoteDisplaced, Coming, IInv, ListTypes, LoadInv, LoadTypes
<1>3. ListTypes' /\ ErrorsFollowStates'
  BY <1>1, <1>2, AppendedEffect DEF IInv, ListTypes
<1>4. generation' \in 0..MaxGeneration /\ LoadInv'
  BY <1>1, <1>2, LoadUntouched DEF IInv, LoadInv, LoadTypes
<1>5. QED
  BY <1>3, <1>4 DEF IInv

LEMMA DriverDeletedKeepsIInv ==
  ASSUME IInv, NEW d \in Drivers, DriverDeleted(d) PROVE IInv'
<1>1. /\ changes' = changes + 1 /\ coreDrivers' = coreDrivers \ {d}
      /\ \/ drivers' = [drivers EXCEPT ![d] = "absent"] /\ errors' = errors \ {d}
         \/ UNCHANGED <<drivers, errors>>
      /\ UNCHANGED <<connected, statusLoads, loadVars>>
  BY DEF DriverDeleted
<1>2. clean' \in BOOLEAN /\ displaced' \subseteq Drivers
  BY DEF DriverDeleted, NoteDisplaced, Coming, IInv, ListTypes, LoadInv, LoadTypes
<1>3. ListTypes'
  BY <1>1, <1>2 DEF IInv, ListTypes
<1>4. ErrorsFollowStates'
  BY <1>1 DEF IInv, ErrorsFollowStates, Listed, ListTypes
<1>5. generation' \in 0..MaxGeneration /\ LoadInv'
  BY <1>1, <1>2, LoadUntouched DEF IInv, LoadInv, LoadTypes
<1>6. QED
  BY <1>3, <1>4, <1>5 DEF IInv

LEMMA CoreDisconnectedKeepsIInv == ASSUME IInv, CoreDisconnected PROVE IInv'
<1>1. /\ connected' = FALSE /\ clean' = FALSE
      /\ UNCHANGED <<core, drivers, errors, displaced, statusLoads, loadVars>>
  BY DEF CoreDisconnected, loadVars
<1>2. ListTypes' /\ ErrorsFollowStates'
  BY <1>1 DEF IInv, ListTypes, ErrorsFollowStates, Listed, core
<1>3. generation' \in 0..MaxGeneration /\ LoadInv'
  BY <1>1, LoadUntouched DEF IInv, LoadInv, LoadTypes
<1>4. QED
  BY <1>2, <1>3 DEF IInv

-----------------------------------------------------------------------------
(* The drivers that a load has still to list                               *)

ToCome(d) == d \in Coming(coreDrivers)

\* The driver is requested by the load.
InFlight(d) == \E r \in Of(generation) : r.kind = "driver" /\ r.driver = d

(***************************************************************************)
(* A load goes through the pages in order and counts those of the list it  *)
(* found; what it has not listed yet is in flight or on a page to come, or *)
(* was displaced.                                                          *)
(***************************************************************************)
Missing == coreDrivers \ (Listed \cup displaced)

LoadCovers ==
  /\ \A r \in Of(generation) : r.kind = "page" => r.page = lastPage + 1
  /\ \/ totalPages = 0 /\ lastPage = 0 /\ \A r \in Of(generation) : r.kind = "page"
     \/ totalPages # 0
  /\ \A d \in Missing : ToCome(d) \/ InFlight(d)

CompleteInv ==
  clean => /\ connected /\ Listed \subseteq coreDrivers
           /\ IF Running THEN LoadCovers ELSE Missing = {}

\* A list of drivers is a finite list of numbers.
LEMMA ListIsFinite ==
  ASSUME NEW S \in SUBSET Drivers
  PROVE  S \in SUBSET Nat /\ IsFiniteSet(S) /\ Cardinality(S) \in Nat
<1>1. Drivers \subseteq Nat
  BY IntegrationDriversAssumption DEF Drivers
<1> QED BY <1>1, DriversAreFinite

\* What changes neither the drivers, nor what is listed, nor what the load has in flight.
LEMMA SameCover ==
  ASSUME CompleteInv,
         UNCHANGED <<coreDrivers, displaced, connected, clean>>,
         UNCHANGED <<lastPage, totalPages, generation, ends>>,
         Listed' = Listed, Of(generation)' = Of(generation)
  PROVE  CompleteInv'
<1>1. Running' <=> Running
  BY DEF Running
<1>2. Missing' = Missing /\ \A d : ToCome(d)' <=> ToCome(d)
  BY DEF Missing, ToCome, Coming
<1>3. LoadCovers => LoadCovers'
  BY <1>2 DEF LoadCovers, InFlight
<1> QED BY <1>1, <1>2, <1>3 DEF CompleteInv

LEMMA FailureKeepsComplete == ASSUME ~clean' PROVE CompleteInv'
  BY DEF CompleteInv

LEMMA PageDoneFails == ASSUME NEW rest, PageDone(rest, FALSE) PROVE ~clean'
  BY DEF PageDone, GetIntegrationDrivers, LoadGoesOn, LoadEnded

LEMMA GetAllKeepsComplete ==
  ASSUME IInv, NEW waiting \in {0, 1}, GetAllIntegrationDrivers(waiting)
  PROVE  CompleteInv'
<1> DEFINE r == [kind |-> "page", page |-> 1, generation |-> generation']
<1>1. /\ generation' = generation + 1 /\ generation < MaxGeneration
      /\ drivers' = [d \in Drivers |-> "absent"] /\ totalPages' = 0 /\ lastPage' = 0
      /\ UNCHANGED core
      /\ \/ connected' /\ requests' = requests \cup {r} /\ LoadGoesOn(waiting, TRUE)
         \/ LoadEnded(waiting, FALSE)
  BY DEF GetAllIntegrationDrivers, GetIntegrationDrivers
<1>2. CASE LoadEnded(waiting, FALSE)
  BY <1>2, FailureKeepsComplete DEF LoadEnded
<1>3. CASE connected' /\ requests' = requests \cup {r} /\ LoadGoesOn(waiting, TRUE)
  <2>1. generation \in Nat /\ generation' \in Generations
    BY <1>1, IntegrationDriversAssumption DEF IInv, Generations
  <2>2. \A q \in requests : q.generation # generation'
    BY <1>1, <2>1, IntegrationDriversAssumption
    DEF IInv, LoadInv, LoadTypes, Bounded, PageRequest, DriverRequest, Generations
  <2>3. Of(generation)' = {r}
    BY <1>3, <2>2 DEF Of
  <2>4. Listed' = {}
    BY <1>1 DEF Listed
  <2>5. Running'
    <3>1. ends[generation'] = 0
      BY <1>1, <2>1 DEF IInv, LoadInv, LoadEndsOnce
    <3> QED BY <1>1, <1>3, <2>1, <3>1 DEF Running, LoadGoesOn
  <2>6. \A d \in coreDrivers : Rank(coreDrivers, d) \in Nat \ {0}
    BY ListIsFinite, RankBounds DEF IInv, ListTypes
  <2>7. \A d \in coreDrivers' : ToCome(d)'
    <3>1. lastPage' * PageSize = 0
      BY <1>1, PageSizeAssumption
    <3> QED BY <1>1, <2>6, <3>1 DEF ToCome, Coming, core
  <2>8. LoadCovers'
    BY <1>1, <2>3, <2>7 DEF LoadCovers, Missing
  <2> QED BY <1>3, <2>4, <2>5, <2>8 DEF CompleteInv
<1> QED BY <1>1, <1>2, <1>3

LEMMA DropsKeepsComplete ==
  ASSUME CompleteInv, NEW r \in requests, r.generation # generation, Drops(r),
         UNCHANGED <<core, displaced, connected, drivers, generation>>
  PROVE  CompleteInv'
<1>1. Of(generation)' = Of(generation) /\ Listed' = Listed
  BY DEF Drops, Of, Listed
<1> QED BY <1>1, SameCover DEF Drops, core

\* At least one page is counted.
LEMMA CountIsPositive == ASSUME NEW n \in Nat PROVE PageCount(n) \in Nat \ {0}
<1>1. PageCount(n) \in Nat /\ n <= PageCount(n) * PageSize /\ (n = 0 => PageCount(n) = 1)
  BY PagesSuffice, PageSizeAssumption
<1>2. PageCount(n) = 0 => PageCount(n) * PageSize = 0
  BY PageSizeAssumption
<1> QED BY <1>1, <1>2

LEMMA PageAnsweredKeepsComplete ==
  ASSUME IInv, CompleteInv, NEW r \in requests, PageAnswered(r)
  PROVE  CompleteInv'
<1> DEFINE items == PageOf(coreDrivers, r.page)
           rest == requests \ {r}
<1>1. /\ r.kind = "page" /\ connected
      /\ UNCHANGED <<core, coreDrivers, displaced, connected, drivers, generation>>
  BY DEF PageAnswered, core
<1>2. CASE r.generation # generation
  BY <1>1, <1>2, DropsKeepsComplete DEF PageAnswered
<1>3. CASE r.generation = generation
  <2> SUFFICES ASSUME clean' PROVE CompleteInv'
    BY FailureKeepsComplete
  <2>1. /\ totalPages' = IF totalPages = 0 THEN PageCount(Cardinality(coreDrivers)) ELSE totalPages
        /\ lastPage' = r.page
        /\ IF items = {} THEN requests' = rest /\ LoadEnded(starts, clean) /\ UNCHANGED pending
           ELSE GetPageDrivers(rest, items)
    BY <1>3 DEF PageAnswered
  <2>2. r \in Of(generation) /\ Of(generation) \subseteq {r} /\ Running
    BY <1>1, <1>3, PageIsAlone DEF Of, IInv, LoadInv, PendingIsInFlight
  <2>3. clean
    BY <2>1 DEF LoadEnded, GetPageDrivers, PageDone, GetIntegrationDrivers, LoadGoesOn
  <2>4. /\ r.page = lastPage + 1 /\ lastPage \in Nat
        /\ Listed \subseteq coreDrivers
        /\ \A d \in Missing : ToCome(d)
    BY <1>1, <2>1, <2>2, <2>3
    DEF CompleteInv, LoadCovers, InFlight, IInv, LoadInv, LoadTypes
  <2>5. Listed' = Listed /\ Missing' = Missing
    BY <1>1 DEF Listed, Missing
  <2>6. /\ coreDrivers \in SUBSET Nat /\ IsFiniteSet(coreDrivers)
        /\ Cardinality(coreDrivers) \in Nat
        /\ \A d \in coreDrivers : Rank(coreDrivers, d) \in 1..Cardinality(coreDrivers)
    BY ListIsFinite, RankBounds DEF IInv, ListTypes
  <2>9. totalPages' # 0 /\ \A d \in Missing : Rank(coreDrivers, d) <= totalPages' * PageSize
    <3>1. CASE totalPages = 0
      <4> DEFINE c == PageCount(Cardinality(coreDrivers))
      <4>1. c \in Nat \ {0} /\ Cardinality(coreDrivers) <= c * PageSize
        BY <2>6, CountIsPositive, PagesSuffice
      <4>2. c * PageSize \in Nat /\ totalPages' = c
        BY <2>1, <3>1, <4>1, PageSizeAssumption
      <4> HIDE DEF c
      <4> QED BY <2>6, <4>1, <4>2 DEF Missing
    <3>2. CASE totalPages # 0
      BY <2>1, <2>4, <3>2 DEF ToCome, Coming
    <3> QED BY <3>1, <3>2
  <2> HIDE DEF items, rest
  <2>7. CASE items = {}
    <3>1. \A d \in coreDrivers : Rank(coreDrivers, d) <= lastPage * PageSize
      BY <2>4, <2>6, <2>7, EmptyPageIsLast DEF items
    <3>4. lastPage * PageSize \in Nat /\ \A d \in coreDrivers : Rank(coreDrivers, d) \in Nat
      BY <2>4, <2>6, PageSizeAssumption
    <3>2. Missing = {}
      BY <2>4, <3>1, <3>4 DEF ToCome, Coming, Missing
    <3>3. ~Running'
      BY <1>1, <2>1, <2>2, <2>7, IntegrationDriversAssumption
      DEF Running, LoadEnded, IInv, LoadInv, LoadTypes, Generations
    <3> QED BY <1>1, <2>4, <2>5, <3>2, <3>3 DEF CompleteInv
  <2>8. CASE items # {}
    <3>1. PICK sent \in SUBSET items :
            IF sent = {} THEN PageDone(rest, FALSE)
            ELSE /\ requests' = rest \cup DriverRequests(sent, generation)
                 /\ LoadGoesOn(starts, clean /\ sent = items)
      BY <2>1, <2>8 DEF GetPageDrivers, DriverRequests
    <3>2. sent # {} /\ sent = items /\ UNCHANGED ends
      BY <3>1, PageDoneFails DEF LoadGoesOn
    <3>3. Of(generation)' = DriverRequests(items, generation)
      BY <1>1, <2>2, <3>1, <3>2 DEF Of, DriverRequests, rest
    <3>4. ASSUME NEW d \in Missing PROVE ToCome(d)' \/ InFlight(d)'
      <4>1. d \in items \/ Rank(coreDrivers, d) > (lastPage + 1) * PageSize
        BY <2>4, <2>6, <3>4, NextPage DEF ToCome, Coming, items, Missing
      <4>2. CASE d \in items
        <5>1. [kind |-> "driver", driver |-> d, generation |-> generation]
                \in DriverRequests(items, generation)
          BY <4>2 DEF DriverRequests
        <5> QED BY <3>3, <5>1 DEF InFlight
      <4>3. CASE Rank(coreDrivers, d) > (lastPage + 1) * PageSize
        BY <1>1, <2>1, <2>4, <2>9, <4>3 DEF ToCome, Coming, Missing
      <4> QED BY <4>1, <4>2, <4>3
    <3>5. \A q \in DriverRequests(items, generation) : q.kind = "driver"
      BY DEF DriverRequests
    <3>6. LoadCovers'
      BY <1>1, <2>5, <2>9, <3>3, <3>4, <3>5 DEF LoadCovers
    <3>7. Running'
      BY <1>1, <2>2, <3>2 DEF Running
    <3> QED BY <1>1, <2>4, <2>5, <3>6, <3>7 DEF CompleteInv
  <2> QED BY <2>7, <2>8
<1> QED BY <1>2, <1>3

\* With no more than one driver to wait for, the request answered is the only one of its load.
LEMMA LastDriverIsAlone ==
  ASSUME IInv, NEW r \in requests, r.kind = "driver", r.generation = generation
  PROVE  Running /\ (~(pending - 1 > 0) => Of(generation) \subseteq {r})
<1>1. r \in Of(generation) /\ r \notin PageRequest
  BY DEF Of, PageRequest
<1>2. Running /\ pending = Cardinality(Of(generation)) /\ Of(generation) \subseteq requests
  BY <1>1 DEF IInv, LoadInv, PendingIsInFlight, Of
<1>3. IsFiniteSet(Of(generation))
  BY <1>2, FS_Subset DEF IInv, LoadInv, Bounded
<1> DEFINE left == Of(generation) \ {r}
<1>4. IsFiniteSet(left) /\ Cardinality(left) = pending - 1 /\ Cardinality(left) \in Nat
  BY <1>1, <1>2, <1>3, FS_RemoveElement, FS_CardinalityType
<1>5. ~(pending - 1 > 0) => left = {}
  BY <1>4, FS_EmptySet
<1> QED BY <1>2, <1>5

LEMMA DriverAnsweredKeepsComplete ==
  ASSUME IInv, CompleteInv, NEW r \in requests, DriverAnswered(r)
  PROVE  CompleteInv'
<1> DEFINE rest == requests \ {r}
<1>1. /\ r.kind = "driver" /\ connected /\ r.driver \in coreDrivers
      /\ UNCHANGED <<core, coreDrivers, displaced, connected, generation>>
      /\ drivers' = IF r.generation = generation THEN Appended(r.driver) ELSE drivers
      /\ DriverSettled(r, clean)
  BY DEF DriverAnswered, core
<1>2. CASE r.generation # generation
  BY <1>1, <1>2, DropsKeepsComplete DEF DriverSettled
<1>3. CASE r.generation = generation
  <2> SUFFICES ASSUME clean' PROVE CompleteInv'
    BY FailureKeepsComplete
  <2>1. /\ pending' = pending - 1 /\ UNCHANGED <<totalPages, lastPage>>
        /\ IF pending' > 0 THEN requests' = rest /\ LoadGoesOn(starts, clean)
           ELSE PageDone(rest, clean)
    BY <1>1, <1>3 DEF DriverSettled
  <2>2. Running /\ (~(pending' > 0) => Of(generation) \subseteq {r})
    BY <1>1, <1>3, <2>1, LastDriverIsAlone
  <2>3. clean
    BY <2>1 DEF LoadEnded, PageDone, GetIntegrationDrivers, LoadGoesOn
  <2>4. Listed' = Listed \cup {r.driver} /\ Missing' = Missing \ {r.driver}
    BY <1>1, <1>3 DEF Listed, Appended, IInv, ListTypes, States, Missing
  <2>5. /\ Listed' \subseteq coreDrivers' /\ lastPage \in Nat
        /\ totalPages \in Nat \ {0}
        /\ \A q \in Of(generation) : q.kind = "page" => q.page = lastPage + 1
        /\ \A d \in Missing : ToCome(d) \/ InFlight(d)
    BY <1>1, <1>3, <2>2, <2>3, <2>4
    DEF CompleteInv, LoadCovers, Of, IInv, LoadInv, LoadTypes
  <2>6. \A d : (ToCome(d)' <=> ToCome(d))
    BY <1>1, <2>1 DEF ToCome, Coming
  <2>7. CASE pending' > 0
    <3>1. requests' = rest /\ UNCHANGED ends
      BY <2>1, <2>7 DEF LoadGoesOn
    <3>2. Of(generation)' = Of(generation) \ {r}
      BY <1>1, <3>1 DEF Of
    <3>3. \A d \in Missing' : ToCome(d)' \/ InFlight(d)'
      BY <2>4, <2>5, <2>6, <3>2 DEF InFlight
    <3>4. LoadCovers' /\ Running'
      BY <1>1, <2>1, <2>2, <2>5, <3>1, <3>2, <3>3 DEF LoadCovers, Running
    <3> QED BY <1>1, <2>5, <3>4 DEF CompleteInv
  <2>8. CASE ~(pending' > 0)
    <3>1. Of(generation) \subseteq {r} /\ PageDone(rest, clean)
      BY <2>1, <2>2, <2>8
    <3>2. \A d \in Missing' : ToCome(d)
      BY <2>4, <2>5, <3>1 DEF InFlight
    <3>3. CASE lastPage' < totalPages'
      <4> DEFINE new == [kind |-> "page", page |-> lastPage' + 1, generation |-> generation']
      <4>1. requests' = rest \cup {new} /\ UNCHANGED ends
        BY <3>1, <3>3 DEF PageDone, GetIntegrationDrivers, LoadGoesOn, LoadEnded
      <4>2. Of(generation)' = {new}
        BY <1>1, <3>1, <4>1 DEF Of
      <4>3. LoadCovers' /\ Running'
        BY <1>1, <2>1, <2>2, <2>5, <2>6, <3>2, <4>1, <4>2 DEF LoadCovers, Running
      <4> QED BY <1>1, <2>5, <4>3 DEF CompleteInv
    <3>4. CASE ~(lastPage' < totalPages')
      <4>1. LoadEnded(starts, clean)
        BY <3>1, <3>4 DEF PageDone
      <4>2. \A d \in coreDrivers : Rank(coreDrivers, d) \in Nat
        <5>1. /\ coreDrivers \in SUBSET Nat /\ IsFiniteSet(coreDrivers)
              /\ Cardinality(coreDrivers) \in Nat
          BY ListIsFinite DEF IInv, ListTypes
        <5> QED BY <5>1, RankBounds
      <4>3. totalPages * PageSize <= lastPage * PageSize
            /\ totalPages * PageSize \in Nat /\ lastPage * PageSize \in Nat
        BY <2>1, <2>5, <3>4, PageSizeAssumption
      <4>5. Missing' = {}
        BY <2>4, <2>5, <3>2, <4>2, <4>3 DEF ToCome, Coming
      <4>6. ~Running'
        BY <1>1, <2>2, <4>1, IntegrationDriversAssumption
        DEF Running, LoadEnded, IInv, LoadInv, LoadTypes, Generations
      <4> QED BY <1>1, <2>5, <4>5, <4>6 DEF CompleteInv
    <3> QED BY <3>3, <3>4
  <2> QED BY <2>7, <2>8
<1> QED BY <1>2, <1>3

LEMMA FailuresKeepComplete ==
  ASSUME CompleteInv, NEW r \in requests, PageFails(r) \/ DriverFails(r)
  PROVE  CompleteInv'
<1>1. UNCHANGED <<core, displaced, connected, drivers, generation>>
  BY DEF PageFails, DriverFails
<1>2. CASE r.generation # generation
  BY <1>1, <1>2, DropsKeepsComplete DEF PageFails, DriverFails, DriverSettled
<1>3. CASE r.generation = generation
  <2>1. ~clean'
    BY <1>3, PageDoneFails DEF PageFails, DriverFails, DriverSettled, LoadEnded, LoadGoesOn
  <2> QED BY <2>1, FailureKeepsComplete
<1> QED BY <1>2, <1>3

\* States are shown of what is listed, and stay what they are for the list.
LEMMA StatesKeepComplete ==
  ASSUME IInv, CompleteInv, \/ StatusAnswered \/ StatusFails
                            \/ \E d \in Drivers, state \in States : DriverStateChanged(d, state)
  PROVE  CompleteInv'
<1>1. /\ UNCHANGED <<coreDrivers, displaced, connected, clean, requests>>
      /\ UNCHANGED <<lastPage, totalPages, generation, ends>>
  BY DEF StatusAnswered, StatusFails, DriverStateChanged, core, loadVars
<1>2. Listed' = Listed
  <2>1. CASE StatusAnswered
    <3>1. PICK known \in SUBSET Listed : \E reported \in [known -> States] :
            drivers' = [d \in Drivers |-> IF d \in known THEN reported[d] ELSE drivers[d]]
      BY <2>1 DEF StatusAnswered
    <3> QED BY <3>1 DEF Listed, States
  <2>2. CASE StatusFails
    BY <2>2 DEF StatusFails, Listed
  <2>3. ASSUME NEW d \in Drivers, NEW state \in States, DriverStateChanged(d, state)
        PROVE  Listed' = Listed
    BY <2>3 DEF DriverStateChanged, Listed, States, IInv, ListTypes
  <2> QED BY <2>1, <2>2, <2>3
<1>3. Of(generation)' = Of(generation)
  BY <1>1 DEF Of
<1> QED BY <1>1, <1>2, <1>3, SameCover

\* The core changes while the load runs: what is no longer on a page to come is displaced.
LEMMA ChangesKeepComplete ==
  ASSUME IInv, CompleteInv, NEW d \in Drivers, DriverAdded(d) \/ DriverDeleted(d)
  PROVE  CompleteInv'
<1>1. /\ UNCHANGED <<connected, clean, generation, ends, requests, lastPage, totalPages>>
      /\ NoteDisplaced
  BY DEF DriverAdded, DriverDeleted, loadVars
<1> SUFFICES ASSUME clean' PROVE CompleteInv'
  BY FailureKeepsComplete
<1>2. connected /\ Listed \subseteq coreDrivers /\ coreDrivers \subseteq Drivers
  BY <1>1 DEF CompleteInv, IInv, ListTypes
<1>3. \/ Listed' = Listed \cup {d} /\ coreDrivers' = coreDrivers \cup {d}
      \/ Listed' = Listed \ {d} /\ coreDrivers' = coreDrivers \ {d}
  BY <1>2 DEF DriverAdded, DriverDeleted, Appended, Listed, IInv, ListTypes, States
<1>4. Running' <=> Running
  BY <1>1 DEF Running
<1>5. Missing' \subseteq Missing /\ \A e \in Missing' : ToCome(e) => ToCome(e)'
  BY <1>1, <1>3 DEF Missing, NoteDisplaced, ToCome, Coming
<1>6. \A e : InFlight(e)' <=> InFlight(e)
  BY <1>1 DEF InFlight, Of
<1>7. LoadCovers => LoadCovers'
  BY <1>1, <1>5, <1>6 DEF LoadCovers, Of
<1> QED BY <1>1, <1>2, <1>3, <1>4, <1>5, <1>7 DEF CompleteInv

LEMMA NextKeepsComplete == IInv /\ CompleteInv /\ [Next]_vars => CompleteInv'
<1> SUFFICES ASSUME IInv, CompleteInv, [Next]_vars PROVE CompleteInv'
  OBVIOUS
<1>1. CASE CoreConnected \/ OpenSettings \/ StartDriverDiscovery
  <2>1. \E waiting \in {0, 1} : GetAllIntegrationDrivers(waiting)
    BY <1>1 DEF CoreConnected, OpenSettings, StartDriverDiscovery, IInv, LoadInv, Bounded
  <2> QED BY <2>1, GetAllKeepsComplete
<1>2. CASE CoreDisconnected
  BY <1>2, FailureKeepsComplete DEF CoreDisconnected
<1>3. ASSUME NEW r \in requests,
             PageAnswered(r) \/ PageFails(r) \/ DriverAnswered(r) \/ DriverFails(r)
      PROVE  CompleteInv'
  BY <1>3, PageAnsweredKeepsComplete, DriverAnsweredKeepsComplete, FailuresKeepComplete
<1>4. CASE \/ StatusAnswered \/ StatusFails
           \/ \E d \in Drivers, state \in States : DriverStateChanged(d, state)
  BY <1>4, StatesKeepComplete
<1>5. CASE \E d \in Drivers : DriverAdded(d) \/ DriverDeleted(d)
  BY <1>5, ChangesKeepComplete
<1>6. CASE UNCHANGED vars
  <2>1. /\ UNCHANGED <<coreDrivers, displaced, connected, clean>>
        /\ UNCHANGED <<lastPage, totalPages, generation, ends>>
        /\ Listed' = Listed /\ Of(generation)' = Of(generation)
    BY <1>6 DEF vars, core, loadVars, Listed, Of
  <2> QED BY <2>1, SameCover
<1> QED BY <1>1, <1>2, <1>3, <1>4, <1>5, <1>6 DEF Next

-----------------------------------------------------------------------------

LEMMA NextKeepsIInv == IInv /\ [Next]_vars => IInv'
<1> SUFFICES ASSUME IInv, [Next]_vars PROVE IInv' OBVIOUS
<1>1. CASE CoreConnected \/ OpenSettings \/ StartDriverDiscovery
  BY <1>1, BeginningsKeepIInv
<1>2. CASE CoreDisconnected
  BY <1>2, CoreDisconnectedKeepsIInv
<1>3. ASSUME NEW r \in requests,
             PageAnswered(r) \/ PageFails(r) \/ DriverAnswered(r) \/ DriverFails(r)
      PROVE  IInv'
  BY <1>3, PageAnsweredKeepsIInv, PageFailsKeepsIInv, DriverAnsweredKeepsIInv,
     DriverFailsKeepsIInv
<1>4. CASE StatusAnswered \/ StatusFails
  BY <1>4, StatusAnsweredKeepsIInv, StatusFailsKeepsIInv
<1>5. CASE \E d \in Drivers, state \in States : DriverStateChanged(d, state)
  BY <1>5, DriverStateChangedKeepsIInv
<1>6. CASE \E d \in Drivers : DriverAdded(d) \/ DriverDeleted(d)
  BY <1>6, DriverAddedKeepsIInv, DriverDeletedKeepsIInv
<1>7. CASE UNCHANGED vars
  <2>1. UNCHANGED <<core, connected, drivers, errors, statusLoads, clean, displaced, loadVars>>
    BY <1>7 DEF vars
  <2>2. ListTypes' /\ ErrorsFollowStates'
    BY <2>1 DEF IInv, ListTypes, ErrorsFollowStates, Listed, core
  <2>3. generation' \in 0..MaxGeneration /\ LoadInv'
    BY <2>1, LoadUntouched DEF IInv, LoadInv, LoadTypes
  <2>4. QED
    BY <2>2, <2>3 DEF IInv
<1>8. QED
  BY <1>1, <1>2, <1>3, <1>4, <1>5, <1>6, <1>7 DEF Next

LEMMA IInvHolds == Spec => []IInv
  BY InitHolds, NextKeepsIInv, PTL DEF Spec

(***************************************************************************)
(* The list and its load are well typed, for every number of drivers, page *)
(* size and bound.                                                         *)
(***************************************************************************)
THEOREM TypeCorrect == Spec => []TypeOK
  BY IInvHolds, InvariantParts, PTL

(***************************************************************************)
(* The counter of outstanding drivers is exact, whatever answers of earlier *)
(* loads arrive late.                                                      *)
(***************************************************************************)
THEOREM PendingIsExact == Spec => []PendingIsInFlight
  BY IInvHolds, InvariantParts, PTL

(***************************************************************************)
(* No load reports its end twice, and none that was replaced reports it    *)
(* in place of its successor.                                              *)
(***************************************************************************)
THEOREM EachLoadEndsOnce == Spec => []LoadEndsOnce
  BY IInvHolds, InvariantParts, PTL

(***************************************************************************)
(* A waiting discovery has a load that will start it, and is started once. *)
(***************************************************************************)
THEOREM DiscoveryStartsOnce == Spec => []StartIsServedOnce
  BY IInvHolds, InvariantParts, PTL

(***************************************************************************)
(* The list of drivers in error is that of the drivers shown in error.     *)
(***************************************************************************)
THEOREM ErrorListIsCurrent == Spec => []ErrorsFollowStates
  BY IInvHolds, InvariantParts, PTL

(***************************************************************************)
(* A load without failures ends with drivers of the core only, and with    *)
(* all of them but those displaced between its pages, whatever came and    *)
(* went meanwhile, for every page size and number of pages.                *)
(***************************************************************************)
THEOREM LoadsAreComplete == Spec => []CleanLoadIsComplete
<1>1. Init => CompleteInv
  BY DEF Init, CompleteInv
<1>2. Spec => []CompleteInv
  BY <1>1, IInvHolds, NextKeepsComplete, PTL DEF Spec
<1>3. CompleteInv => CleanLoadIsComplete
  BY DEF CompleteInv, CleanLoadIsComplete, Missing
<1> QED BY <1>2, <1>3, PTL

=============================================================================
