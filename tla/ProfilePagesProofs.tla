-------------------------- MODULE ProfilePagesProofs --------------------------
(***************************************************************************)
(* Safety of the profile, pages and groups shown for any number of them    *)
(* and any number of changes, inputs and faults.                           *)
(*                                                                         *)
(* What the UI shows lags behind the core by the messages on their way, so *)
(* the invariants speak of these: what an answer says of the profile that  *)
(* is active (AgreeInv), that nothing tells of a page before it is told of *)
(* as new (OrderInv), that a load is the newest one for the profile shown  *)
(* (NewestInv), that a page shown is not told of as new (ScreenInv), that  *)
(* each message agrees with the core at its time (InboxInv), and that what *)
(* is loaded is right or will be (GroupsInv, PagesInv).  Each invariant is *)
(* inductive relative to those before it.                                  *)
(***************************************************************************)
EXTENDS ProfilePages, SequenceTheorems, FiniteSetTheorems, WellFoundedInduction, TLAPS

Whats == {"pages", "groups"}
Contents == UNION {[S -> Versions] : S \in SUBSET Items}
ItemEvents ==
  [type : Whats, item : Items, version : {Absent} \cup Versions, isNew : BOOLEAN]
ProfileEvents == [type : {"profileAdded", "profileDeleted"}, profile : Profiles]
Failures == [type : {"answer"}, request : Request, ok : {FALSE}]
Successes ==
  [type : {"answer"}, request : Request, ok : {TRUE},
   data : Profiles \cup Items \cup Contents \cup {None}]
Messages == ItemEvents \cup ProfileEvents \cup Failures \cup Successes

\* What a request is about.
OfKind(r) ==
  /\ r.kind \in {"profile", "switch", "groups"} => r.of \in Profiles
  /\ r.kind = "pages" => r.of \in Profiles \cup {None}
  /\ r.kind = "update" => r.of \in Items

Updates(rs) == {r \in rs : r.kind = "update"}

IsAnswer(m) == m.type = "answer"

\* A request id is handed out once.
LinkTyped(rs, hs, next) ==
  /\ rs \subseteq Request /\ hs \subseteq Request /\ next \in Nat \ {0}
  /\ \A r \in rs \cup hs : OfKind(r) /\ r.id < next
  /\ \A r, s \in rs \cup hs : r.id = s.id => r = s

CoreTyped ==
  /\ core \in [profiles : SUBSET Profiles, active : Profiles \cup {None},
               pages : [Items -> {Absent} \cup Versions],
               groups : [Items -> {Absent} \cup Versions]]
  /\ deleted \subseteq Profiles /\ removed \subseteq Whats \X Items /\ version \in Versions

Rows == [page : Items, version : {Edited} \cup Versions]

UiTyped ==
  /\ current \in Profiles \cup {None} /\ shown \in Profiles \cup {None}
  /\ pages \in Seq(Rows)
  /\ pagesRequest \in Nat /\ groupsRequest \in Nat
  /\ groups \in [Items -> {Absent} \cup Versions] /\ groupProfile \in Profiles \cup {None}
  /\ loaded \subseteq {"pages", "groups"}
  /\ profileLoad \in {"none", "loading", "overlapping", "done", "failed"}
  /\ inDoubt \in BOOLEAN

BoundTyped == connected \in BOOLEAN /\ inputs \in 0..MaxInputs /\ faults \in 0..MaxFaults

\* Every version is that of a change in the core, or of an input of the user.
BoundInv ==
  /\ IsFiniteSet(requests)
  /\ Cardinality(Updates(requests)) <= inputs
  /\ version + Cardinality(Updates(requests)) <= MaxChanges + 1 + inputs

LinkInv == ~connected => inbox = <<>> /\ requests = {} /\ loaded = {}

CoreInv ==
  /\ core.profiles \cap deleted = {}
  /\ \A w \in Whats, i \in Items : core[w][i] # Absent => i[1] \in core.profiles
  /\ \A w \in Whats, i \in Items : <<w, i>> \in removed => i[1] \in core.profiles \cup deleted

\* A request is answered once: the requests of the answers on their way are over.
AnswersIn(box, rs, hs, next) ==
  /\ \A p \in DOMAIN box : IsAnswer(box[p]) =>
       /\ OfKind(box[p].request) /\ box[p].request.id < next
       /\ \A r \in rs : r.id # box[p].request.id
       /\ \A r \in hs : r.id = box[p].request.id => r = box[p].request
  /\ \A p, q \in DOMAIN box :
       IsAnswer(box[p]) /\ IsAnswer(box[q]) /\ box[p].request.id = box[q].request.id => p = q

AnswersInv == AnswersIn(inbox, requests, handlers, nextId)

\* What a successful answer says, whatever happened since.
Says(m) ==
  IsAnswer(m) /\ m.ok =>
    /\ m.request.kind = "active" => m.data \in Profiles
    /\ m.request.kind \in {"switch", "profile"} => m.data = m.request.of
    /\ m.request.kind \in Whats => m.data \in Contents

SaysInv == \A p \in DOMAIN inbox : Says(inbox[p])

TypeInv ==
  /\ CoreTyped /\ BoundTyped /\ LinkTyped(requests, handlers, nextId) /\ UiTyped
  /\ inbox \in Seq(Messages)

Base == TypeInv /\ BoundInv /\ LinkInv /\ CoreInv /\ AnswersInv /\ SaysInv

LEMMA TypeParts == TypeInv => TypeOK
BY DEF TypeInv, TypeOK, CoreTyped, BoundTyped, LinkTyped, UiTyped, Whats, Rows

-----------------------------------------------------------------------------
(* The steps                                                               *)

\* The UI takes a message and does nothing else to core and connection.
Takes == inbox # <<>> /\ inbox' = Tail(inbox) /\ UNCHANGED <<coreVars, connected, boundVars>>

\* The successful answer to request r is read.
Reads(r) ==
  /\ Takes /\ IsAnswer(Head(inbox)) /\ r = Head(inbox).request /\ r \in handlers
  /\ Head(inbox).ok

\* The failure of request r is noticed, by an answer or by the timeout.
Notices(r, isAnswer) ==
  /\ r \in handlers /\ UNCHANGED <<coreVars, connected, inputs>>
  /\ faults' \in 0..MaxFaults
  /\ \/ /\ isAnswer /\ Takes /\ IsAnswer(Head(inbox)) /\ r = Head(inbox).request
        /\ ~Head(inbox).ok
     \/ ~isAnswer /\ inbox' = inbox

\* An event of the type is received.
Hears(e, types) == Takes /\ e = Head(inbox) /\ e.type \in types

\* The message that is taken leads to nothing.
Ignores ==
  /\ Takes /\ IsAnswer(Head(inbox)) /\ Head(inbox).request \notin handlers
  /\ UNCHANGED <<linkVars, uiVars>>

UpdateDone(r) == Settle({r}) /\ UNCHANGED uiVars

UiStep ==
  \/ Ignores
  \/ \E r \in handlers :
       \/ Reads(r) /\ r.kind = "active" /\ ActiveAnswer(r, Head(inbox).data)
       \/ Reads(r) /\ r.kind = "switch" /\ SwitchAnswer(r, Head(inbox).data)
       \/ Reads(r) /\ r.kind = "profile" /\ ProfileAnswer(r, Head(inbox).data)
       \/ Reads(r) /\ r.kind = "pages" /\ PagesAnswer(r, Head(inbox).data)
       \/ Reads(r) /\ r.kind = "groups" /\ GroupsAnswer(r, Head(inbox).data)
       \/ Reads(r) /\ r.kind = "update" /\ UpdateDone(r)
       \/ \E isAnswer \in BOOLEAN : Notices(r, isAnswer) /\ Fails(r, isAnswer)
  \/ \E e \in ItemEvents : Hears(e, {"pages"}) /\ PageEvent(e)
  \/ \E e \in ItemEvents : Hears(e, {"groups"}) /\ GroupEvent(e)
  \/ \E e \in ProfileEvents : Hears(e, {"profileAdded"}) /\ ProfileAdded(e.profile)
  \/ \E e \in ProfileEvents : Hears(e, {"profileDeleted"}) /\ ProfileDeleted(e.profile)
  \/ \E p \in Profiles : UserSwitches(p)
  \/ \E i \in Items : UserEditsPage(i)

CoreStep ==
  \/ \E w \in Whats, i \in Items : CoreSetsItem(w, i)
  \/ \E p \in Profiles : CoreAddsProfile(p)
  \/ \E p \in Profiles : CoreDeletesProfile(p)
  \/ \E r \in requests : CoreAnswers(r)
  \/ \E r \in requests : CoreRefuses(r)

LEMMA MessageForms ==
  ASSUME NEW m \in Messages
  PROVE  /\ IsAnswer(m) => m.request \in Request /\ m.ok \in BOOLEAN
         /\ IsAnswer(m) => m \in Failures \cup Successes
         /\ m.type \in Whats => m \in ItemEvents
         /\ m.type \in {"profileAdded", "profileDeleted"} => m \in ProfileEvents
         /\ ~IsAnswer(m) => m.type \in Whats \cup {"profileAdded", "profileDeleted"}
  BY DEF Messages, ItemEvents, ProfileEvents, Failures, Successes, Whats, IsAnswer

LEMMA HeadTyped ==
  ASSUME NEW box \in Seq(Messages), box # <<>>
  PROVE  /\ Head(box) \in Messages /\ Head(box) = box[1] /\ Tail(box) \in Seq(Messages)
         /\ Len(box) \in Nat \ {0} /\ Len(Tail(box)) = Len(box) - 1
         /\ DOMAIN box = 1..Len(box) /\ DOMAIN Tail(box) = 1..(Len(box) - 1)
         /\ \A q \in 1..(Len(box) - 1) : Tail(box)[q] = box[q + 1]
<1>1. /\ Head(box) \in Messages /\ Tail(box) \in Seq(Messages) /\ Len(Tail(box)) = Len(box) - 1
      /\ \A q \in 1..Len(Tail(box)) : Tail(box)[q] = box[q + 1]
  BY HeadTailProperties
<1>2. Len(box) \in Nat \ {0} /\ DOMAIN box = 1..Len(box) /\ Head(box) = box[1]
  BY LenProperties, EmptySeq
<1>3. DOMAIN Tail(box) = 1..Len(Tail(box))
  BY <1>1, LenProperties
<1> QED BY <1>1, <1>2, <1>3

LEMMA AnswerCases ==
  ASSUME TypeInv, ReceiveAnswer
  PROVE  UiStep
<1> DEFINE m == Head(inbox)
           r == m.request
<1>1. Takes /\ IsAnswer(m)
  BY DEF ReceiveAnswer, Takes, IsAnswer
<1>2. m \in Messages
  BY <1>1, HeadTyped DEF TypeInv, Takes
<1>3. m.ok \in BOOLEAN /\ r \in Request /\ faults \in 0..MaxFaults
  BY <1>1, <1>2, MessageForms DEF TypeInv, BoundTyped
<1>4. r.kind \in Kinds
  BY <1>3 DEF Request
<1>5. CASE r \notin handlers
  BY <1>1, <1>5 DEF ReceiveAnswer, UiStep, Ignores
<1>6. CASE r \in handlers /\ m.ok
  <2>1. Succeeds(r, m.data) /\ Reads(r)
    BY <1>1, <1>6 DEF ReceiveAnswer, Reads
  <2>2. \/ r.kind = "active" /\ ActiveAnswer(r, m.data)
        \/ r.kind = "switch" /\ SwitchAnswer(r, m.data)
        \/ r.kind = "profile" /\ ProfileAnswer(r, m.data)
        \/ r.kind = "pages" /\ PagesAnswer(r, m.data)
        \/ r.kind = "groups" /\ GroupsAnswer(r, m.data)
        \/ r.kind = "update" /\ UpdateDone(r)
    <3> HIDE DEF r, m
    <3> QED BY <1>4, <2>1 DEF Succeeds, Kinds, UpdateDone
  <2> HIDE DEF r
  <2> QED BY <1>6, <2>1, <2>2 DEF UiStep
<1>7. CASE r \in handlers /\ ~m.ok
  <2>1. Fails(r, TRUE)
    BY <1>7 DEF ReceiveAnswer
  <2>2. Notices(r, TRUE)
    BY <1>1, <1>3, <1>7 DEF Notices, Takes, boundVars
  <2> QED BY <1>7, <2>1, <2>2 DEF UiStep
<1> QED BY <1>3, <1>5, <1>6, <1>7

LEMMA EventCases ==
  ASSUME TypeInv, ReceiveEvent
  PROVE  UiStep
<1> DEFINE e == Head(inbox)
<1>1. Takes /\ ~IsAnswer(e)
  BY DEF ReceiveEvent, Takes, IsAnswer
<1>2. e \in Messages
  BY <1>1, HeadTyped DEF TypeInv, Takes
<1>3. /\ e.type \in Whats => e \in ItemEvents
      /\ e.type \in {"profileAdded", "profileDeleted"} => e \in ProfileEvents
      /\ e.type \in {"pages", "groups", "profileAdded", "profileDeleted"}
  BY <1>1, <1>2, MessageForms DEF Whats
<1>4. \/ e.type = "pages" /\ PageEvent(e)
      \/ e.type = "groups" /\ GroupEvent(e)
      \/ e.type = "profileAdded" /\ ProfileAdded(e.profile)
      \/ e.type = "profileDeleted" /\ ProfileDeleted(e.profile)
  <2>1. CASE e.type \in Whats
    BY <2>1 DEF ReceiveEvent, Whats
  <2>2. CASE e.type \in {"profileAdded", "profileDeleted"}
    BY <2>2 DEF ReceiveEvent
  <2> QED BY <1>3, <2>1, <2>2 DEF Whats
<1>5. \A types : e.type \in types => Hears(e, types)
  BY <1>1 DEF Hears
<1> HIDE DEF e
<1> QED BY <1>3, <1>4, <1>5 DEF UiStep, Whats

LEMMA NextCases ==
  ASSUME TypeInv, [Next]_vars
  PROVE  UNCHANGED vars \/ CoreStep \/ UiStep \/ CoreDisconnected \/ CoreConnected
<1>1. ASSUME NEW r \in handlers, RequestTimeout(r)
      PROVE  UiStep
  <2>1. Notices(r, FALSE)
    BY <1>1, ProfilePagesAssumption DEF RequestTimeout, Notices, Fault, TypeInv, BoundTyped
  <2> QED BY <1>1, <2>1 DEF UiStep, RequestTimeout
<1> QED BY <1>1, AnswerCases, EventCases DEF Next, CoreStep, UiStep, Whats

-----------------------------------------------------------------------------
(* Requests and answers                                                    *)

Call(id, kind, of) == [id |-> id, kind |-> kind, of |-> of]

\* The requests of a step, after the handlers in settled ran.
Links(settled, new) ==
  /\ new \subseteq Request /\ IsFiniteSet(new) /\ nextId' \in Nat
  /\ nextId' >= nextId /\ (~connected => new = {})
  /\ \A r \in new : OfKind(r) /\ r.id >= nextId /\ r.id < nextId'
  /\ \A r, s \in new : r.id = s.id => r = s
  /\ requests' = requests \cup new
  /\ handlers' = (handlers \ settled) \cup new

Sent1(kind, of) == IF connected THEN {Call(nextId, kind, of)} ELSE {}
Sent2(k1, of1, k2, of2) ==
  IF connected THEN {Call(nextId, k1, of1), Call(nextId + 1, k2, of2)} ELSE {}

LEMMA NothingSent ==
  ASSUME NEW settled, Settle(settled), nextId \in Nat \ {0}
  PROVE  Links(settled, {}) /\ nextId' = nextId
<1>1. nextId' = nextId /\ requests' = requests /\ handlers' = handlers \ settled
  <2> DEFINE calls == <<>>
  <2>1. Len(calls) = 0 /\ DOMAIN calls = {}
    OBVIOUS
  <2>2. Send(calls, settled)
    BY DEF Settle
  <2> HIDE DEF calls
  <2>3. {[id |-> nextId + n - 1, kind |-> calls[n][1], of |-> calls[n][2]] : n \in DOMAIN calls}
          = {}
    BY <2>1
  <2>4. nextId + Len(calls) = nextId
    BY <2>1
  <2> QED BY <2>2, <2>3, <2>4 DEF Send
<1>2. IsFiniteSet({})
  BY FS_EmptySet
<1> QED BY <1>1, <1>2 DEF Links

LEMMA CallTyped ==
  ASSUME NEW id \in Nat \ {0}, NEW kind \in Kinds, NEW of \in Profiles \cup Items \cup {None}
  PROVE  /\ Call(id, kind, of) \in Request /\ Call(id, kind, of).id = id
         /\ Call(id, kind, of).kind = kind /\ Call(id, kind, of).of = of
  BY DEF Call, Request

LEMMA OneSent ==
  ASSUME NEW settled, NEW kind \in Kinds, NEW of \in Profiles \cup Items \cup {None},
         Send(<<<<kind, of>>>>, settled), nextId \in Nat \ {0}, OfKind(Call(nextId, kind, of))
  PROVE  /\ Links(settled, Sent1(kind, of))
         /\ nextId' = IF connected THEN nextId + 1 ELSE nextId
<1> DEFINE calls == <<<<kind, of>>>>
           c == Call(nextId, kind, of)
<1>1. Len(calls) = 1 /\ DOMAIN calls = {1} /\ calls[1][1] = kind /\ calls[1][2] = of
  OBVIOUS
<1>2. Send(calls, settled)
  OBVIOUS
<1>3. c \in Request /\ c.id = nextId
  BY CallTyped
<1>4. {[id |-> nextId + n - 1, kind |-> calls[n][1], of |-> calls[n][2]] : n \in DOMAIN calls}
        = {c}
  BY <1>1 DEF Call
<1>5. IF connected
      THEN nextId' = nextId + 1 /\ requests' = requests \cup {c}
           /\ handlers' = (handlers \ settled) \cup {c}
      ELSE nextId' = nextId /\ requests' = requests /\ handlers' = handlers \ settled
  <2> HIDE DEF c, calls
  <2> QED BY <1>1, <1>2, <1>4 DEF Send
<1>6. IsFiniteSet({c}) /\ IsFiniteSet({})
  BY FS_EmptySet, FS_Singleton
<1>7. OfKind(c)
  OBVIOUS
<1>8. Sent1(kind, of) = IF connected THEN {c} ELSE {}
  BY DEF Sent1
<1> HIDE DEF c, calls
<1> QED BY <1>3, <1>5, <1>6, <1>7, <1>8 DEF Links

LEMMA TwoSent ==
  ASSUME NEW settled, NEW k1 \in Kinds, NEW k2 \in Kinds,
         NEW of1 \in Profiles \cup Items \cup {None},
         NEW of2 \in Profiles \cup Items \cup {None},
         Send(<<<<k1, of1>>, <<k2, of2>>>>, settled), nextId \in Nat \ {0},
         OfKind(Call(nextId, k1, of1)), OfKind(Call(nextId + 1, k2, of2))
  PROVE  /\ Links(settled, Sent2(k1, of1, k2, of2))
         /\ nextId' = IF connected THEN nextId + 2 ELSE nextId
<1> DEFINE calls == <<<<k1, of1>>, <<k2, of2>>>>
           c == Call(nextId, k1, of1)
           d == Call(nextId + 1, k2, of2)
<1>1. /\ Len(calls) = 2 /\ DOMAIN calls = {1, 2}
      /\ calls[1] = <<k1, of1>> /\ calls[2] = <<k2, of2>>
  OBVIOUS
<1>2. Send(calls, settled)
  OBVIOUS
<1>3. c \in Request /\ c.id = nextId /\ d \in Request /\ d.id = nextId + 1
  BY CallTyped
<1>4. {[id |-> nextId + n - 1, kind |-> calls[n][1], of |-> calls[n][2]] : n \in DOMAIN calls}
        = {c, d}
  <2>1. /\ [id |-> nextId + 1 - 1, kind |-> calls[1][1], of |-> calls[1][2]] = c
        /\ [id |-> nextId + 2 - 1, kind |-> calls[2][1], of |-> calls[2][2]] = d
    BY <1>1 DEF Call
  <2> HIDE DEF calls, c, d
  <2> QED BY <1>1, <2>1
<1>5. IF connected
      THEN nextId' = nextId + 2 /\ requests' = requests \cup {c, d}
           /\ handlers' = (handlers \ settled) \cup {c, d}
      ELSE nextId' = nextId /\ requests' = requests /\ handlers' = handlers \ settled
  <2> HIDE DEF c, d, calls
  <2> QED BY <1>1, <1>2, <1>4 DEF Send
<1>6. IsFiniteSet({c, d}) /\ IsFiniteSet({})
  <2> HIDE DEF c, d
  <2>1. {c, d} = {c} \cup {d}
    OBVIOUS
  <2>2. IsFiniteSet({c}) /\ IsFiniteSet({d}) /\ IsFiniteSet({})
    BY FS_EmptySet, FS_Singleton
  <2> QED BY <2>1, <2>2, FS_Union
<1>7. OfKind(c) /\ OfKind(d)
  OBVIOUS
<1>8. Sent2(k1, of1, k2, of2) = IF connected THEN {c, d} ELSE {}
  BY DEF Sent2
<1> HIDE DEF c, d, calls
<1>9. /\ \A r \in {c, d} : OfKind(r) /\ r.id >= nextId /\ r.id < nextId + 2 /\ r \in Request
      /\ \A r, s \in {c, d} : r.id = s.id => r = s
  BY <1>3, <1>7
<1> QED BY <1>3, <1>5, <1>6, <1>8, <1>9 DEF Links

LEMMA LinksTyped ==
  ASSUME NEW settled, NEW new, Links(settled, new), LinkTyped(requests, handlers, nextId)
  PROVE  LinkTyped(requests', handlers', nextId')
<1>1. /\ nextId \in Nat \ {0} /\ nextId' \in Nat \ {0} /\ nextId' >= nextId
      /\ requests' \subseteq Request /\ handlers' \subseteq Request
      /\ requests' \cup handlers' \subseteq (requests \cup handlers) \cup new
  BY DEF Links, LinkTyped
<1>2. \A r \in (requests \cup handlers) \cup new : r.id \in Nat
  BY DEF Links, LinkTyped, Request
<1>3. ASSUME NEW r \in (requests \cup handlers) \cup new
      PROVE  OfKind(r) /\ r.id < nextId'
  BY <1>1, <1>2, <1>3 DEF Links, LinkTyped
<1>4. ASSUME NEW r \in (requests \cup handlers) \cup new,
             NEW s \in (requests \cup handlers) \cup new, r.id = s.id
      PROVE  r = s
  <2>1. r \in requests \cup handlers => r.id < nextId
    BY DEF LinkTyped
  <2>2. s \in requests \cup handlers => s.id < nextId
    BY DEF LinkTyped
  <2>3. r \in new => r.id >= nextId
    BY DEF Links
  <2>4. s \in new => s.id >= nextId
    BY DEF Links
  <2>5. r \in new <=> s \in new
    BY <1>1, <1>2, <1>4, <2>1, <2>2, <2>3, <2>4
  <2> QED BY <1>4, <2>5 DEF Links, LinkTyped
<1> QED BY <1>1, <1>3, <1>4 DEF LinkTyped

LEMMA LinksAnswers ==
  ASSUME NEW settled, NEW new, Links(settled, new), NEW box \in Seq(Messages),
         LinkTyped(requests, handlers, nextId), AnswersIn(box, requests, handlers, nextId)
  PROVE  AnswersIn(box, requests', handlers', nextId')
<1>1. ASSUME NEW p \in DOMAIN box, IsAnswer(box[p])
      PROVE  /\ OfKind(box[p].request) /\ box[p].request.id < nextId'
             /\ \A r \in requests' : r.id # box[p].request.id
             /\ \A r \in handlers' : r.id = box[p].request.id => r = box[p].request
  <2>1. box[p] \in Messages
    BY ElementOfSeq, LenProperties
  <2>2. box[p].request.id \in Nat /\ box[p].request.id < nextId /\ OfKind(box[p].request)
    BY <1>1, <2>1, MessageForms DEF AnswersIn, Request
  <2>3. \A r \in new : r.id # box[p].request.id
    BY <2>2 DEF Links, LinkTyped, Request
  <2>4. box[p].request.id < nextId'
    BY <2>2 DEF Links, LinkTyped
  <2> QED BY <1>1, <2>2, <2>3, <2>4 DEF Links, AnswersIn
<1> QED BY <1>1 DEF AnswersIn

LEMMA TailAnswers ==
  ASSUME NEW box \in Seq(Messages), box # <<>>, NEW rs, NEW hs, NEW next,
         AnswersIn(box, rs, hs, next)
  PROVE  AnswersIn(Tail(box), rs, hs, next)
<1> DEFINE rest == Tail(box)
           n == Len(box) - 1
<1>1. /\ n \in Nat /\ DOMAIN box = 1..(n + 1) /\ DOMAIN rest = 1..n
      /\ \A q \in 1..n : rest[q] = box[q + 1] /\ q + 1 \in 1..(n + 1)
  BY HeadTyped
<1> HIDE DEF rest, n
<1>2. ASSUME NEW p \in 1..n, NEW q \in 1..n, IsAnswer(rest[p]), IsAnswer(rest[q]),
             rest[p].request.id = rest[q].request.id
      PROVE  p = q
  <2>1. p + 1 \in DOMAIN box /\ q + 1 \in DOMAIN box /\ rest[p] = box[p + 1] /\ rest[q] = box[q + 1]
    BY <1>1
  <2>2. p + 1 = q + 1
    BY <1>2, <2>1 DEF AnswersIn
  <2> QED BY <2>2
<1>3. ASSUME NEW p \in 1..n, IsAnswer(rest[p])
      PROVE  /\ OfKind(rest[p].request) /\ rest[p].request.id < next
             /\ \A r \in rs : r.id # rest[p].request.id
             /\ \A r \in hs : r.id = rest[p].request.id => r = rest[p].request
  <2>1. p + 1 \in DOMAIN box /\ rest[p] = box[p + 1]
    BY <1>1
  <2> QED BY <1>3, <2>1 DEF AnswersIn
<1>4. AnswersIn(rest, rs, hs, next)
  BY <1>1, <1>2, <1>3 DEF AnswersIn
<1> QED BY <1>4 DEF rest

LEMMA TailSays ==
  ASSUME NEW box \in Seq(Messages), box # <<>>, \A p \in DOMAIN box : Says(box[p])
  PROVE  Says(Head(box)) /\ \A p \in DOMAIN Tail(box) : Says(Tail(box)[p])
<1>1. Head(box) = box[1] /\ 1 \in DOMAIN box
  BY HeadTyped
<1>2. ASSUME NEW p \in DOMAIN Tail(box)
      PROVE  Says(Tail(box)[p])
  <2>1. Tail(box)[p] = box[p + 1] /\ p + 1 \in DOMAIN box
    BY HeadTyped
  <2> QED BY <2>1
<1> QED BY <1>1, <1>2

LEMMA Appended ==
  ASSUME NEW box \in Seq(Messages), NEW m \in Messages
  PROVE  /\ Append(box, m) \in Seq(Messages) /\ Append(box, m) # <<>>
         /\ Len(box) \in Nat /\ Len(Append(box, m)) = Len(box) + 1
         /\ DOMAIN box = 1..Len(box) /\ DOMAIN Append(box, m) = 1..(Len(box) + 1)
         /\ \A q \in 1..Len(box) : Append(box, m)[q] = box[q]
         /\ Append(box, m)[Len(box) + 1] = m
  BY AppendProperties, LenProperties

LEMMA AppendSays ==
  ASSUME NEW box \in Seq(Messages), \A p \in DOMAIN box : Says(box[p]),
         NEW m \in Messages, Says(m)
  PROVE  \A p \in DOMAIN Append(box, m) : Says(Append(box, m)[p])
  BY Appended

\* An event, or the answer to a request that is over then.
LEMMA AppendAnswers ==
  ASSUME NEW box \in Seq(Messages), NEW m \in Messages, NEW rs, NEW hs, NEW next, NEW left,
         LinkTyped(rs, hs, next), AnswersIn(box, rs, hs, next), left \subseteq rs,
         IsAnswer(m) => m.request \in rs \ left
  PROVE  AnswersIn(Append(box, m), left, hs, next)
<1> DEFINE new == Append(box, m)
           n == Len(box)
<1>1. /\ n \in Nat /\ DOMAIN box = 1..n /\ DOMAIN new = 1..(n + 1)
      /\ \A q \in 1..n : new[q] = box[q]
      /\ new[n + 1] = m
      /\ \A q \in 1..(n + 1) : q \in 1..n \/ q = n + 1
  BY Appended
<1> HIDE DEF new, n
<1>2. IsAnswer(m) =>
        /\ OfKind(m.request) /\ m.request.id < next
        /\ \A r \in left : r.id # m.request.id
        /\ \A r \in hs : r.id = m.request.id => r = m.request
        /\ \A p \in 1..n : IsAnswer(box[p]) => box[p].request.id # m.request.id
  BY <1>1 DEF LinkTyped, AnswersIn
<1>3. ASSUME NEW p \in 1..(n + 1), IsAnswer(new[p])
      PROVE  /\ OfKind(new[p].request) /\ new[p].request.id < next
             /\ \A r \in left : r.id # new[p].request.id
             /\ \A r \in hs : r.id = new[p].request.id => r = new[p].request
  <2>1. CASE p \in 1..n
    BY <1>1, <1>3, <2>1 DEF AnswersIn
  <2>2. CASE p = n + 1
    BY <1>1, <1>2, <1>3, <2>2
  <2> QED BY <1>1, <2>1, <2>2
<1>4. ASSUME NEW p \in 1..(n + 1), NEW q \in 1..(n + 1), IsAnswer(new[p]), IsAnswer(new[q]),
             new[p].request.id = new[q].request.id
      PROVE  p = q
  <2>1. CASE p \in 1..n /\ q \in 1..n
    BY <1>1, <1>4, <2>1 DEF AnswersIn
  <2>2. CASE p = n + 1 /\ q \in 1..n
    BY <1>1, <1>2, <1>4, <2>2
  <2>3. CASE q = n + 1 /\ p \in 1..n
    BY <1>1, <1>2, <1>4, <2>3
  <2> QED BY <1>1, <2>1, <2>2, <2>3
<1>5. AnswersIn(new, left, hs, next)
  BY <1>1, <1>3, <1>4 DEF AnswersIn
<1> QED BY <1>5 DEF new

-----------------------------------------------------------------------------
(* Lists of pages                                                          *)

Row(content, i) == [page |-> i, version |-> content[i]]

\* An answer is shown in some order, each page once.
LEMMA ListingIs ==
  ASSUME NEW content \in Contents
  PROVE  LET s == Listing(content)
         IN  /\ s \in Seq(Rows)
             /\ \A n \in DOMAIN s :
                  s[n].page \in DOMAIN content /\ s[n].version = content[s[n].page]
             /\ \A i \in DOMAIN content : \E n \in DOMAIN s : s[n].page = i
             /\ \A m, n \in DOMAIN s : s[m].page = s[n].page => m = n
<1> DEFINE S == DOMAIN content
           T == {[page |-> i, version |-> content[i]] : i \in S}
           n == Cardinality(S)
           P(s) == \A j, k \in DOMAIN s : s[j] = s[k] => j = k
<1>1. S \subseteq Items /\ \A i \in S : content[i] \in Versions
  BY DEF Contents
<1>2. IsFiniteSet(S)
  <2>1. IsFiniteSet(Items)
    BY ProfilePagesAssumption, FS_Product DEF Items
  <2> QED BY <1>1, <2>1, FS_Subset
<1>3. n \in Nat /\ ExistsBijection(1..n, S)
  BY <1>2, FS_CardinalityType
<1>4. \A i \in S : Row(content, i) \in T /\ Row(content, i).page = i
                   /\ Row(content, i).version = content[i]
  BY DEF Row
<1>5. \A t \in T : t.page \in S /\ t = Row(content, t.page) /\ t \in Rows
  BY <1>1 DEF Row, Rows
<1>6. Cardinality(T) = n /\ IsFiniteSet(T)
  <2> DEFINE g == [i \in S |-> Row(content, i)]
  <2>1. g \in [S -> T]
    BY <1>4
  <2>2. \A i, j \in S : g[i] = g[j] => i = j
    BY <1>4
  <2>3. \A t \in T : \E i \in S : g[i] = t
    BY <1>5
  <2>4. g \in Bijection(S, T)
    BY <2>1, <2>2, <2>3, Zenon DEF Bijection, Injection, Surjection, IsInjective
  <2>5. ExistsBijection(S, T)
    BY <2>4 DEF ExistsBijection
  <2> QED BY <1>2, <2>5, FS_Bijection
<1>7. \E s \in [1..n -> T] : P(s)
  <2>1. PICK f \in Bijection(1..n, S) : TRUE
    BY <1>3 DEF ExistsBijection
  <2>2. f \in [1..n -> S] /\ \A j, k \in 1..n : f[j] = f[k] => j = k
    BY <2>1 DEF Bijection, Injection, IsInjective
  <2> DEFINE s == [k \in 1..n |-> Row(content, f[k])]
  <2>3. s \in [1..n -> T]
    BY <1>4, <2>2
  <2>4. \A j, k \in DOMAIN s : s[j] = s[k] => j = k
    BY <1>4, <2>2
  <2> QED BY <2>3, <2>4
<1> DEFINE s == Listing(content)
<1>8. s \in [1..n -> T] /\ P(s)
  <2>1. s = CHOOSE x \in [1..n -> T] : P(x)
    BY DEF Listing
  <2> HIDE DEF s, T, n, P
  <2> QED BY <1>7, <2>1
<1> HIDE DEF s, S, T, n
<1>9. DOMAIN s = 1..n /\ \A k \in 1..n : s[k] \in T
  BY <1>8
<1>10. \A t \in T : \E k \in 1..n : s[k] = t
  <2>1. s \in Injection(1..n, T)
    BY <1>8, <1>9 DEF Injection, IsInjective
  <2>2. Cardinality(1..n) = n
    BY <1>3, FS_Interval
  <2>3. s \in Surjection(1..n, T)
    BY <1>6, <2>1, <2>2, FS_Injection
  <2> QED BY <2>3 DEF Surjection
<1>11. s \in Seq(Rows)
  BY <1>3, <1>5, <1>9, <1>8
<1>12. \A k \in 1..n : s[k].page \in S /\ s[k].version = content[s[k].page]
  BY <1>4, <1>5, <1>9
<1>13. \A j, k \in 1..n : s[j].page = s[k].page => j = k
  BY <1>5, <1>8, <1>9
<1>14. \A i \in S : \E k \in 1..n : s[k].page = i
  BY <1>4, <1>10
<1> QED BY <1>9, <1>11, <1>12, <1>13, <1>14 DEF s, S

\* The place of the first page i, and where another page comes from when it is gone.
First(i) == CHOOSE n \in ShownAt(i) : \A m \in ShownAt(i) : n <= m
Origin(i, n) == IF n < First(i) THEN n ELSE n + 1

LEMMA LeastPlace ==
  ASSUME NEW T \in SUBSET Nat, T # {}
  PROVE  \E m \in T : \A n \in T : m <= n
<1>1. PICK m \in T : \A n \in T : <<n, m>> \notin OpToRel(<, Nat)
  BY WFMin, NatLessThanWellFounded
<1>2. \A n \in T : ~(n < m)
  BY <1>1 DEF OpToRel
<1> QED BY <1>2

LEMMA WithoutIs ==
  ASSUME pages \in Seq(Rows), NEW i, ShownAt(i) # {}
  PROVE  /\ First(i) \in ShownAt(i) /\ First(i) \in 1..Len(pages) /\ Len(pages) \in Nat
         /\ DOMAIN PagesWithout(i) = 1..(Len(pages) - 1)
         /\ \A n \in 1..(Len(pages) - 1) :
              /\ Origin(i, n) \in 1..Len(pages) /\ Origin(i, n) # First(i)
              /\ PagesWithout(i)[n] = pages[Origin(i, n)]
         /\ PagesWithout(i) \in Seq(Rows)
<1>1. Len(pages) \in Nat /\ DOMAIN pages = 1..Len(pages)
  BY LenProperties
<1>2. ShownAt(i) \in SUBSET Nat /\ ShownAt(i) \subseteq 1..Len(pages)
  BY <1>1 DEF ShownAt
<1>3. First(i) \in ShownAt(i) /\ First(i) \in 1..Len(pages)
  <2>1. \E n \in ShownAt(i) : \A m \in ShownAt(i) : n <= m
    BY <1>2, LeastPlace
  <2>2. First(i) \in ShownAt(i)
    BY <2>1 DEF First
  <2> QED BY <1>2, <2>2
<1>4. PagesWithout(i)
        = [n \in 1..(Len(pages) - 1) |-> IF n < First(i) THEN pages[n] ELSE pages[n + 1]]
  BY DEF PagesWithout, First
<1> HIDE DEF First
<1>5. ASSUME NEW n \in 1..(Len(pages) - 1)
      PROVE  /\ Origin(i, n) \in 1..Len(pages) /\ Origin(i, n) # First(i)
             /\ PagesWithout(i)[n] = pages[Origin(i, n)]
  BY <1>1, <1>3, <1>4 DEF Origin
<1>6. PagesWithout(i) \in Seq(Rows)
  <2>1. \A n \in 1..(Len(pages) - 1) : PagesWithout(i)[n] \in Rows
    BY <1>1, <1>5, ElementOfSeq
  <2>2. Len(pages) - 1 \in Nat
    BY <1>1, <1>3
  <2> QED BY <1>4, <2>1, <2>2
<1>7. DOMAIN PagesWithout(i) = 1..(Len(pages) - 1)
  BY <1>4
<1> QED BY <1>1, <1>3, <1>5, <1>6, <1>7

-----------------------------------------------------------------------------
(* Types and bounds                                                        *)

LEMMA TakesFacts ==
  ASSUME Base, Takes
  PROVE  /\ connected /\ Head(inbox) \in Messages /\ Says(Head(inbox))
         /\ Head(inbox) = inbox[1] /\ 1 \in DOMAIN inbox
         /\ inbox' = Tail(inbox) /\ Tail(inbox) \in Seq(Messages)
<1>1. inbox # <<>> /\ inbox \in Seq(Messages) /\ \A p \in DOMAIN inbox : Says(inbox[p])
  BY DEF Base, TypeInv, Takes, SaysInv
<1>2. connected
  BY <1>1 DEF Base, LinkInv
<1>3. 1 \in DOMAIN inbox
  BY <1>1, HeadTyped
<1> QED BY <1>1, <1>2, <1>3, HeadTyped, TailSays DEF Takes

LEMMA ReadsFacts ==
  ASSUME Base, NEW r \in handlers, Reads(r)
  PROVE  LET data == Head(inbox).data
         IN  /\ r.kind \in {"active", "switch", "profile"} => data \in Profiles
             /\ r.kind \in {"switch", "profile"} => data = r.of
             /\ r.kind \in Whats => data \in Contents
             /\ OfKind(r) /\ connected /\ r \in Request /\ r.id < nextId
<1>1. Says(Head(inbox)) /\ connected
  BY TakesFacts DEF Reads
<1>2. OfKind(r) /\ r \in Request /\ r.id < nextId
  BY DEF Base, TypeInv, LinkTyped
<1> QED BY <1>1, <1>2 DEF Says, Reads, OfKind

UiFrame(settled, new) ==
  /\ Links(settled, new)
  /\ UNCHANGED <<coreVars, connected>>
  /\ inbox' = inbox \/ (inbox # <<>> /\ inbox' = Tail(inbox))
  /\ inputs' \in inputs..MaxInputs /\ faults' \in 0..MaxFaults
  /\ ~connected => loaded' \subseteq loaded
  /\ Updates(new) = {} \/ (inputs' = inputs + 1 /\ \E c : new = {c})

LEMMA SentUpdates ==
  ASSUME NEW k1 \in Kinds, NEW k2 \in Kinds, NEW of1, NEW of2
  PROVE  /\ k1 # "update" => Updates(Sent1(k1, of1)) = {}
         /\ k1 # "update" /\ k2 # "update" => Updates(Sent2(k1, of1, k2, of2)) = {}
         /\ Sent1(k1, of1) = {} \/ \E c : Sent1(k1, of1) = {c}
         /\ Updates({}) = {}
<1>1. /\ Call(nextId, k1, of1).kind = k1
      /\ Call(nextId + 1, k2, of2).kind = k2
  BY DEF Call
<1>2. Updates({}) = {}
  BY DEF Updates
<1>3. k1 # "update" => Updates(Sent1(k1, of1)) = {}
  BY <1>1 DEF Updates, Sent1
<1>4. k1 # "update" /\ k2 # "update" => Updates(Sent2(k1, of1, k2, of2)) = {}
  BY <1>1 DEF Updates, Sent2
<1>5. Sent1(k1, of1) = {} \/ \E c : Sent1(k1, of1) = {c}
  BY DEF Sent1
<1> QED BY <1>2, <1>3, <1>4, <1>5

-----------------------------------------------------------------------------
(* What a step of the UI does                                              *)

\* An answer makes p the current profile, and its load starts.
Selects(r, p) ==
  /\ Links({r}, Sent1("profile", p)) /\ current' = p
  /\ profileLoad' = IF {s \in handlers \ {r} : s.kind = "profile"} = {}
                    THEN "loading" ELSE "overlapping"
  /\ UNCHANGED <<shown, inDoubt, pageVars, groupVars, loaded>>

\* An answer after which nothing is to be done.
Concludes(r) == Links({r}, {}) /\ UNCHANGED uiVars

UiEffect ==
  \/ Ignores /\ Links({}, {})
  \/ \E r \in handlers :
       /\ Reads(r)
       /\ \/ r.kind \in {"active", "switch"} /\ Selects(r, Head(inbox).data)
          \/ r.kind = "switch" /\ r.of = current /\ Concludes(r)
          \/ r.kind = "update" /\ Concludes(r)
          \/ /\ r.kind = "profile" /\ ProfileAnswer(r, r.of)
             /\ Links({r}, Sent2("groups", r.of, "pages", r.of))
          \/ r.kind = "pages" /\ PagesAnswer(r, Head(inbox).data) /\ Links({r}, {})
          \/ r.kind = "groups" /\ GroupsAnswer(r, Head(inbox).data) /\ Links({r}, {})
  \/ \E r \in handlers, isAnswer \in BOOLEAN :
       /\ Notices(r, isAnswer) /\ Fails(r, isAnswer)
       /\ Links({r}, IF Reloads(r) THEN Sent1("pages", shown) ELSE {})
  \/ \E e \in ItemEvents : Hears(e, {"pages"}) /\ PageEvent(e) /\ Links({}, {})
  \/ \E e \in ItemEvents : Hears(e, {"groups"}) /\ GroupEvent(e) /\ Links({}, {})
  \/ \E e \in ProfileEvents :
       /\ Hears(e, {"profileAdded"}) /\ ProfileAdded(e.profile)
       /\ Links({}, Sent1("switch", e.profile))
  \/ \E e \in ProfileEvents :
       Hears(e, {"profileDeleted"}) /\ ProfileDeleted(e.profile) /\ Links({}, {})
  \/ \E p \in Profiles : UserSwitches(p) /\ Links({}, Sent1("switch", p))
  \/ \E i \in Items : UserEditsPage(i) /\ Links({}, Sent1("update", i))

LEMMA UiEffects ==
  ASSUME Base, UiStep
  PROVE  UiEffect
<1> USE DEF Kinds
<1>1. nextId \in Nat \ {0} /\ shown \in Profiles \cup {None}
  BY DEF Base, TypeInv, LinkTyped, UiTyped
<1>2. ASSUME UNCHANGED linkVars
      PROVE  Links({}, {})
  BY <1>1, <1>2, FS_EmptySet DEF Links, linkVars
<1>3. ASSUME NEW r, NEW p \in Profiles, Send(<<<<"profile", p>>>>, {r})
      PROVE  Links({r}, Sent1("profile", p))
  <2>1. OfKind(Call(nextId, "profile", p))
    BY DEF OfKind, Call
  <2> QED BY <1>1, <1>3, <2>1, OneSent
<1>4. ASSUME NEW p \in Profiles, Send(<<<<"switch", p>>>>, {})
      PROVE  Links({}, Sent1("switch", p))
  <2>1. OfKind(Call(nextId, "switch", p))
    BY DEF OfKind, Call
  <2> QED BY <1>1, <1>4, <2>1, OneSent
<1>5. ASSUME NEW r \in handlers, Reads(r), r.kind = "active", ActiveAnswer(r, Head(inbox).data)
      PROVE  Selects(r, Head(inbox).data)
  <2>1. Head(inbox).data \in Profiles
    BY <1>5, ReadsFacts
  <2>2. Links({r}, Sent1("profile", Head(inbox).data))
    BY <1>3, <1>5, <2>1 DEF ActiveAnswer, LoadProfile
  <2> QED BY <1>5, <2>2 DEF ActiveAnswer, LoadProfile, Selects
<1>6. ASSUME NEW r \in handlers, Reads(r), r.kind = "switch", SwitchAnswer(r, Head(inbox).data)
      PROVE  Selects(r, Head(inbox).data) \/ (r.of = current /\ Concludes(r))
  <2> DEFINE p == Head(inbox).data
  <2>1. p \in Profiles /\ p = r.of
    BY <1>6, ReadsFacts
  <2>2. CASE current = p
    <3>1. Links({r}, {})
      BY <1>1, <1>6, <2>2, NothingSent DEF SwitchAnswer
    <3> QED BY <1>6, <2>1, <2>2, <3>1 DEF SwitchAnswer, Concludes, uiVars, profileVars
  <2>3. CASE current # p
    <3>1. Links({r}, Sent1("profile", p))
      BY <1>3, <1>6, <2>1, <2>3 DEF SwitchAnswer, LoadProfile
    <3> QED BY <1>6, <2>3, <3>1 DEF SwitchAnswer, LoadProfile, Selects
  <2> QED BY <2>2, <2>3
<1>7. ASSUME NEW r \in handlers, Reads(r), r.kind = "profile", ProfileAnswer(r, Head(inbox).data)
      PROVE  ProfileAnswer(r, r.of) /\ Links({r}, Sent2("groups", r.of, "pages", r.of))
  <2>1. Head(inbox).data = r.of /\ r.of \in Profiles
    BY <1>7, ReadsFacts
  <2>2. ProfileAnswer(r, r.of)
    BY <1>7, <2>1
  <2>3. OfKind(Call(nextId, "groups", r.of)) /\ OfKind(Call(nextId + 1, "pages", r.of))
    BY <2>1 DEF OfKind, Call
  <2>4. Send(<<<<"groups", r.of>>, <<"pages", r.of>>>>, {r})
    BY <2>2 DEF ProfileAnswer
  <2> QED BY <1>1, <2>1, <2>2, <2>3, <2>4, TwoSent
<1>8. ASSUME NEW r, Settle({r})
      PROVE  Links({r}, {})
  BY <1>1, <1>8, NothingSent
<1>9. ASSUME NEW r \in handlers, NEW isAnswer \in BOOLEAN, Fails(r, isAnswer)
      PROVE  Links({r}, IF Reloads(r) THEN Sent1("pages", shown) ELSE {})
  <2>1. CASE Reloads(r)
    <3>1. Send(<<<<"pages", shown>>>>, {r})
      BY <1>9, <2>1 DEF Fails, Sync
    <3>2. OfKind(Call(nextId, "pages", shown))
      BY <1>1 DEF OfKind, Call
    <3> QED BY <1>1, <2>1, <3>1, <3>2, OneSent
  <2>2. CASE ~Reloads(r)
    BY <1>8, <1>9, <2>2 DEF Fails
  <2> QED BY <2>1, <2>2
<1>10. ASSUME NEW i \in Items, UserEditsPage(i)
       PROVE  Links({}, Sent1("update", i))
  <2>1. OfKind(Call(nextId, "update", i))
    BY DEF OfKind, Call
  <2> QED BY <1>1, <1>10, <2>1, OneSent DEF UserEditsPage
<1> HIDE DEF Kinds
<1>11. CASE Ignores
  BY <1>2, <1>11 DEF Ignores, UiEffect
<1>12. ASSUME NEW r \in handlers, Reads(r),
              \/ r.kind = "active" /\ ActiveAnswer(r, Head(inbox).data)
              \/ r.kind = "switch" /\ SwitchAnswer(r, Head(inbox).data)
              \/ r.kind = "profile" /\ ProfileAnswer(r, Head(inbox).data)
       PROVE  UiEffect
  BY <1>5, <1>6, <1>7, <1>12 DEF UiEffect
<1>13. ASSUME NEW r \in handlers, Reads(r),
              \/ r.kind = "pages" /\ PagesAnswer(r, Head(inbox).data)
              \/ r.kind = "groups" /\ GroupsAnswer(r, Head(inbox).data)
              \/ r.kind = "update" /\ UpdateDone(r)
       PROVE  UiEffect
  BY <1>8, <1>13 DEF UiEffect, PagesAnswer, GroupsAnswer, UpdateDone, Concludes
<1>14. ASSUME NEW r \in handlers, NEW isAnswer \in BOOLEAN, Notices(r, isAnswer),
              Fails(r, isAnswer)
       PROVE  UiEffect
  BY <1>9, <1>14 DEF UiEffect
<1>15. ASSUME \/ \E e \in ItemEvents : Hears(e, {"pages"}) /\ PageEvent(e)
              \/ \E e \in ItemEvents : Hears(e, {"groups"}) /\ GroupEvent(e)
              \/ \E e \in ProfileEvents : Hears(e, {"profileDeleted"}) /\ ProfileDeleted(e.profile)
       PROVE  UiEffect
  BY <1>2, <1>15 DEF UiEffect, PageEvent, GroupEvent, ProfileDeleted
<1>16. ASSUME NEW e \in ProfileEvents, Hears(e, {"profileAdded"}), ProfileAdded(e.profile)
       PROVE  UiEffect
  <2>1. e.profile \in Profiles
    BY DEF ProfileEvents
  <2>2. Links({}, Sent1("switch", e.profile))
    BY <1>4, <1>16, <2>1 DEF ProfileAdded
  <2> QED BY <1>16, <2>2 DEF UiEffect
<1>17. ASSUME NEW p \in Profiles, UserSwitches(p)
       PROVE  UiEffect
  BY <1>4, <1>17 DEF UiEffect, UserSwitches
<1>18. ASSUME NEW i \in Items, UserEditsPage(i)
       PROVE  UiEffect
  BY <1>10, <1>18 DEF UiEffect
<1> QED
  BY <1>11, <1>12, <1>13, <1>14, <1>15, <1>16, <1>17, <1>18 DEF UiStep

\* What every step of the UI does to requests, messages and types.
LEMMA UiFrames ==
  ASSUME Base, UiStep
  PROVE  UiTyped' /\ \E settled, new : UiFrame(settled, new)
<1> DEFINE Framed == UiTyped' /\ \E settled, new : UiFrame(settled, new)
<1>1. /\ nextId \in Nat \ {0} /\ inputs \in 0..MaxInputs /\ faults \in 0..MaxFaults
      /\ MaxInputs \in Nat /\ MaxFaults \in Nat /\ connected \in BOOLEAN
      /\ inputs \in inputs..MaxInputs
  BY ProfilePagesAssumption DEF Base, TypeInv, LinkTyped, BoundTyped
<1>2. UiTyped
  BY DEF Base, TypeInv
<1>3. Takes => /\ UNCHANGED <<coreVars, connected>> /\ inbox # <<>> /\ inbox' = Tail(inbox)
               /\ inputs' \in inputs..MaxInputs /\ faults' \in 0..MaxFaults
               /\ connected
  BY <1>1, TakesFacts DEF Takes, boundVars
<1>4. SentId(1) \in Nat /\ SentId(2) \in Nat
  BY <1>1 DEF SentId
<1>5. /\ \A k \in Kinds : \A of : k # "update" => Updates(Sent1(k, of)) = {}
      /\ \A k, l \in Kinds : \A of, o :
           k # "update" /\ l # "update" => Updates(Sent2(k, of, l, o)) = {}
      /\ \A of : Sent1("update", of) = {} \/ \E c : Sent1("update", of) = {c}
      /\ Updates({}) = {} /\ Kinds # {}
      /\ {"profile", "groups", "pages", "switch", "update"} \subseteq Kinds
  <2>1. {"profile", "groups", "pages", "switch", "update"} \subseteq Kinds
    BY DEF Kinds
  <2>2. ASSUME NEW k \in Kinds, NEW l \in Kinds, NEW of, NEW o
        PROVE  /\ k # "update" => Updates(Sent1(k, of)) = {}
               /\ k # "update" /\ l # "update" => Updates(Sent2(k, of, l, o)) = {}
    BY SentUpdates
  <2>3. ASSUME NEW of
        PROVE  Sent1("update", of) = {} \/ \E c : Sent1("update", of) = {c}
    BY DEF Sent1
  <2>4. Updates({}) = {}
    BY DEF Updates
  <2> QED BY <2>1, <2>2, <2>3, <2>4
<1>6. CASE Ignores /\ Links({}, {})
  <2>1. UiTyped' /\ loaded' = loaded
    BY <1>2, <1>6 DEF Ignores, UiTyped, uiVars, profileVars, pageVars, groupVars
  <2>2. UiFrame({}, {})
    BY <1>3, <1>5, <1>6, <2>1 DEF UiFrame, Ignores
  <2> QED BY <2>1, <2>2
<1>7. ASSUME NEW r \in handlers, Reads(r), r.kind \in {"active", "switch"},
             Selects(r, Head(inbox).data)
      PROVE  Framed
  <2> DEFINE p == Head(inbox).data
  <2>1. p \in Profiles /\ Takes
    BY <1>7, ReadsFacts DEF Reads
  <2>2. UiTyped' /\ loaded' = loaded
    BY <1>2, <1>7, <2>1 DEF UiTyped, Selects, pageVars, groupVars
  <2>3. UiFrame({r}, Sent1("profile", p))
    BY <1>3, <1>5, <1>7, <2>1, <2>2 DEF UiFrame, Selects
  <2> QED BY <2>2, <2>3
<1>8. ASSUME NEW r \in handlers, Reads(r), Concludes(r)
      PROVE  Framed
  <2>1. UiTyped' /\ loaded' = loaded
    BY <1>2, <1>8 DEF UiTyped, Concludes, uiVars, profileVars, pageVars, groupVars
  <2>2. UiFrame({r}, {})
    BY <1>3, <1>5, <1>8, <2>1 DEF UiFrame, Reads, Concludes
  <2> QED BY <2>1, <2>2
<1>9. ASSUME NEW r \in handlers, Reads(r), r.kind = "profile", ProfileAnswer(r, r.of),
             Links({r}, Sent2("groups", r.of, "pages", r.of))
      PROVE  Framed
  <2> DEFINE p == r.of
  <2>1. p \in Profiles /\ Takes
    BY <1>9, ReadsFacts DEF Reads
  <2>2. UiTyped' /\ loaded' = {}
    <3>1. NoItems \in [Items -> {Absent} \cup Versions]
      BY DEF NoItems
    <3>2. /\ shown' = p /\ groups' = NoItems /\ groupProfile' = p /\ pages' = <<>>
          /\ groupsRequest' = SentId(1) /\ pagesRequest' = SentId(2) /\ loaded' = {}
          /\ profileLoad' = IF profileLoad = "loading" THEN "done" ELSE profileLoad
          /\ current' = current /\ inDoubt' = inDoubt
      BY <1>9 DEF ProfileAnswer
    <3>3. pages' \in Seq(Rows)
      BY <3>2
    <3> QED BY <1>2, <1>4, <2>1, <3>1, <3>2, <3>3 DEF UiTyped
  <2>3. UiFrame({r}, Sent2("groups", p, "pages", p))
    BY <1>3, <1>5, <1>9, <2>1, <2>2 DEF UiFrame
  <2> QED BY <2>2, <2>3
<1>10. ASSUME NEW r \in handlers, Reads(r), r.kind = "pages", PagesAnswer(r, Head(inbox).data),
              Links({r}, {})
       PROVE  Framed
  <2> DEFINE content == Head(inbox).data
  <2>1. content \in Contents /\ Takes
    BY <1>10, ReadsFacts DEF Reads, Whats
  <2>2. Listing(content) \in Seq(Rows)
    BY <2>1, ListingIs
  <2>3. UiTyped'
    <3>1. pages' \in Seq(Rows) /\ loaded' \subseteq {"pages", "groups"}
      BY <1>2, <1>10, <2>2 DEF UiTyped, PagesAnswer
    <3> QED BY <1>2, <1>10, <3>1 DEF UiTyped, PagesAnswer, profileVars, groupVars
  <2>4. UiFrame({r}, {})
    BY <1>3, <1>5, <1>10, <2>1 DEF UiFrame
  <2> QED BY <2>3, <2>4
<1>11. ASSUME NEW r \in handlers, Reads(r), r.kind = "groups",
              GroupsAnswer(r, Head(inbox).data), Links({r}, {})
       PROVE  Framed
  <2> DEFINE content == Head(inbox).data
  <2>1. content \in Contents /\ Takes
    BY <1>11, ReadsFacts DEF Reads, Whats
  <2>2. \A i \in DOMAIN content : content[i] \in Versions
    BY <2>1 DEF Contents
  <2>3. UiTyped'
    <3>1. groups' \in [Items -> {Absent} \cup Versions] /\ loaded' \subseteq {"pages", "groups"}
      <4> HIDE DEF content
      <4>1. [i \in Items |-> IF i \in DOMAIN content THEN content[i] ELSE groups[i]]
              \in [Items -> {Absent} \cup Versions]
        BY <1>2, <2>2 DEF UiTyped
      <4> QED BY <1>2, <1>11, <4>1 DEF UiTyped, GroupsAnswer, content
    <3> QED BY <1>2, <1>11, <3>1 DEF UiTyped, GroupsAnswer, profileVars, pageVars
  <2>4. UiFrame({r}, {})
    BY <1>3, <1>5, <1>11, <2>1 DEF UiFrame
  <2> QED BY <2>3, <2>4
<1>12. ASSUME NEW r \in handlers, NEW isAnswer \in BOOLEAN, Notices(r, isAnswer),
              Fails(r, isAnswer), Links({r}, IF Reloads(r) THEN Sent1("pages", shown) ELSE {})
       PROVE  Framed
  <2>1. /\ UNCHANGED <<coreVars, connected>> /\ inputs' \in inputs..MaxInputs
        /\ faults' \in 0..MaxFaults
        /\ inbox' = inbox \/ (inbox # <<>> /\ inbox' = Tail(inbox))
    BY <1>1, <1>12 DEF Notices, Takes
  <2>2. CASE Reloads(r)
    <3>1. pages' = <<>> /\ loaded' = loaded \ {"pages"} /\ pagesRequest' = SentId(1)
      BY <1>12, <2>2 DEF Fails, Sync
    <3>2. UiTyped'
      <4>1. pages' \in Seq(Rows)
        BY <3>1
      <4> QED BY <1>2, <1>4, <1>12, <3>1, <4>1 DEF UiTyped, Fails, groupVars
    <3>3. UiFrame({r}, Sent1("pages", shown))
      BY <1>5, <1>12, <2>1, <2>2, <3>1 DEF UiFrame
    <3> QED BY <3>2, <3>3
  <2>3. CASE ~Reloads(r)
    <3>1. UNCHANGED <<pageVars, loaded>>
      BY <1>12, <2>3 DEF Fails
    <3>2. UiTyped'
      BY <1>2, <1>12, <3>1 DEF UiTyped, Fails, pageVars, groupVars
    <3>3. UiFrame({r}, {})
      BY <1>5, <1>12, <2>1, <2>3, <3>1 DEF UiFrame
    <3> QED BY <3>2, <3>3
  <2> QED BY <2>2, <2>3
<1>13. ASSUME NEW e \in ItemEvents, Hears(e, {"pages"}), PageEvent(e), Links({}, {})
       PROVE  Framed
  <2>1. Takes
    BY <1>13 DEF Hears
  <2>2. pages' \in Seq(Rows)
    <3>1. e.item \in Items /\ e.version \in {Absent} \cup Versions /\ pages \in Seq(Rows)
      BY <1>2, <1>13 DEF ItemEvents, UiTyped
    <3>2. CASE e.item[1] # shown
      BY <1>13, <3>1, <3>2 DEF PageEvent
    <3>3. CASE e.item[1] = shown /\ e.version = Absent
      BY <1>13, <3>1, <3>3, WithoutIs DEF PageEvent, PagesWithout
    <3>4. CASE e.item[1] = shown /\ e.version # Absent /\ e.isNew
      <4>1. [page |-> e.item, version |-> e.version] \in Rows
        BY <3>1, <3>4 DEF Rows
      <4> QED BY <1>13, <3>1, <3>4, <4>1, AppendProperties DEF PageEvent
    <3>5. CASE e.item[1] = shown /\ e.version # Absent /\ ~e.isNew
      <4>1. /\ Len(pages) \in Nat /\ DOMAIN pages = 1..Len(pages)
            /\ \A n \in DOMAIN pages : pages[n] \in Rows
        BY <3>1, LenProperties, ElementOfSeq
      <4> DEFINE f(n) == IF n \in ShownAt(e.item) THEN [pages[n] EXCEPT !.version = e.version]
                         ELSE pages[n]
      <4>2. \A n \in DOMAIN pages : f(n) \in Rows
        BY <3>1, <3>5, <4>1 DEF Rows
      <4>3. pages' = [n \in DOMAIN pages |-> f(n)]
        BY <1>13, <3>5 DEF PageEvent
      <4> HIDE DEF f
      <4> QED BY <4>1, <4>2, <4>3
    <3> QED BY <3>2, <3>3, <3>4, <3>5
  <2>3. UiTyped'
    BY <1>2, <1>13, <2>2 DEF UiTyped, PageEvent, profileVars, groupVars
  <2>4. UiFrame({}, {})
    BY <1>3, <1>5, <1>13, <2>1 DEF UiFrame
  <2> QED BY <2>3, <2>4
<1>14. ASSUME NEW e \in ItemEvents, Hears(e, {"groups"}), GroupEvent(e), Links({}, {})
       PROVE  Framed
  <2>1. Takes
    BY <1>14 DEF Hears
  <2>2. groups' \in [Items -> {Absent} \cup Versions]
    BY <1>2, <1>14 DEF GroupEvent, ItemEvents, UiTyped
  <2>3. UiTyped'
    BY <1>2, <1>14, <2>2 DEF UiTyped, GroupEvent, profileVars, pageVars
  <2>4. UiFrame({}, {})
    BY <1>3, <1>5, <1>14, <2>1 DEF UiFrame
  <2> QED BY <2>3, <2>4
<1>15. ASSUME NEW e \in ProfileEvents, Hears(e, {"profileAdded"}), ProfileAdded(e.profile),
              Links({}, Sent1("switch", e.profile))
       PROVE  Framed
  <2>1. Takes
    BY <1>15 DEF Hears
  <2>2. UiTyped' /\ loaded' = loaded
    BY <1>2, <1>15 DEF UiTyped, ProfileAdded, uiVars, profileVars, pageVars, groupVars
  <2>3. UiFrame({}, Sent1("switch", e.profile))
    BY <1>3, <1>5, <1>15, <2>1, <2>2 DEF UiFrame
  <2> QED BY <2>2, <2>3
<1>16. ASSUME NEW e \in ProfileEvents, Hears(e, {"profileDeleted"}), ProfileDeleted(e.profile),
              Links({}, {})
       PROVE  Framed
  <2>1. Takes
    BY <1>16 DEF Hears
  <2>2. UiTyped'
    <3>1. <<>> \in Seq(Rows)
      OBVIOUS
    <3>2. /\ shown' \in Profiles \cup {None} /\ pages' \in Seq(Rows)
          /\ loaded' \subseteq {"pages", "groups"}
      BY <1>2, <1>16, <3>1 DEF UiTyped, ProfileDeleted
    <3> QED BY <1>2, <1>16, <3>2 DEF UiTyped, ProfileDeleted, groupVars
  <2>3. UiFrame({}, {})
    BY <1>3, <1>5, <1>16, <2>1 DEF UiFrame
  <2> QED BY <2>2, <2>3
<1>17. ASSUME NEW p \in Profiles, UserSwitches(p), Links({}, Sent1("switch", p))
       PROVE  Framed
  <2>1. UiTyped' /\ loaded' = loaded
    BY <1>2, <1>17 DEF UiTyped, UserSwitches, uiVars, profileVars, pageVars, groupVars
  <2>2. inputs' \in inputs..MaxInputs /\ faults' \in 0..MaxFaults
    BY <1>1, <1>17 DEF UserSwitches, UserInput
  <2>3. UiFrame({}, Sent1("switch", p))
    BY <1>5, <1>17, <2>1, <2>2 DEF UiFrame, UserSwitches
  <2> QED BY <2>1, <2>3
<1>18. ASSUME NEW i \in Items, UserEditsPage(i), Links({}, Sent1("update", i))
       PROVE  Framed
  <2>3. pages' \in Seq(Rows)
    <3>1. /\ Len(pages) \in Nat /\ DOMAIN pages = 1..Len(pages)
          /\ \A n \in DOMAIN pages : pages[n] \in Rows
      BY <1>2, LenProperties, ElementOfSeq DEF UiTyped
    <3>2. [page |-> i, version |-> Edited] \in Rows
      BY DEF Rows
    <3> DEFINE f(n) == IF n \in ShownAt(i) THEN [page |-> i, version |-> Edited] ELSE pages[n]
    <3>3. \A n \in DOMAIN pages : f(n) \in Rows
      BY <3>1, <3>2
    <3>4. pages' = [n \in DOMAIN pages |-> f(n)] \/ pages' = pages
      BY <1>18 DEF UserEditsPage
    <3> HIDE DEF f
    <3>5. CASE pages' = [n \in DOMAIN pages |-> f(n)]
      BY <3>1, <3>3, <3>5
    <3>6. CASE pages' = pages
      BY <1>2, <3>6 DEF UiTyped
    <3> QED BY <3>4, <3>5, <3>6
  <2>4. UiTyped' /\ loaded' = loaded
    BY <1>2, <1>18, <2>3 DEF UiTyped, UserEditsPage, profileVars, groupVars
  <2>5. inputs' = inputs + 1 /\ inputs' \in inputs..MaxInputs /\ faults' \in 0..MaxFaults
    BY <1>1, <1>18 DEF UserEditsPage, UserInput
  <2>6. UiFrame({}, Sent1("update", i))
    BY <1>5, <1>18, <2>4, <2>5 DEF UiFrame, UserEditsPage
  <2> QED BY <2>4, <2>6
<1> HIDE DEF Framed
<1>19. ASSUME NEW r \in handlers, Reads(r),
              \/ r.kind \in {"active", "switch"} /\ Selects(r, Head(inbox).data)
              \/ r.kind = "switch" /\ r.of = current /\ Concludes(r)
              \/ r.kind = "update" /\ Concludes(r)
              \/ /\ r.kind = "profile" /\ ProfileAnswer(r, r.of)
                 /\ Links({r}, Sent2("groups", r.of, "pages", r.of))
              \/ r.kind = "pages" /\ PagesAnswer(r, Head(inbox).data) /\ Links({r}, {})
              \/ r.kind = "groups" /\ GroupsAnswer(r, Head(inbox).data) /\ Links({r}, {})
       PROVE  Framed
  BY <1>7, <1>8, <1>9, <1>10, <1>11, <1>19
<1>20. UiEffect
  BY UiEffects
<1>21. Framed
  BY <1>6, <1>12, <1>13, <1>14, <1>15, <1>16, <1>17, <1>18, <1>19, <1>20 DEF UiEffect, Framed
<1> QED BY <1>21 DEF Framed

-----------------------------------------------------------------------------
(* The core                                                                *)

SetsTo(w, i, v) == core' = [core EXCEPT ![w][i] = v]

LEMMA CoreItemSet ==
  ASSUME CoreTyped, NEW w \in Whats, NEW i \in Items, NEW v, SetsTo(w, i, v)
  PROVE  /\ core'[w] = [core[w] EXCEPT ![i] = v]
         /\ \A u \in Whats : u # w => core'[u] = core[u]
         /\ core'.profiles = core.profiles /\ core'.active = core.active
         /\ core' = [profiles |-> core.profiles, active |-> core.active,
                     pages |-> core'.pages, groups |-> core'.groups]
<1>1. core = [profiles |-> core.profiles, active |-> core.active,
              pages |-> core.pages, groups |-> core.groups]
  BY DEF CoreTyped
<1>2. CASE w = "pages"
  <2>1. core' = [profiles |-> core.profiles, active |-> core.active,
                 pages |-> [core.pages EXCEPT ![i] = v], groups |-> core.groups]
    BY <1>1, <1>2 DEF SetsTo
  <2> QED BY <1>2, <2>1 DEF Whats
<1>3. CASE w = "groups"
  <2>1. core' = [profiles |-> core.profiles, active |-> core.active,
                 pages |-> core.pages, groups |-> [core.groups EXCEPT ![i] = v]]
    BY <1>1, <1>3 DEF SetsTo
  <2> QED BY <1>3, <2>1 DEF Whats
<1> QED BY <1>2, <1>3 DEF Whats

LEMMA TableTyped ==
  ASSUME CoreTyped, NEW w \in Whats
  PROVE  core[w] \in [Items -> {Absent} \cup Versions]
  BY DEF CoreTyped, Whats

\* A version and the room for the updates that are under way.
LEMMA RoomForVersion ==
  ASSUME Base, version < MaxChanges + 1 \/ \E r \in requests : r.kind = "update"
  PROVE  version + 1 \in Versions
<1>1. /\ MaxChanges \in Nat /\ MaxInputs \in Nat /\ version \in 1..(MaxChanges + MaxInputs + 1)
      /\ inputs \in 0..MaxInputs
  BY ProfilePagesAssumption DEF Base, TypeInv, CoreTyped, BoundTyped, Versions
<1>2. version + 1 <= MaxChanges + MaxInputs + 1
  <2>1. CASE version < MaxChanges + 1
    BY <1>1, <2>1
  <2>2. CASE \E r \in requests : r.kind = "update"
    <3> DEFINE n == Cardinality(Updates(requests))
    <3>1. IsFiniteSet(Updates(requests))
      BY FS_Subset DEF Base, BoundInv, Updates
    <3>2. n \in Nat /\ n # 0
      BY <2>2, <3>1, FS_CardinalityType, FS_EmptySet DEF Updates
    <3>3. version + n <= MaxChanges + 1 + inputs
      BY DEF Base, BoundInv
    <3> HIDE DEF n
    <3> QED BY <1>1, <3>2, <3>3
  <2> QED BY <2>1, <2>2
<1> QED BY <1>1, <1>2 DEF Versions

\* The message with which the core reports a change of an item.
ItemEvent(w, i, v, new) == [type |-> w, item |-> i, version |-> v, isNew |-> new]
ProfileEvent(t, p) == [type |-> t, profile |-> p]

LEMMA EventsTyped ==
  ASSUME NEW w \in Whats, NEW i \in Items, NEW v \in {Absent} \cup Versions, NEW new \in BOOLEAN,
         NEW t \in {"profileAdded", "profileDeleted"}, NEW p \in Profiles
  PROVE  /\ ItemEvent(w, i, v, new) \in Messages /\ ~IsAnswer(ItemEvent(w, i, v, new))
         /\ ItemEvent(w, i, v, new).type = w /\ ItemEvent(w, i, v, new).item = i
         /\ ItemEvent(w, i, v, new).version = v /\ ItemEvent(w, i, v, new).isNew = new
         /\ ProfileEvent(t, p) \in Messages /\ ~IsAnswer(ProfileEvent(t, p))
         /\ ProfileEvent(t, p).type = t /\ ProfileEvent(t, p).profile = p
<1>1. ItemEvent(w, i, v, new) \in ItemEvents
  BY DEF ItemEvents, ItemEvent
<1>2. ProfileEvent(t, p) \in ProfileEvents
  BY DEF ProfileEvents, ProfileEvent
<1> QED BY <1>1, <1>2 DEF Messages, IsAnswer, ItemEvent, ProfileEvent, Whats

LEMMA AnswersTyped ==
  ASSUME Base, NEW r \in requests
  PROVE  /\ Failure(r) \in Messages /\ IsAnswer(Failure(r)) /\ Says(Failure(r))
         /\ Failure(r).request = r /\ ~Failure(r).ok
         /\ Success(r) \in Messages /\ IsAnswer(Success(r)) /\ Success(r).request = r
         /\ Success(r).ok /\ Success(r).data = Content(r)
         /\ r.kind = "active" => Content(r) = core.active
         /\ r.kind \in Whats =>
              /\ Content(r) \in Contents /\ DOMAIN Content(r) = ItemsOf(core[r.kind], r.of)
              /\ \A i \in ItemsOf(core[r.kind], r.of) : Content(r)[i] = core[r.kind][i]
         /\ r.kind \in {"switch", "profile"} => Content(r) = r.of
<1>1. r \in Request /\ OfKind(r) /\ CoreTyped
  BY DEF Base, TypeInv, LinkTyped
<1>2. r.kind \in Whats =>
        /\ Content(r) \in Contents /\ DOMAIN Content(r) = ItemsOf(core[r.kind], r.of)
        /\ \A i \in ItemsOf(core[r.kind], r.of) : Content(r)[i] = core[r.kind][i]
  <2> SUFFICES ASSUME r.kind \in Whats
               PROVE  /\ Content(r) \in Contents
                      /\ DOMAIN Content(r) = ItemsOf(core[r.kind], r.of)
                      /\ \A i \in ItemsOf(core[r.kind], r.of) : Content(r)[i] = core[r.kind][i]
    OBVIOUS
  <2> DEFINE S == ItemsOf(core[r.kind], r.of)
             f == [i \in S |-> core[r.kind][i]]
  <2>1. Content(r) = f
    BY DEF Content, Whats
  <2>2. S \in SUBSET Items /\ \A i \in S : core[r.kind][i] \in Versions
    BY <1>1, TableTyped DEF ItemsOf
  <2>3. f \in [S -> Versions]
    BY <2>2
  <2>4. f \in Contents
    BY <2>2, <2>3 DEF Contents
  <2> QED BY <2>1, <2>4
<1>3. /\ r.kind = "active" => Content(r) = core.active
      /\ r.kind \notin {"active", "pages", "groups"} => Content(r) = r.of
  BY DEF Content
<1>4. Content(r) \in Profiles \cup Items \cup Contents \cup {None}
  BY <1>1, <1>2, <1>3 DEF Request, CoreTyped, Whats
<1>5. Failure(r) \in Failures /\ Success(r) \in Successes
  BY <1>1, <1>4 DEF Failure, Failures, Success, Successes
<1>6. /\ IsAnswer(Failure(r)) /\ Says(Failure(r)) /\ Failure(r).request = r /\ ~Failure(r).ok
      /\ IsAnswer(Success(r)) /\ Success(r).request = r
      /\ Success(r).ok /\ Success(r).data = Content(r)
  BY DEF Failure, Success, IsAnswer, Says
<1> QED BY <1>2, <1>3, <1>5, <1>6 DEF Messages

\* What the core sends in a step, and what it does to the requests.
LEMMA ReportedIs ==
  ASSUME Base, NEW m \in Messages, inbox' = Reported(m)
  PROVE  /\ inbox' \in Seq(Messages)
         /\ connected => inbox' = Append(inbox, m)
         /\ ~connected => inbox' = inbox /\ inbox = <<>>
  BY Appended DEF Base, TypeInv, Reported, LinkInv

LEMMA ReportedKept ==
  ASSUME Base, NEW m \in Messages, ~IsAnswer(m), inbox' = Reported(m), UNCHANGED linkVars
  PROVE  AnswersInv' /\ SaysInv'
<1>1. inbox \in Seq(Messages) /\ LinkTyped(requests, handlers, nextId)
  BY DEF Base, TypeInv
<1>2. AnswersIn(Append(inbox, m), requests, handlers, nextId)
  BY <1>1, AppendAnswers DEF Base, AnswersInv
<1>3. \A p \in DOMAIN Append(inbox, m) : Says(Append(inbox, m)[p])
  BY <1>1, AppendSays DEF Base, SaysInv, Says
<1>4. inbox' = inbox \/ inbox' = Append(inbox, m)
  BY DEF Reported
<1>5. AnswersIn(inbox', requests, handlers, nextId)
  BY <1>2, <1>4 DEF Base, AnswersInv
<1>6. \A p \in DOMAIN inbox' : Says(inbox'[p])
  BY <1>3, <1>4 DEF Base, SaysInv
<1> QED BY <1>5, <1>6 DEF AnswersInv, SaysInv, linkVars

LEMMA LinkUnchanged ==
  ASSUME UNCHANGED <<linkVars, boundVars, connected, uiVars>>, Base
  PROVE  /\ LinkTyped(requests', handlers', nextId') /\ BoundTyped' /\ UiTyped'
         /\ (version' = version \/ (version < MaxChanges + 1 /\ version' = version + 1))
              => BoundInv'
<1>1. LinkTyped(requests', handlers', nextId')
  BY DEF Base, TypeInv, linkVars
<1>2. BoundTyped'
  BY DEF Base, TypeInv, boundVars, BoundTyped
<1>3. UiTyped'
  BY DEF Base, TypeInv, uiVars, profileVars, pageVars, groupVars, UiTyped
<1>4. ASSUME version' = version \/ (version < MaxChanges + 1 /\ version' = version + 1)
      PROVE  BoundInv'
  <2> DEFINE n == Cardinality(Updates(requests))
  <2>1. IsFiniteSet(Updates(requests))
    BY FS_Subset DEF Base, BoundInv, Updates
  <2>2. n \in Nat /\ version \in Nat /\ inputs \in Nat /\ MaxChanges \in Nat
    BY <2>1, FS_CardinalityType, ProfilePagesAssumption
       DEF Base, TypeInv, CoreTyped, BoundTyped, Versions
  <2>3. n <= inputs /\ version + n <= MaxChanges + 1 + inputs
    BY DEF Base, BoundInv
  <2>4. requests' = requests /\ inputs' = inputs
    BY DEF linkVars, boundVars
  <2> HIDE DEF n
  <2>5. version' + n <= MaxChanges + 1 + inputs
    BY <1>4, <2>2, <2>3
  <2> QED BY <2>3, <2>4, <2>5 DEF Base, BoundInv, n
<1> QED BY <1>1, <1>2, <1>3, <1>4

LEMMA SetsItemFacts ==
  ASSUME Base, NEW w \in Whats, NEW i \in Items, CoreSetsItem(w, i)
  PROVE  \E v \in {Absent} \cup Versions :
           /\ i[1] \in core.profiles /\ <<w, i>> \notin removed
           /\ v = Absent => core[w][i] # Absent
           /\ SetsTo(w, i, v)
           /\ inbox' = Reported(ItemEvent(w, i, v, core[w][i] = Absent))
           /\ removed' = IF v = Absent THEN removed \cup {<<w, i>>} ELSE removed
           /\ version' = version + 1 /\ version' \in Versions /\ version < MaxChanges + 1
           /\ UNCHANGED <<deleted, connected, boundVars, linkVars, uiVars>>
<1>1. version < MaxChanges + 1 /\ version' = version + 1
  BY DEF CoreSetsItem, NewVersion
<1>2. version + 1 \in Versions
  BY <1>1, RoomForVersion
<1>3. version + 1 # Absent
  BY <1>2 DEF Versions, Absent
<1>4. PICK v \in {version + 1} \cup (IF core[w][i] = Absent THEN {} ELSE {Absent}) :
        /\ core' = [core EXCEPT ![w][i] = v]
        /\ inbox' = Reported([type |-> w, item |-> i, version |-> v,
                              isNew |-> core[w][i] = Absent])
        /\ removed' = IF v = Absent THEN removed \cup {<<w, i>>} ELSE removed
  BY DEF CoreSetsItem
<1>5. v \in {Absent} \cup Versions /\ (v = Absent => core[w][i] # Absent)
  BY <1>2, <1>3, <1>4
<1>6. inbox' = Reported(ItemEvent(w, i, v, core[w][i] = Absent))
  BY <1>4 DEF ItemEvent
<1>7. /\ i[1] \in core.profiles /\ <<w, i>> \notin removed
      /\ UNCHANGED <<deleted, connected, boundVars, linkVars, uiVars>>
  BY DEF CoreSetsItem
<1> QED BY <1>1, <1>2, <1>4, <1>5, <1>6, <1>7 DEF SetsTo

LEMMA ItemPart ==
  ASSUME NEW i \in Items
  PROVE  i[1] \in Profiles
  BY DEF Items

LEMMA SetsItemBase ==
  ASSUME Base, NEW w \in Whats, NEW i \in Items, CoreSetsItem(w, i)
  PROVE  Base'
<1>1. PICK v \in {Absent} \cup Versions :
        /\ i[1] \in core.profiles /\ <<w, i>> \notin removed
        /\ v = Absent => core[w][i] # Absent
        /\ SetsTo(w, i, v)
        /\ inbox' = Reported(ItemEvent(w, i, v, core[w][i] = Absent))
        /\ removed' = IF v = Absent THEN removed \cup {<<w, i>>} ELSE removed
        /\ version' = version + 1 /\ version' \in Versions /\ version < MaxChanges + 1
        /\ UNCHANGED <<deleted, connected, boundVars, linkVars, uiVars>>
  BY SetsItemFacts
<1> DEFINE m == ItemEvent(w, i, v, core[w][i] = Absent)
<1>2. m \in Messages /\ ~IsAnswer(m)
  BY EventsTyped, ProfilePagesAssumption, ItemPart
<1>3. inbox' = Reported(m)
  BY <1>1
<1> HIDE DEF m
<1>4. inbox' \in Seq(Messages)
  BY <1>2, <1>3, ReportedIs
<1>5. AnswersInv' /\ SaysInv'
  BY <1>1, <1>2, <1>3, ReportedKept
<1>6. CoreTyped
  BY DEF Base, TypeInv
<1>7. /\ core'[w] = [core[w] EXCEPT ![i] = v]
      /\ \A u \in Whats : u # w => core'[u] = core[u]
      /\ core'.profiles = core.profiles
      /\ core' = [profiles |-> core.profiles, active |-> core.active,
                  pages |-> core'.pages, groups |-> core'.groups]
  BY <1>1, <1>6, CoreItemSet
<1>8. \A u \in Whats : core[u] \in [Items -> {Absent} \cup Versions]
  BY <1>6, TableTyped
<1>9. \A u \in Whats : core'[u] \in [Items -> {Absent} \cup Versions]
  BY <1>7, <1>8
<1>10. CoreTyped'
  <2>1. core'.pages \in [Items -> {Absent} \cup Versions]
        /\ core'.groups \in [Items -> {Absent} \cup Versions]
    BY <1>9 DEF Whats
  <2>2. core' \in [profiles : SUBSET Profiles, active : Profiles \cup {None},
                   pages : [Items -> {Absent} \cup Versions],
                   groups : [Items -> {Absent} \cup Versions]]
    BY <1>6, <1>7, <2>1 DEF CoreTyped
  <2>3. removed' \subseteq Whats \X Items /\ deleted' \subseteq Profiles /\ version' \in Versions
    BY <1>1, <1>6 DEF CoreTyped
  <2> QED BY <2>2, <2>3 DEF CoreTyped
<1>11. CoreInv'
  <2>1. \A u \in Whats, j \in Items : core'[u][j] # Absent => j[1] \in core.profiles
    BY <1>1, <1>7, <1>8 DEF Base, CoreInv
  <2>2. \A u \in Whats, j \in Items : <<u, j>> \in removed' => j[1] \in core.profiles \cup deleted
    BY <1>1 DEF Base, CoreInv
  <2>3. core.profiles \cap deleted = {} /\ deleted' = deleted
    BY <1>1 DEF Base, CoreInv
  <2> QED BY <1>7, <2>1, <2>2, <2>3 DEF CoreInv
<1>12. LinkTyped(requests', handlers', nextId') /\ BoundTyped' /\ UiTyped' /\ BoundInv'
  BY <1>1, LinkUnchanged
<1>13. LinkInv'
  <2>1. ~connected => inbox' = inbox
    BY <1>3 DEF Reported
  <2> QED BY <1>1, <2>1 DEF Base, LinkInv, linkVars, uiVars
<1>14. TypeInv'
  BY <1>4, <1>10, <1>12 DEF TypeInv
<1> QED BY <1>5, <1>11, <1>12, <1>13, <1>14 DEF Base

LEMMA AddsProfileBase ==
  ASSUME Base, NEW p \in Profiles, CoreAddsProfile(p)
  PROVE  Base'
<1> DEFINE m == ProfileEvent("profileAdded", p)
<1>1. /\ p \notin core.profiles \cup deleted
      /\ core' = [core EXCEPT !.profiles = @ \cup {p}]
      /\ UNCHANGED <<deleted, removed, connected, boundVars, linkVars, uiVars>>
      /\ version < MaxChanges + 1 /\ version' = version + 1
  BY DEF CoreAddsProfile, NewVersion
<1>2. version + 1 \in Versions
  BY <1>1, RoomForVersion
<1>3. inbox' = Reported(m)
  BY DEF CoreAddsProfile, ProfileEvent
<1>4. m \in Messages /\ ~IsAnswer(m)
  BY DEF Messages, ProfileEvents, ProfileEvent, IsAnswer
<1> HIDE DEF m
<1>5. inbox' \in Seq(Messages)
  BY <1>3, <1>4, ReportedIs
<1>6. AnswersInv' /\ SaysInv'
  BY <1>1, <1>3, <1>4, ReportedKept
<1>7. /\ core'.profiles = core.profiles \cup {p} /\ core'.active = core.active
      /\ core'.pages = core.pages /\ core'.groups = core.groups
  BY <1>1 DEF Base, TypeInv, CoreTyped
<1>8. CoreTyped'
  BY <1>1, <1>2 DEF Base, TypeInv, CoreTyped
<1>9. CoreInv'
  BY <1>1, <1>7 DEF Base, CoreInv, Whats
<1>10. LinkTyped(requests', handlers', nextId') /\ BoundTyped' /\ UiTyped' /\ BoundInv'
  BY <1>1, LinkUnchanged
<1>11. LinkInv'
  <2>1. ~connected => inbox' = inbox
    BY <1>3 DEF Reported
  <2> QED BY <1>1, <2>1 DEF Base, LinkInv, linkVars, uiVars
<1>12. TypeInv'
  BY <1>5, <1>8, <1>10 DEF TypeInv
<1> QED BY <1>6, <1>9, <1>10, <1>11, <1>12 DEF Base

\* The tables of the core without the items of a deleted profile.
LEMMA DeletesProfileFacts ==
  ASSUME Base, NEW p \in Profiles, CoreDeletesProfile(p)
  PROVE  /\ p \in core.profiles /\ core'.profiles = core.profiles \ {p}
         /\ core'.active = IF core.active = p THEN None ELSE core.active
         /\ \A w \in Whats : core'[w] = [i \in Items |-> IF i[1] = p THEN Absent ELSE core[w][i]]
         /\ deleted' = deleted \cup {p} /\ removed' = removed
         /\ inbox' = Reported(ProfileEvent("profileDeleted", p))
         /\ UNCHANGED <<removed, connected, boundVars, linkVars, uiVars>>
         /\ version < MaxChanges + 1 /\ version' = version + 1
         /\ CoreTyped'
<1>1. /\ p \in core.profiles /\ deleted' = deleted \cup {p}
      /\ core' = [profiles |-> core.profiles \ {p},
                  active |-> IF core.active = p THEN None ELSE core.active,
                  pages |-> [i \in Items |-> IF i[1] = p THEN Absent ELSE core.pages[i]],
                  groups |-> [i \in Items |-> IF i[1] = p THEN Absent ELSE core.groups[i]]]
      /\ inbox' = Reported([type |-> "profileDeleted", profile |-> p])
      /\ UNCHANGED <<removed, connected, boundVars, linkVars, uiVars>>
      /\ version < MaxChanges + 1 /\ version' = version + 1
  BY DEF CoreDeletesProfile, NewVersion
<1>2. version + 1 \in Versions
  BY <1>1, RoomForVersion
<1>3. CoreTyped /\ core.pages \in [Items -> {Absent} \cup Versions]
      /\ core.groups \in [Items -> {Absent} \cup Versions]
  BY DEF Base, TypeInv, CoreTyped
<1>4. CoreTyped'
  <2>1. /\ [i \in Items |-> IF i[1] = p THEN Absent ELSE core.pages[i]]
             \in [Items -> {Absent} \cup Versions]
        /\ [i \in Items |-> IF i[1] = p THEN Absent ELSE core.groups[i]]
             \in [Items -> {Absent} \cup Versions]
    BY <1>3
  <2>2. (IF core.active = p THEN None ELSE core.active) \in Profiles \cup {None}
    BY <1>3 DEF CoreTyped
  <2>3. core.profiles \ {p} \in SUBSET Profiles
    BY <1>3 DEF CoreTyped
  <2>4. core' \in [profiles : SUBSET Profiles, active : Profiles \cup {None},
                   pages : [Items -> {Absent} \cup Versions],
                   groups : [Items -> {Absent} \cup Versions]]
    BY <1>1, <2>1, <2>2, <2>3
  <2> QED BY <1>1, <1>2, <1>3, <2>4 DEF CoreTyped
<1>5. \A w \in Whats : core'[w] = [i \in Items |-> IF i[1] = p THEN Absent ELSE core[w][i]]
  BY <1>1 DEF Whats
<1>6. core'.profiles = core.profiles \ {p}
      /\ core'.active = IF core.active = p THEN None ELSE core.active
  BY <1>1
<1> QED BY <1>1, <1>4, <1>5, <1>6 DEF ProfileEvent

LEMMA DeletesProfileBase ==
  ASSUME Base, NEW p \in Profiles, CoreDeletesProfile(p)
  PROVE  Base'
<1> DEFINE m == ProfileEvent("profileDeleted", p)
<1>1. /\ p \in core.profiles /\ core'.profiles = core.profiles \ {p}
      /\ \A w \in Whats : core'[w] = [i \in Items |-> IF i[1] = p THEN Absent ELSE core[w][i]]
      /\ deleted' = deleted \cup {p} /\ removed' = removed
      /\ inbox' = Reported(m)
      /\ UNCHANGED <<removed, connected, boundVars, linkVars, uiVars>>
      /\ version < MaxChanges + 1 /\ version' = version + 1
      /\ CoreTyped'
  BY DeletesProfileFacts
<1>2. m \in Messages /\ ~IsAnswer(m)
  BY DEF Messages, ProfileEvents, ProfileEvent, IsAnswer
<1> HIDE DEF m
<1>3. inbox' \in Seq(Messages)
  BY <1>1, <1>2, ReportedIs
<1>4. AnswersInv' /\ SaysInv'
  BY <1>1, <1>2, ReportedKept
<1>5. CoreInv'
  <2>1. ASSUME NEW w \in Whats, NEW i \in Items, core'[w][i] # Absent
        PROVE  i[1] \in core'.profiles
    <3>1. core'[w][i] = IF i[1] = p THEN Absent ELSE core[w][i]
      BY <1>1
    <3>2. i[1] # p /\ i[1] \in core.profiles
      BY <2>1, <3>1 DEF Base, CoreInv
    <3> QED BY <1>1, <3>2
  <2>2. ASSUME NEW w \in Whats, NEW i \in Items, <<w, i>> \in removed'
        PROVE  i[1] \in core'.profiles \cup deleted'
    <3>1. i[1] \in core.profiles \cup deleted
      BY <1>1, <2>2 DEF Base, CoreInv
    <3> QED BY <1>1, <3>1
  <2>3. core'.profiles \cap deleted' = {}
    BY <1>1 DEF Base, CoreInv
  <2> QED BY <2>1, <2>2, <2>3 DEF CoreInv
<1>6. LinkTyped(requests', handlers', nextId') /\ BoundTyped' /\ UiTyped' /\ BoundInv'
  BY <1>1, LinkUnchanged
<1>7. LinkInv'
  <2>1. ~connected => inbox' = inbox
    BY <1>1 DEF Reported
  <2> QED BY <1>1, <2>1 DEF Base, LinkInv, linkVars, uiVars
<1>8. TypeInv'
  BY <1>1, <1>3, <1>6 DEF TypeInv
<1> QED BY <1>4, <1>5, <1>6, <1>7, <1>8 DEF Base

-----------------------------------------------------------------------------
(* The core answers                                                        *)

LEMMA CoreAnswersFacts ==
  ASSUME Base, NEW r \in requests, CoreAnswers(r)
  PROVE  /\ connected /\ requests' = requests \ {r}
         /\ UNCHANGED <<deleted, removed, connected, boundVars, nextId, handlers, uiVars>>
         /\ r.kind = "active" => core.active \in Profiles
         /\ r.kind \in {"profile", "pages", "groups", "switch"} => r.of \in core.profiles
         /\ r.kind = "update" =>
              /\ r.of \in Items /\ core.pages[r.of] # Absent
              /\ version' = version + 1 /\ version' \in Versions
              /\ SetsTo("pages", r.of, version + 1)
              /\ inbox' = Append(Append(inbox, ItemEvent("pages", r.of, version + 1, FALSE)),
                                 Success(r))
         /\ r.kind # "update" =>
              /\ version' = version /\ inbox' = Append(inbox, Success(r))
              /\ core' = IF r.kind = "switch" THEN [core EXCEPT !.active = r.of] ELSE core
<1>1. connected /\ inbox \in Seq(Messages)
  BY DEF Base, LinkInv, TypeInv
<1>2. /\ requests' = requests \ {r}
      /\ UNCHANGED <<deleted, removed, connected, boundVars, nextId, handlers, uiVars>>
  BY DEF CoreAnswers
<1>3. r \in Request /\ OfKind(r) /\ core.active \in Profiles \cup {None}
  BY DEF Base, TypeInv, LinkTyped, CoreTyped
<1>4. r.kind = "active" => core.active \in Profiles
  BY <1>3 DEF CoreAnswers
<1>5. r.kind \in {"profile", "pages", "groups", "switch"} => r.of \in core.profiles
  BY DEF CoreAnswers
<1>6. CASE r.kind = "update"
  <2> DEFINE e == ItemEvent("pages", r.of, version + 1, FALSE)
  <2>1. r.of \in Items /\ core.pages[r.of] # Absent
    BY <1>3, <1>6 DEF CoreAnswers, OfKind
  <2>2. version' = version + 1 /\ SetsTo("pages", r.of, version + 1)
    BY <1>6 DEF CoreAnswers, SetsTo
  <2>3. version + 1 \in Versions
    BY <1>6, RoomForVersion
  <2>4. inbox' = inbox \o <<e, Success(r)>>
    BY <1>6 DEF CoreAnswers, ItemEvent
  <2>5. e \in Messages /\ Success(r) \in Messages
    <3>1. "pages" \in Whats
      BY DEF Whats
    <3>2. e \in ItemEvents
      BY <2>1, <2>3, <3>1 DEF ItemEvents, ItemEvent
    <3> QED BY <3>2, AnswersTyped DEF Messages
  <2> HIDE DEF e
  <2>6. inbox \o <<e, Success(r)>> = Append(Append(inbox, e), Success(r))
    <3> DEFINE s == Success(r)
    <3> HIDE DEF s
    <3>1. s \in Messages
      BY <2>5 DEF s
    <3>2. inbox \o <<e, s>> = Append(Append(inbox, e), s)
      BY <1>1, <2>5, <3>1
    <3> QED BY <3>2 DEF s
  <2> QED BY <1>1, <1>2, <1>6, <2>1, <2>2, <2>3, <2>4, <2>6 DEF e
<1>7. CASE r.kind # "update"
  <2>1. /\ version' = version /\ inbox' = Append(inbox, Success(r))
        /\ core' = IF r.kind = "switch" THEN [core EXCEPT !.active = r.of] ELSE core
    BY <1>7 DEF CoreAnswers
  <2> QED BY <1>1, <1>2, <1>4, <1>5, <1>7, <2>1
<1> QED BY <1>6, <1>7

\* A request that is over leaves room for its version.
LEMMA RequestOver ==
  ASSUME Base, NEW r \in requests
  PROVE  /\ IsFiniteSet(requests \ {r})
         /\ Cardinality(Updates(requests \ {r})) <= inputs
         /\ version + Cardinality(Updates(requests \ {r})) <= MaxChanges + 1 + inputs
         /\ r.kind = "update" =>
              version + 1 + Cardinality(Updates(requests \ {r})) <= MaxChanges + 1 + inputs
<1> DEFINE old == Updates(requests)
           new == Updates(requests \ {r})
<1>1. IsFiniteSet(requests) /\ IsFiniteSet(requests \ {r}) /\ IsFiniteSet(old)
  BY FS_Subset DEF Base, BoundInv, Updates
<1>2. new = old \ {r} /\ (r.kind = "update" <=> r \in old)
  BY DEF Updates
<1>3. /\ Cardinality(old) \in Nat /\ Cardinality(new) \in Nat
      /\ Cardinality(new) = IF r \in old THEN Cardinality(old) - 1 ELSE Cardinality(old)
  BY <1>1, <1>2, FS_RemoveElement, FS_CardinalityType
<1>4. /\ Cardinality(old) <= inputs /\ version + Cardinality(old) <= MaxChanges + 1 + inputs
      /\ version \in Nat /\ inputs \in Nat /\ MaxChanges \in Nat
  BY ProfilePagesAssumption DEF Base, BoundInv, TypeInv, CoreTyped, BoundTyped, Versions
<1> HIDE DEF old, new
<1>5. /\ Cardinality(new) <= inputs /\ version + Cardinality(new) <= MaxChanges + 1 + inputs
      /\ r \in old => version + 1 + Cardinality(new) <= MaxChanges + 1 + inputs
  BY <1>3, <1>4
<1> QED BY <1>1, <1>2, <1>5 DEF new

\* After the request is over the rest is as it was.
LEMMA RestKept ==
  ASSUME Base, NEW r \in requests, requests' = requests \ {r},
         UNCHANGED <<connected, nextId, handlers, uiVars>>
  PROVE  /\ LinkTyped(requests', handlers', nextId') /\ UiTyped' /\ LinkInv'
         /\ LinkTyped(requests, handlers, nextId) /\ inbox \in Seq(Messages)
         /\ AnswersIn(inbox, requests, handlers, nextId)
         /\ \A p \in DOMAIN inbox : Says(inbox[p])
<1>1. connected
  BY DEF Base, LinkInv
<1>2. LinkTyped(requests', handlers', nextId')
  BY DEF Base, TypeInv, LinkTyped
<1>3. UiTyped'
  BY DEF Base, TypeInv, uiVars, profileVars, pageVars, groupVars, UiTyped
<1>4. LinkInv'
  BY <1>1 DEF LinkInv
<1> QED BY <1>2, <1>3, <1>4 DEF Base, TypeInv, AnswersInv, SaysInv

LEMMA CoreRefusesBase ==
  ASSUME Base, NEW r \in requests, CoreRefuses(r)
  PROVE  Base'
<1>1. /\ requests' = requests \ {r} /\ inbox' = Append(inbox, Failure(r))
      /\ UNCHANGED <<coreVars, connected, inputs, nextId, handlers, uiVars>>
      /\ faults' = faults + 1 /\ faults < MaxFaults
  BY DEF CoreRefuses, Fault
<1>2. /\ LinkTyped(requests', handlers', nextId') /\ UiTyped' /\ LinkInv'
      /\ LinkTyped(requests, handlers, nextId) /\ inbox \in Seq(Messages)
      /\ AnswersIn(inbox, requests, handlers, nextId)
      /\ \A p \in DOMAIN inbox : Says(inbox[p])
  BY <1>1, RestKept
<1>3. /\ Failure(r) \in Messages /\ IsAnswer(Failure(r)) /\ Says(Failure(r))
      /\ Failure(r).request = r
  BY AnswersTyped
<1>4. inbox' \in Seq(Messages) /\ SaysInv'
  BY <1>1, <1>2, <1>3, Appended, AppendSays DEF SaysInv
<1>5. AnswersInv'
  <2>1. AnswersIn(Append(inbox, Failure(r)), requests \ {r}, handlers, nextId)
    BY <1>2, <1>3, AppendAnswers
  <2> QED BY <1>1, <2>1 DEF AnswersInv
<1>6. BoundInv' /\ BoundTyped'
  <2>1. faults' \in 0..MaxFaults
    BY <1>1, ProfilePagesAssumption DEF Base, TypeInv, BoundTyped
  <2>2. BoundInv'
    BY <1>1, RequestOver DEF BoundInv, coreVars
  <2> QED BY <1>1, <2>1, <2>2 DEF Base, TypeInv, BoundTyped
<1>7. CoreTyped' /\ CoreInv'
  BY <1>1 DEF Base, TypeInv, CoreTyped, CoreInv, coreVars
<1> QED BY <1>2, <1>4, <1>5, <1>6, <1>7 DEF Base, TypeInv

LEMMA CoreAnswersBase ==
  ASSUME Base, NEW r \in requests, CoreAnswers(r)
  PROVE  Base'
<1> DEFINE e == ItemEvent("pages", r.of, version + 1, FALSE)
           s == Success(r)
<1>1. /\ connected /\ requests' = requests \ {r}
      /\ UNCHANGED <<deleted, removed, connected, boundVars, nextId, handlers, uiVars>>
      /\ r.kind = "active" => core.active \in Profiles
      /\ r.kind \in {"profile", "pages", "groups", "switch"} => r.of \in core.profiles
      /\ r.kind = "update" =>
           /\ r.of \in Items /\ core.pages[r.of] # Absent
           /\ version' = version + 1 /\ version' \in Versions
           /\ SetsTo("pages", r.of, version + 1)
           /\ inbox' = Append(Append(inbox, e), s)
      /\ r.kind # "update" =>
           /\ version' = version /\ inbox' = Append(inbox, s)
           /\ core' = IF r.kind = "switch" THEN [core EXCEPT !.active = r.of] ELSE core
  BY CoreAnswersFacts
<1>2. /\ LinkTyped(requests', handlers', nextId') /\ UiTyped' /\ LinkInv'
      /\ LinkTyped(requests, handlers, nextId) /\ inbox \in Seq(Messages)
      /\ AnswersIn(inbox, requests, handlers, nextId)
      /\ \A p \in DOMAIN inbox : Says(inbox[p])
  BY <1>1, RestKept
<1>3. s \in Messages /\ IsAnswer(s) /\ s.request = r /\ Says(s)
  <2>1. /\ s \in Messages /\ IsAnswer(s) /\ s.request = r /\ s.data = Content(r)
        /\ r.kind = "active" => Content(r) = core.active
        /\ r.kind \in Whats => Content(r) \in Contents
        /\ r.kind \in {"switch", "profile"} => Content(r) = r.of
    BY AnswersTyped
  <2> HIDE DEF s
  <2> QED BY <1>1, <2>1 DEF Says
<1>4. r.kind = "update" => e \in Messages /\ ~IsAnswer(e)
  <2>1. e.type = "pages"
    BY DEF ItemEvent
  <2>2. r.kind = "update" => e \in ItemEvents
    BY <1>1 DEF ItemEvents, ItemEvent, Whats
  <2> HIDE DEF e
  <2> QED BY <2>1, <2>2 DEF Messages, IsAnswer
<1> HIDE DEF e, s
<1>5. PICK box \in Seq(Messages) :
        /\ inbox' = Append(box, s) /\ AnswersIn(box, requests, handlers, nextId)
        /\ \A p \in DOMAIN box : Says(box[p])
  <2>1. CASE r.kind = "update"
    <3>1. e \in Messages /\ ~IsAnswer(e) /\ Says(e) /\ inbox' = Append(Append(inbox, e), s)
      BY <1>1, <1>4, <2>1 DEF Says
    <3>2. AnswersIn(Append(inbox, e), requests, handlers, nextId)
      BY <1>2, <3>1, AppendAnswers
    <3>3. /\ Append(inbox, e) \in Seq(Messages)
          /\ \A p \in DOMAIN Append(inbox, e) : Says(Append(inbox, e)[p])
      BY <1>2, <3>1, Appended, AppendSays
    <3> QED BY <3>1, <3>2, <3>3
  <2>2. CASE r.kind # "update"
    BY <1>1, <1>2, <2>2
  <2> QED BY <2>1, <2>2
<1>6. inbox' \in Seq(Messages) /\ SaysInv'
  BY <1>3, <1>5, Appended, AppendSays DEF SaysInv
<1>7. AnswersInv'
  <2>1. AnswersIn(Append(box, s), requests \ {r}, handlers, nextId)
    BY <1>2, <1>3, <1>5, AppendAnswers
  <2> QED BY <1>1, <1>5, <2>1 DEF AnswersInv
<1>8. BoundTyped' /\ BoundInv'
  <2>1. BoundTyped'
    BY <1>1 DEF Base, TypeInv, BoundTyped, boundVars
  <2>2. /\ requests' = requests \ {r} /\ inputs' = inputs
        /\ version' = IF r.kind = "update" THEN version + 1 ELSE version
    BY <1>1 DEF boundVars
  <2>3. /\ IsFiniteSet(requests \ {r})
        /\ Cardinality(Updates(requests \ {r})) <= inputs
        /\ version + Cardinality(Updates(requests \ {r})) <= MaxChanges + 1 + inputs
        /\ r.kind = "update" =>
             version + 1 + Cardinality(Updates(requests \ {r})) <= MaxChanges + 1 + inputs
    BY RequestOver
  <2>4. BoundInv'
    BY <2>2, <2>3 DEF BoundInv
  <2> QED BY <2>1, <2>4
<1>9. CoreTyped' /\ CoreInv'
  <2>1. CoreTyped /\ CoreInv
    BY DEF Base, TypeInv
  <2>2. CASE r.kind = "update"
    <3>1. "pages" \in Whats
      BY DEF Whats
    <3>2. /\ core'["pages"] = [core["pages"] EXCEPT ![r.of] = version + 1]
          /\ \A u \in Whats : u # "pages" => core'[u] = core[u]
          /\ core'.profiles = core.profiles
          /\ core' = [profiles |-> core.profiles, active |-> core.active,
                      pages |-> core'.pages, groups |-> core'.groups]
      BY <1>1, <2>1, <2>2, <3>1, CoreItemSet
    <3>3. \A u \in Whats : core[u] \in [Items -> {Absent} \cup Versions]
      BY <2>1, TableTyped
    <3>4. \A u \in Whats : core'[u] \in [Items -> {Absent} \cup Versions]
      BY <1>1, <2>2, <3>2, <3>3
    <3>5. core' \in [profiles : SUBSET Profiles, active : Profiles \cup {None},
                     pages : [Items -> {Absent} \cup Versions],
                     groups : [Items -> {Absent} \cup Versions]]
      <4>1. core'.pages \in [Items -> {Absent} \cup Versions]
            /\ core'.groups \in [Items -> {Absent} \cup Versions]
        BY <3>4 DEF Whats
      <4> QED BY <2>1, <3>2, <4>1 DEF CoreTyped
    <3>6. CoreTyped'
      BY <1>1, <2>1, <2>2, <3>5 DEF CoreTyped
    <3>7. ASSUME NEW u \in Whats, NEW j \in Items, core'[u][j] # Absent
          PROVE  j[1] \in core.profiles
      BY <1>1, <2>1, <2>2, <3>2, <3>3, <3>7 DEF CoreInv, Whats
    <3> QED BY <1>1, <2>1, <3>2, <3>6, <3>7 DEF CoreInv
  <2>3. CASE r.kind # "update"
    <3>1. /\ core'.profiles = core.profiles /\ core'.pages = core.pages
          /\ core'.groups = core.groups /\ CoreTyped'
      <4>1. CASE r.kind = "switch"
        BY <1>1, <2>1, <4>1 DEF CoreTyped
      <4>2. CASE r.kind # "switch"
        BY <1>1, <2>1, <2>3, <4>2 DEF CoreTyped
      <4> QED BY <4>1, <4>2
    <3> QED BY <1>1, <2>1, <3>1 DEF CoreInv, Whats
  <2> QED BY <2>2, <2>3
<1> QED BY <1>2, <1>6, <1>7, <1>8, <1>9 DEF Base, TypeInv

-----------------------------------------------------------------------------
(* The type invariant                                                      *)

LEMMA RoomKept ==
  ASSUME NEW c \in Nat, NEW v \in Nat, NEW i \in Nat, NEW j \in Nat, NEW n \in Nat, NEW k \in Nat,
         n <= i, v + n <= c + 1 + i, i <= j, k = n \/ (j = i + 1 /\ k <= n + 1)
  PROVE  k <= j /\ v + k <= c + 1 + j
  OBVIOUS

LEMMA UiStepBase ==
  ASSUME Base, UiStep
  PROVE  Base'
<1>1. UiTyped' /\ \E settled, new : UiFrame(settled, new)
  BY UiFrames
<1>2. PICK settled, new : UiFrame(settled, new)
  BY <1>1
<1>3. /\ Links(settled, new) /\ UNCHANGED <<coreVars, connected>>
      /\ inbox' = inbox \/ (inbox # <<>> /\ inbox' = Tail(inbox))
      /\ inputs' \in inputs..MaxInputs /\ faults' \in 0..MaxFaults
      /\ ~connected => loaded' \subseteq loaded
      /\ Updates(new) = {} \/ (inputs' = inputs + 1 /\ \E c : new = {c})
  BY <1>2 DEF UiFrame
<1>4. /\ LinkTyped(requests, handlers, nextId) /\ inbox \in Seq(Messages)
      /\ AnswersIn(inbox, requests, handlers, nextId)
      /\ \A p \in DOMAIN inbox : Says(inbox[p])
  BY DEF Base, TypeInv, AnswersInv, SaysInv
<1>5. LinkTyped(requests', handlers', nextId')
  BY <1>3, <1>4, LinksTyped
<1>6. AnswersIn(inbox, requests', handlers', nextId')
  BY <1>3, <1>4, LinksAnswers
<1>7. inbox' \in Seq(Messages) /\ AnswersInv' /\ SaysInv'
  <2>1. CASE inbox' = inbox
    BY <1>4, <1>6, <2>1 DEF AnswersInv, SaysInv
  <2>2. CASE inbox # <<>> /\ inbox' = Tail(inbox)
    BY <1>4, <1>6, <2>2, HeadTyped, TailAnswers, TailSays DEF AnswersInv, SaysInv
  <2> QED BY <1>3, <2>1, <2>2
<1>8. CoreTyped' /\ CoreInv'
  BY <1>3 DEF Base, TypeInv, CoreTyped, CoreInv, coreVars
<1>9. BoundTyped' /\ BoundInv'
  <2>1. inputs \in 0..MaxInputs /\ MaxInputs \in Nat /\ MaxChanges \in Nat /\ version \in Nat
    BY ProfilePagesAssumption DEF Base, TypeInv, CoreTyped, BoundTyped, Versions
  <2>2. BoundTyped'
    BY <1>3, <2>1 DEF Base, TypeInv, BoundTyped
  <2>3. IsFiniteSet(requests') /\ IsFiniteSet(Updates(requests)) /\ IsFiniteSet(new)
    BY <1>3, FS_Union, FS_Subset DEF Base, BoundInv, Links, Updates
  <2>4. Updates(requests') = Updates(requests) \cup Updates(new)
    BY <1>3 DEF Updates, Links
  <2> DEFINE n == Cardinality(Updates(requests))
             k == Cardinality(Updates(requests'))
  <2>5. n \in Nat /\ n <= inputs /\ version + n <= MaxChanges + 1 + inputs
    BY <2>3, FS_CardinalityType DEF Base, BoundInv
  <2>6. k \in Nat /\ (k = n \/ (inputs' = inputs + 1 /\ k <= n + 1))
    <3>1. CASE Updates(new) = {}
      BY <2>4, <2>5, <3>1
    <3>2. CASE inputs' = inputs + 1 /\ \E c : new = {c}
      <4>1. PICK c : new = {c}
        BY <3>2
      <4>2. \/ Updates(requests') = Updates(requests)
            \/ Updates(requests') = Updates(requests) \cup {c}
        BY <2>4, <4>1 DEF Updates
      <4>3. Cardinality(Updates(requests) \cup {c}) \in {n, n + 1}
        BY <2>3, FS_AddElement
      <4>4. k \in {n, n + 1}
        BY <4>2, <4>3
      <4> HIDE DEF n, k
      <4> QED BY <2>5, <3>2, <4>4
    <3> QED BY <1>3, <3>1, <3>2
  <2>7. k <= inputs' /\ version + k <= MaxChanges + 1 + inputs'
    <3>1. inputs' \in Nat /\ inputs' >= inputs
      BY <1>3, <2>1
    <3>2. inputs \in Nat
      BY <2>1
    <3> QED BY <2>1, <2>5, <2>6, <3>1, <3>2, RoomKept
  <2>8. version' = version
    BY <1>3 DEF coreVars
  <2> QED BY <2>2, <2>3, <2>7, <2>8 DEF BoundInv
<1>10. LinkInv'
  <2>1. ~connected => new = {} /\ requests' = requests
    BY <1>3 DEF Links
  <2>2. ~connected => inbox = <<>> /\ requests = {} /\ loaded = {}
    BY DEF Base, LinkInv
  <2> QED BY <1>3, <2>1, <2>2 DEF LinkInv
<1> QED BY <1>1, <1>5, <1>7, <1>8, <1>9, <1>10 DEF Base, TypeInv

LEMMA DisconnectedBase ==
  ASSUME Base, CoreDisconnected
  PROVE  Base'
<1>1. /\ connected' = FALSE /\ requests' = {} /\ inbox' = <<>> /\ loaded' = {}
      /\ faults < MaxFaults /\ faults' = faults + 1
      /\ UNCHANGED <<coreVars, inputs, nextId, handlers, profileVars, pageVars, groupVars>>
  BY DEF CoreDisconnected, Fault
<1>2. CoreTyped' /\ CoreInv'
  BY <1>1 DEF Base, TypeInv, CoreTyped, CoreInv, coreVars
<1>3. BoundTyped'
  <2>1. connected' \in BOOLEAN
    BY <1>1
  <2>2. inputs' = inputs /\ faults < MaxFaults /\ faults' = faults + 1
    BY <1>1
  <2>3. inputs' \in 0..MaxInputs /\ faults' \in 0..MaxFaults
    BY <2>2, ProfilePagesAssumption DEF Base, TypeInv, BoundTyped
  <2> QED BY <2>1, <2>3 DEF BoundTyped
<1>4. UiTyped'
  BY <1>1 DEF Base, TypeInv, UiTyped, profileVars, pageVars, groupVars
<1>5. LinkTyped(requests', handlers', nextId')
  BY <1>1 DEF Base, TypeInv, LinkTyped
<1>6. inbox' \in Seq(Messages) /\ DOMAIN inbox' = {}
  BY <1>1
<1>7. AnswersInv' /\ SaysInv'
  BY <1>6 DEF AnswersInv, AnswersIn, SaysInv
<1>8. BoundInv'
  <2>1. /\ version \in Nat /\ inputs \in Nat /\ MaxChanges \in Nat
        /\ version' = version /\ inputs' = inputs
    BY <1>1, ProfilePagesAssumption DEF Base, TypeInv, CoreTyped, BoundTyped, Versions, coreVars
  <2>2. IsFiniteSet(Updates(requests)) /\ Updates({}) = {}
    BY FS_Subset DEF Base, BoundInv, Updates
  <2>3. Cardinality(Updates(requests)) \in Nat
    BY <2>2, FS_CardinalityType
  <2>4. version <= MaxChanges + 1 + inputs
    BY <2>1, <2>3 DEF Base, BoundInv
  <2>5. IsFiniteSet({}) /\ Cardinality({}) = 0
    BY FS_EmptySet
  <2>6. requests' = {}
    BY <1>1
  <2> QED BY <2>1, <2>2, <2>4, <2>5, <2>6 DEF BoundInv
<1>9. LinkInv'
  BY <1>1 DEF LinkInv
<1> QED BY <1>2, <1>3, <1>4, <1>5, <1>6, <1>7, <1>8, <1>9 DEF Base, TypeInv

LEMMA ConnectedLinks ==
  ASSUME Base, CoreConnected
  PROVE  LET r == Call(nextId, "active", None)
         IN  /\ requests = {} /\ inbox = <<>> /\ loaded = {}
             /\ requests' = {r} /\ handlers' = handlers \cup {r} /\ nextId' = nextId + 1
             /\ r \in Request /\ r.kind = "active" /\ r.id = nextId
             /\ LinkTyped(requests', handlers', nextId')
<1> DEFINE r == Call(nextId, "active", None)
<1>1. requests' = {r} /\ handlers' = handlers \cup {r} /\ nextId' = nextId + 1
  BY DEF CoreConnected, Call
<1>2. requests = {} /\ inbox = <<>> /\ loaded = {} /\ nextId \in Nat \ {0}
  BY DEF CoreConnected, Base, LinkInv, TypeInv, LinkTyped
<1>3. r \in Request /\ r.id = nextId /\ r.kind = "active" /\ OfKind(r)
  BY <1>2, CallTyped DEF Kinds, OfKind
<1> HIDE DEF r
<1>4. \A s \in handlers : s.id \in Nat /\ s.id < nextId /\ OfKind(s) /\ s \in Request
  BY DEF Base, TypeInv, LinkTyped, Request
<1>5. LinkTyped(requests', handlers', nextId')
  <2>1. requests' \cup handlers' = handlers \cup {r}
    BY <1>1
  <2>2. \A s, t \in handlers : s.id = t.id => s = t
    BY DEF Base, TypeInv, LinkTyped
  <2>3. \A s, t \in handlers \cup {r} : s.id = t.id => s = t
    BY <1>2, <1>3, <1>4, <2>2
  <2>4. \A s \in handlers \cup {r} : OfKind(s) /\ s.id < nextId + 1
    BY <1>2, <1>3, <1>4
  <2> QED BY <1>1, <1>2, <1>3, <1>4, <2>1, <2>3, <2>4 DEF LinkTyped
<1> QED BY <1>1, <1>2, <1>3, <1>5 DEF r

LEMMA ConnectedBase ==
  ASSUME Base, CoreConnected
  PROVE  Base'
<1> DEFINE r == Call(nextId, "active", None)
<1>1. /\ requests = {} /\ inbox = <<>> /\ requests' = {r} /\ r.kind = "active"
      /\ LinkTyped(requests', handlers', nextId')
  BY ConnectedLinks
<1> HIDE DEF r
<1>2. /\ connected' = TRUE /\ inDoubt' = FALSE
      /\ UNCHANGED <<coreVars, boundVars, inbox, current, shown, profileLoad, pageVars, groupVars,
                     loaded>>
  BY DEF CoreConnected
<1>3. CoreTyped' /\ CoreInv'
  BY <1>2 DEF Base, TypeInv, CoreTyped, CoreInv, coreVars
<1>4. BoundTyped'
  BY <1>2 DEF Base, TypeInv, BoundTyped, boundVars
<1>5. UiTyped'
  BY <1>2 DEF Base, TypeInv, UiTyped, pageVars, groupVars
<1>6. inbox' \in Seq(Messages) /\ DOMAIN inbox' = {}
  BY <1>1, <1>2
<1>7. AnswersInv' /\ SaysInv'
  BY <1>6 DEF AnswersInv, AnswersIn, SaysInv
<1>8. BoundInv'
  <2>1. Updates({r}) = {} /\ Updates({}) = {}
    BY <1>1 DEF Updates
  <2>2. IsFiniteSet({r}) /\ IsFiniteSet(requests')
    BY <1>1, FS_Singleton
  <2> QED BY <1>1, <1>2, <2>1, <2>2 DEF Base, BoundInv, coreVars, boundVars
<1>9. LinkInv'
  BY <1>2 DEF LinkInv
<1> QED BY <1>1, <1>3, <1>4, <1>5, <1>6, <1>7, <1>8, <1>9 DEF Base, TypeInv

LEMMA BaseInit == Init => Base
<1> SUFFICES ASSUME Init PROVE Base
  OBVIOUS
<1>1. PICK existing \in SUBSET Profiles, slots \in SUBSET Slots :
        LET items == [i \in Items |-> IF i[1] \in existing /\ i[2] \in slots THEN 1 ELSE Absent]
        IN \E active \in IF existing = {} THEN {None} ELSE existing :
             core = [profiles |-> existing, active |-> active, pages |-> items, groups |-> items]
  BY DEF Init
<1> DEFINE items == [i \in Items |-> IF i[1] \in existing /\ i[2] \in slots THEN 1 ELSE Absent]
<1>2. PICK active \in (IF existing = {} THEN {None} ELSE existing) :
        core = [profiles |-> existing, active |-> active, pages |-> items, groups |-> items]
  BY <1>1
<1>3. MaxChanges \in Nat /\ MaxInputs \in Nat /\ MaxFaults \in Nat /\ 1 \in Versions
  BY ProfilePagesAssumption DEF Versions
<1>4. items \in [Items -> {Absent} \cup Versions]
  BY <1>3
<1>5. \A i \in Items : items[i] # Absent => i[1] \in existing
  OBVIOUS
<1> HIDE DEF items
<1>6. /\ deleted = {} /\ removed = {} /\ version = 1
      /\ connected = FALSE /\ inputs = 0 /\ faults = 0
      /\ nextId = 1 /\ requests = {} /\ handlers = {} /\ inbox = <<>>
      /\ current = None /\ shown = None /\ pages = <<>> /\ pagesRequest = 0
      /\ groups = NoItems /\ groupProfile = None /\ groupsRequest = 0
      /\ loaded = {} /\ profileLoad = "none" /\ inDoubt = TRUE
  BY DEF Init
<1>7. CoreTyped
  BY <1>2, <1>3, <1>4, <1>6 DEF CoreTyped
<1>8. CoreInv
  BY <1>2, <1>5, <1>6 DEF CoreInv, Whats
<1>9. BoundTyped
  <2>1. connected \in BOOLEAN
    BY <1>6
  <2>2. inputs = 0 /\ faults = 0
    BY <1>6
  <2> QED BY <1>3, <2>1, <2>2 DEF BoundTyped
<1>10. UiTyped
  BY <1>6 DEF UiTyped, NoItems
<1>11. LinkTyped(requests, handlers, nextId)
  BY <1>6 DEF LinkTyped
<1>12. inbox \in Seq(Messages) /\ AnswersInv /\ SaysInv /\ LinkInv
  BY <1>6 DEF AnswersInv, AnswersIn, SaysInv, LinkInv
<1>13. BoundInv
  <2>1. Updates(requests) = {} /\ IsFiniteSet({}) /\ Cardinality({}) = 0
    BY <1>6, FS_EmptySet DEF Updates
  <2>2. requests = {} /\ version = 1 /\ inputs = 0
    BY <1>6
  <2> QED BY <1>3, <2>1, <2>2 DEF BoundInv
<1> QED BY <1>7, <1>8, <1>9, <1>10, <1>11, <1>12, <1>13 DEF Base, TypeInv

LEMMA BaseNext == Base /\ [Next]_vars => Base'
<1> SUFFICES ASSUME Base, [Next]_vars PROVE Base'
  OBVIOUS
<1>1. UNCHANGED vars \/ CoreStep \/ UiStep \/ CoreDisconnected \/ CoreConnected
  BY NextCases DEF Base
<1>2. CASE UNCHANGED vars
  <2>1. UNCHANGED <<linkVars, boundVars, connected, uiVars, coreVars, inbox>>
    BY <1>2 DEF vars
  <2>2. LinkTyped(requests', handlers', nextId') /\ BoundTyped' /\ UiTyped' /\ BoundInv'
    BY <2>1, LinkUnchanged DEF coreVars
  <2>3. CoreTyped' /\ CoreInv'
    BY <2>1 DEF Base, TypeInv, CoreTyped, CoreInv, coreVars
  <2>4. inbox' \in Seq(Messages) /\ AnswersInv' /\ SaysInv'
    BY <2>1 DEF Base, TypeInv, AnswersInv, SaysInv, linkVars
  <2>5. LinkInv'
    BY <2>1 DEF Base, LinkInv, linkVars, uiVars
  <2> QED BY <2>2, <2>3, <2>4, <2>5 DEF Base, TypeInv
<1> QED
  BY <1>1, <1>2, UiStepBase, DisconnectedBase, ConnectedBase, SetsItemBase, AddsProfileBase,
     DeletesProfileBase, CoreAnswersBase, CoreRefusesBase DEF CoreStep

(***************************************************************************)
(* Every state is well typed: a request id is handed out once, versions    *)
(* stay within the changes and inputs, the lists are lists of pages.       *)
(***************************************************************************)
THEOREM TypeCorrect == Spec => []TypeOK
<1>1. Base => TypeOK
  BY TypeParts DEF Base
<1> QED BY <1>1, BaseInit, BaseNext, PTL DEF Spec

-----------------------------------------------------------------------------
(* The profile that is shown                                               *)

(***************************************************************************)
(* A load that nothing overlaps is for the current profile, and after it   *)
(* no answer to another is awaited.                                        *)
(***************************************************************************)
ProfileInv ==
  /\ profileLoad \in {"none", "done", "failed"} => Waiting("profile") = {}
  /\ profileLoad = "loading" =>
       /\ \A r \in Waiting("profile") : r.of = current
       /\ \A r, s \in Waiting("profile") : r = s
  /\ CurrentIsShown

\* Nothing changes but that an answer is not awaited, or the profile not shown, any more.
LEMMA ProfileKept ==
  ASSUME ProfileInv, UNCHANGED <<current, profileLoad>>, shown' \in {shown, None},
         {r \in handlers' : r.kind = "profile"} \subseteq Waiting("profile")
  PROVE  ProfileInv'
  BY DEF ProfileInv, CurrentIsShown, Waiting

LEMMA SentKinds ==
  ASSUME NEW k1 \in Kinds, NEW k2 \in Kinds, NEW of1, NEW of2
  PROVE  /\ \A r \in Sent1(k1, of1) : r.kind = k1 /\ r.of = of1 /\ r.id = nextId
         /\ \A r \in Sent2(k1, of1, k2, of2) :
              \/ r.kind = k1 /\ r.of = of1 /\ r.id = nextId
              \/ r.kind = k2 /\ r.of = of2 /\ r.id = nextId + 1
         /\ connected => Call(nextId, k1, of1) \in Sent1(k1, of1)
<1>1. /\ Call(nextId, k1, of1).kind = k1 /\ Call(nextId, k1, of1).of = of1
      /\ Call(nextId, k1, of1).id = nextId
      /\ Call(nextId + 1, k2, of2).kind = k2 /\ Call(nextId + 1, k2, of2).of = of2
      /\ Call(nextId + 1, k2, of2).id = nextId + 1
  BY DEF Call
<1>2. \A r \in Sent1(k1, of1) : r.kind = k1 /\ r.of = of1 /\ r.id = nextId
  BY <1>1 DEF Sent1
<1>3. \A r \in Sent2(k1, of1, k2, of2) :
        \/ r.kind = k1 /\ r.of = of1 /\ r.id = nextId
        \/ r.kind = k2 /\ r.of = of2 /\ r.id = nextId + 1
  BY <1>1 DEF Sent2
<1>4. connected => Call(nextId, k1, of1) \in Sent1(k1, of1)
  BY DEF Sent1
<1> QED BY <1>2, <1>3, <1>4

LEMMA KindsSent ==
  {"active", "profile", "pages", "groups", "switch", "update"} \subseteq Kinds /\ Kinds # {}
BY DEF Kinds

\* Requests of other kinds leave those of this kind alone.
LEMMA WaitingLess ==
  ASSUME NEW settled, NEW new, Links(settled, new), NEW kind, \A r \in new : r.kind # kind
  PROVE  {r \in handlers' : r.kind = kind} = Waiting(kind) \ settled
  BY DEF Links, Waiting

LEMMA ProfileUi ==
  ASSUME Base, UiStep, ProfileInv
  PROVE  ProfileInv'
<1>1. \A k \in {"pages", "switch", "update"} : \A of : \A r \in Sent1(k, of) : r.kind # "profile"
  <2> TAKE k \in {"pages", "switch", "update"}
  <2> TAKE of
  <2>1. k \in Kinds /\ k # "profile"
    BY KindsSent
  <2>2. \A r \in Sent1(k, of) : r.kind = k
    BY <2>1, SentKinds
  <2> QED BY <2>1, <2>2
<1>2. \A of : \A r \in Sent2("groups", of, "pages", of) : r.kind # "profile"
  <2> TAKE of
  <2>1. "groups" \in Kinds /\ "pages" \in Kinds
    BY KindsSent
  <2>2. \A r \in Sent2("groups", of, "pages", of) : r.kind = "groups" \/ r.kind = "pages"
    BY <2>1, SentKinds
  <2> QED BY <2>2
<1>3. \A settled, new : Links(settled, new) /\ (\A r \in new : r.kind # "profile") =>
        {r \in handlers' : r.kind = "profile"} = Waiting("profile") \ settled
  BY WaitingLess
<1>4. CASE Ignores /\ Links({}, {})
  BY <1>3, <1>4, ProfileKept DEF Ignores, uiVars, profileVars
<1>5. ASSUME NEW r \in handlers, Reads(r), r.kind \in {"active", "switch"},
             Selects(r, Head(inbox).data)
      PROVE  ProfileInv'
  <2> DEFINE p == Head(inbox).data
  <2>1. /\ current' = p /\ shown' = shown
        /\ handlers' = (handlers \ {r}) \cup Sent1("profile", p)
        /\ profileLoad' = IF {s \in handlers \ {r} : s.kind = "profile"} = {}
                          THEN "loading" ELSE "overlapping"
    BY <1>5 DEF Selects, Links
  <2>2. \A s, t \in Sent1("profile", p) : s.of = p /\ s = t
    BY SentKinds, KindsSent DEF Sent1
  <2>3. CASE {s \in handlers \ {r} : s.kind = "profile"} = {}
    <3>1. profileLoad' = "loading"
      BY <2>1, <2>3
    <3>2. {s \in handlers' : s.kind = "profile"} \subseteq Sent1("profile", p)
      BY <2>1, <2>3
    <3> HIDE DEF p
    <3> QED BY <2>1, <2>2, <3>1, <3>2 DEF ProfileInv, CurrentIsShown, Waiting
  <2>4. CASE {s \in handlers \ {r} : s.kind = "profile"} # {}
    BY <2>1, <2>4 DEF ProfileInv, CurrentIsShown
  <2> QED BY <2>3, <2>4
<1>6. ASSUME NEW r \in handlers, Reads(r), Concludes(r)
      PROVE  ProfileInv'
  BY <1>3, <1>6, ProfileKept DEF Concludes, uiVars, profileVars
<1>7. ASSUME NEW r \in handlers, r.kind = "profile", ProfileAnswer(r, r.of),
             Links({r}, Sent2("groups", r.of, "pages", r.of))
      PROVE  ProfileInv'
  <2>1. /\ shown' = r.of /\ current' = current
        /\ profileLoad' = IF profileLoad = "loading" THEN "done" ELSE profileLoad
    BY <1>7 DEF ProfileAnswer
  <2>2. {s \in handlers' : s.kind = "profile"} = Waiting("profile") \ {r}
    BY <1>2, <1>3, <1>7
  <2>3. r \in Waiting("profile")
    BY <1>7 DEF Waiting
  <2>4. CASE profileLoad = "loading"
    <3>1. {s \in handlers' : s.kind = "profile"} = {} /\ r.of = current
      BY <2>2, <2>3, <2>4 DEF ProfileInv
    <3> QED BY <2>1, <2>4, <3>1 DEF ProfileInv, CurrentIsShown, Waiting
  <2>5. CASE profileLoad # "loading"
    <3>1. profileLoad = "overlapping"
      BY <2>3, <2>5 DEF ProfileInv, Base, TypeInv, UiTyped
    <3> QED BY <2>1, <3>1 DEF ProfileInv, CurrentIsShown
  <2> QED BY <2>4, <2>5
<1>8. ASSUME NEW r \in handlers, NEW data, Links({r}, {}),
             PagesAnswer(r, data) \/ GroupsAnswer(r, data)
      PROVE  ProfileInv'
  BY <1>3, <1>8, ProfileKept DEF PagesAnswer, GroupsAnswer, profileVars
<1>9. ASSUME NEW r \in handlers, NEW isAnswer \in BOOLEAN, Fails(r, isAnswer),
             Links({r}, IF Reloads(r) THEN Sent1("pages", shown) ELSE {})
      PROVE  ProfileInv'
  <2>1. /\ current' = current /\ shown' = shown
        /\ profileLoad' = IF r.kind = "profile" /\ profileLoad = "loading" THEN "failed"
                          ELSE profileLoad
    BY <1>9 DEF Fails
  <2>2. {s \in handlers' : s.kind = "profile"} = Waiting("profile") \ {r}
    BY <1>1, <1>3, <1>9
  <2>3. CASE r.kind = "profile" /\ profileLoad = "loading"
    <3>1. {s \in handlers' : s.kind = "profile"} = {}
      BY <2>2, <2>3 DEF ProfileInv, Waiting
    <3> QED BY <2>1, <2>3, <3>1 DEF ProfileInv, CurrentIsShown, Waiting
  <2>4. CASE ~(r.kind = "profile" /\ profileLoad = "loading")
    BY <2>1, <2>2, <2>4, ProfileKept
  <2> QED BY <2>3, <2>4
<1>10. ASSUME Links({}, {}),
              \/ \E e \in ItemEvents : PageEvent(e) \/ GroupEvent(e)
              \/ \E e \in ProfileEvents : ProfileDeleted(e.profile)
       PROVE  ProfileInv'
  <2>1. UNCHANGED <<current, profileLoad>> /\ shown' \in {shown, None}
    BY <1>10 DEF PageEvent, GroupEvent, ProfileDeleted, profileVars
  <2> QED BY <1>3, <1>10, <2>1, ProfileKept
<1>11. ASSUME NEW p, Links({}, Sent1("switch", p)), ProfileAdded(p) \/ UserSwitches(p)
       PROVE  ProfileInv'
  BY <1>1, <1>3, <1>11, ProfileKept DEF ProfileAdded, UserSwitches, uiVars, profileVars
<1>12. ASSUME NEW i, Links({}, Sent1("update", i)), UserEditsPage(i)
       PROVE  ProfileInv'
  BY <1>1, <1>3, <1>12, ProfileKept DEF UserEditsPage, profileVars
<1> QED
  BY <1>4, <1>5, <1>6, <1>7, <1>8, <1>9, <1>10, <1>11, <1>12, UiEffects DEF UiEffect

LEMMA ProfileNext ==
  ASSUME Base, [Next]_vars, ProfileInv
  PROVE  ProfileInv'
<1>1. UNCHANGED vars \/ CoreStep \/ UiStep \/ CoreDisconnected \/ CoreConnected
  BY NextCases DEF Base
<1>2. CASE UNCHANGED vars \/ CoreStep \/ CoreDisconnected
  <2>1. UNCHANGED <<current, profileLoad, shown, handlers>>
    BY <1>2 DEF vars, CoreStep, CoreDisconnected, CoreSetsItem, CoreAddsProfile,
                CoreDeletesProfile, CoreAnswers, CoreRefuses, linkVars, uiVars, profileVars
  <2> QED BY <2>1, ProfileKept DEF Waiting
<1>3. CASE CoreConnected
  <2>1. UNCHANGED <<current, profileLoad, shown>>
    BY <1>3 DEF CoreConnected
  <2>2. {r \in handlers' : r.kind = "profile"} \subseteq Waiting("profile")
    BY <1>3, ConnectedLinks DEF Waiting
  <2> QED BY <2>1, <2>2, ProfileKept
<1> QED BY <1>1, <1>2, <1>3, ProfileUi

(***************************************************************************)
(* The profile whose load succeeded is the current one, unless it was      *)
(* deleted or its load overlapped with another.                            *)
(***************************************************************************)
THEOREM CurrentStaysShown == Spec => []CurrentIsShown
<1>1. Init => ProfileInv
  BY DEF Init, ProfileInv, CurrentIsShown, Waiting
<1>2. Base /\ ProfileInv /\ [Next]_vars => ProfileInv'
  BY ProfileNext
<1>3. ProfileInv => CurrentIsShown
  BY DEF ProfileInv
<1> QED BY <1>1, <1>2, <1>3, BaseInit, BaseNext, PTL DEF Spec

-----------------------------------------------------------------------------
(* The profile that is active                                              *)

Choices == {"active", "switch"}

\* An answer after which the UI has another current profile.
Decides(m) == IsAnswer(m) /\ m.ok /\ m.request.kind \in Choices

\* The profile the core has as the active one, or had before it was deleted.
Agreed(table, p) == table.active \in {p, None}

\* Every answer about the active profile, those on their way included, will be read.
AllHeard(box, rs, hs) ==
  /\ \A r \in rs : r.kind \in Choices => r \in hs
  /\ \A p \in DOMAIN box : IsAnswer(box[p]) /\ box[p].request.kind \in Choices =>
       box[p].request \in hs

\* The last of the answers on their way says which profile is active.
LastSays(box, table) ==
  \A p \in DOMAIN box :
    Decides(box[p]) /\ (\A q \in DOMAIN box : q > p => ~Decides(box[q])) =>
      Agreed(table, box[p].data)

Undecided(box) == \A p \in DOMAIN box : ~Decides(box[p])

(***************************************************************************)
(* While it is not in doubt, the UI has the active profile or will have:   *)
(* it reads every answer, and the last of those on their way says it.      *)
(***************************************************************************)
AgreeInv ==
  connected /\ ~inDoubt =>
    /\ AllHeard(inbox, requests, handlers)
    /\ LastSays(inbox, core)
    /\ Undecided(inbox) => Waiting("active") # {} \/ Agreed(core, current)

LEMMA ChoicesAppend ==
  ASSUME NEW box \in Seq(Messages), NEW m \in Messages, NEW before, NEW after,
         LastSays(box, before),
         IF Decides(m) THEN Agreed(after, m.data)
                       ELSE \A p : Agreed(before, p) => Agreed(after, p)
  PROVE  /\ LastSays(Append(box, m), after)
         /\ Undecided(Append(box, m)) <=> Undecided(box) /\ ~Decides(m)
<1> DEFINE new == Append(box, m)
           n == Len(box)
<1>1. /\ n \in Nat /\ DOMAIN box = 1..n /\ DOMAIN new = 1..(n + 1)
      /\ \A q \in 1..n : new[q] = box[q]
      /\ new[n + 1] = m /\ n + 1 \in 1..(n + 1)
      /\ \A q \in 1..(n + 1) : q \in 1..n \/ q = n + 1
      /\ \A q \in 1..n : n + 1 > q /\ q \in 1..(n + 1)
  BY Appended
<1> HIDE DEF new, n
<1>2. Undecided(new) <=> Undecided(box) /\ ~Decides(m)
  BY <1>1 DEF Undecided
<1>3. ASSUME NEW p \in 1..(n + 1), Decides(new[p]),
             \A q \in 1..(n + 1) : q > p => ~Decides(new[q])
      PROVE  Agreed(after, new[p].data)
  <2>1. CASE p = n + 1
    BY <1>1, <1>3, <2>1
  <2>2. CASE p \in 1..n
    <3>1. ~Decides(m) /\ \A q \in 1..n : q > p => ~Decides(box[q])
      BY <1>1, <1>3, <2>2
    <3>2. Agreed(before, box[p].data)
      BY <1>1, <1>3, <2>2, <3>1 DEF LastSays
    <3> QED BY <1>1, <2>2, <3>1, <3>2
  <2> QED BY <1>1, <2>1, <2>2
<1>4. LastSays(new, after)
  BY <1>1, <1>3 DEF LastSays
<1> QED BY <1>2, <1>4 DEF new

LEMMA ChoicesTail ==
  ASSUME NEW box \in Seq(Messages), box # <<>>, NEW table, LastSays(box, table)
  PROVE  /\ LastSays(Tail(box), table)
         /\ Undecided(box) <=> Undecided(Tail(box)) /\ ~Decides(Head(box))
         /\ Decides(Head(box)) /\ Undecided(Tail(box)) => Agreed(table, Head(box).data)
<1> DEFINE rest == Tail(box)
           n == Len(box) - 1
<1>1. /\ n \in Nat /\ DOMAIN box = 1..(n + 1) /\ DOMAIN rest = 1..n
      /\ \A q \in 1..n : rest[q] = box[q + 1] /\ q + 1 \in 1..(n + 1)
      /\ \A q \in 1..(n + 1) : q > 1 => q - 1 \in 1..n /\ box[q] = rest[q - 1]
      /\ Head(box) = box[1] /\ 1 \in 1..(n + 1)
      /\ \A q \in 1..(n + 1) : q = 1 \/ q > 1
  BY HeadTyped
<1> HIDE DEF rest, n
<1>2. Undecided(box) <=> Undecided(rest) /\ ~Decides(Head(box))
  <2>1. ASSUME Undecided(rest), ~Decides(Head(box)), NEW q \in 1..(n + 1)
        PROVE  ~Decides(box[q])
    <3>1. CASE q = 1
      BY <1>1, <2>1, <3>1
    <3>2. CASE q > 1
      BY <1>1, <2>1, <3>2 DEF Undecided
    <3> QED BY <1>1, <3>1, <3>2
  <2> QED BY <1>1, <2>1 DEF Undecided
<1>3. ASSUME NEW p \in 1..n, Decides(rest[p]), \A q \in 1..n : q > p => ~Decides(rest[q])
      PROVE  Agreed(table, rest[p].data)
  <2>1. p + 1 \in 1..(n + 1) /\ rest[p] = box[p + 1]
    BY <1>1
  <2>2. ASSUME NEW q \in 1..(n + 1), q > p + 1
        PROVE  ~Decides(box[q])
    <3>1. q - 1 \in 1..n /\ q - 1 > p /\ box[q] = rest[q - 1]
      BY <1>1, <2>2
    <3> QED BY <1>3, <3>1
  <2> QED BY <1>1, <1>3, <2>1, <2>2 DEF LastSays
<1>4. ASSUME Decides(Head(box)), Undecided(rest)
      PROVE  Agreed(table, Head(box).data)
  <2>1. \A q \in 1..(n + 1) : q > 1 => ~Decides(box[q])
    BY <1>1, <1>4 DEF Undecided
  <2> QED BY <1>1, <1>4, <2>1 DEF LastSays
<1>5. LastSays(rest, table)
  BY <1>1, <1>3 DEF LastSays
<1> QED BY <1>2, <1>4, <1>5 DEF rest

LEMMA HeardTail ==
  ASSUME NEW box \in Seq(Messages), box # <<>>, NEW rs, NEW hs, AllHeard(box, rs, hs)
  PROVE  /\ AllHeard(Tail(box), rs, hs)
         /\ IsAnswer(Head(box)) /\ Head(box).request.kind \in Choices => Head(box).request \in hs
<1> DEFINE rest == Tail(box)
           n == Len(box) - 1
<1>1. /\ DOMAIN box = 1..(n + 1) /\ DOMAIN rest = 1..n
      /\ \A q \in 1..n : rest[q] = box[q + 1] /\ q + 1 \in 1..(n + 1)
      /\ Head(box) = box[1] /\ 1 \in 1..(n + 1)
  BY HeadTyped
<1> HIDE DEF rest, n
<1>2. AllHeard(rest, rs, hs)
  BY <1>1 DEF AllHeard
<1>3. IsAnswer(Head(box)) /\ Head(box).request.kind \in Choices => Head(box).request \in hs
  BY <1>1 DEF AllHeard
<1> QED BY <1>2, <1>3 DEF rest

LEMMA HeardAppend ==
  ASSUME NEW box \in Seq(Messages), NEW m \in Messages, NEW rs, NEW hs, AllHeard(box, rs, hs),
         IsAnswer(m) => m.request \in rs, NEW left \in SUBSET rs
  PROVE  AllHeard(Append(box, m), left, hs)
<1> DEFINE new == Append(box, m)
           n == Len(box)
<1>1. /\ DOMAIN box = 1..n /\ DOMAIN new = 1..(n + 1)
      /\ \A q \in 1..n : new[q] = box[q]
      /\ new[n + 1] = m
      /\ \A q \in 1..(n + 1) : q \in 1..n \/ q = n + 1
  BY Appended
<1> HIDE DEF new, n
<1>2. AllHeard(new, left, hs)
  BY <1>1 DEF AllHeard
<1> QED BY <1>2 DEF new

\* The answer that is read is the only one to its request, which is over.
LEMMA ReadIsOver ==
  ASSUME Base, Takes, IsAnswer(Head(inbox))
  PROVE  LET r == Head(inbox).request
         IN  /\ r \notin requests
             /\ \A p \in DOMAIN Tail(inbox) :
                  IsAnswer(Tail(inbox)[p]) => Tail(inbox)[p].request # r
             /\ r \in Request
<1> DEFINE r == Head(inbox).request
           n == Len(inbox) - 1
<1>1. /\ DOMAIN inbox = 1..(n + 1) /\ DOMAIN Tail(inbox) = 1..n /\ n \in Nat
      /\ \A q \in 1..n : Tail(inbox)[q] = inbox[q + 1] /\ q + 1 \in 1..(n + 1) /\ q + 1 # 1
      /\ Head(inbox) = inbox[1] /\ 1 \in 1..(n + 1) /\ Head(inbox) \in Messages
  BY HeadTyped DEF Base, TypeInv, Takes
<1>2. AnswersIn(inbox, requests, handlers, nextId)
  BY DEF Base, AnswersInv
<1> HIDE DEF n
<1>3. r \notin requests
  BY <1>1, <1>2 DEF AnswersIn
<1>4. ASSUME NEW p \in 1..n, IsAnswer(Tail(inbox)[p]), Tail(inbox)[p].request = r
      PROVE  FALSE
  <2>1. inbox[p + 1].request = inbox[1].request /\ p + 1 \in DOMAIN inbox /\ 1 \in DOMAIN inbox
        /\ IsAnswer(inbox[p + 1]) /\ IsAnswer(inbox[1]) /\ p + 1 # 1
    BY <1>1, <1>4
  <2> QED BY <1>2, <2>1 DEF AnswersIn
<1>5. r \in Request
  BY <1>1, MessageForms
<1> QED BY <1>1, <1>3, <1>4, <1>5

\* New requests are heard, and a handler that ran has no other answer on its way.
LEMMA HeardLinks ==
  ASSUME NEW settled, NEW new, Links(settled, new), NEW box, AllHeard(box, requests, handlers),
         \A r \in settled : r.kind \in Choices =>
           /\ r \notin requests
           /\ \A p \in DOMAIN box : IsAnswer(box[p]) => box[p].request # r
  PROVE  AllHeard(box, requests', handlers')
  BY DEF Links, AllHeard

LEMMA AgreeKept ==
  ASSUME Base, AgreeInv, UNCHANGED <<core, connected, inDoubt, current>>,
         NEW settled, NEW new, Links(settled, new),
         \A r \in settled : r.kind \notin Choices \/
           (r.kind = "switch" /\ IsAnswer(Head(inbox)) /\ r = Head(inbox).request /\ Takes),
         \/ inbox' = inbox
         \/ /\ Takes
            /\ Decides(Head(inbox)) => Head(inbox).data = current
  PROVE  AgreeInv'
<1> SUFFICES ASSUME connected, ~inDoubt
             PROVE  /\ AllHeard(inbox', requests', handlers')
                    /\ LastSays(inbox', core)
                    /\ Undecided(inbox') => Waiting("active")' # {} \/ Agreed(core, current)
  BY DEF AgreeInv
<1>1. /\ AllHeard(inbox, requests, handlers)
      /\ LastSays(inbox, core)
      /\ Undecided(inbox) => Waiting("active") # {} \/ Agreed(core, current)
  BY DEF AgreeInv
<1>2. Waiting("active") # {} => Waiting("active")' # {}
  BY DEF Links, Waiting, Choices
<1>3. inbox \in Seq(Messages)
  BY DEF Base, TypeInv
<1>4. CASE inbox' = inbox /\ ~Takes
  <2>1. AllHeard(inbox, requests', handlers')
    BY <1>1, <1>4, HeardLinks
  <2> QED BY <1>1, <1>2, <1>4, <2>1
<1>5. CASE Takes
  <2>1. inbox # <<>> /\ inbox' = Tail(inbox)
    BY <1>5 DEF Takes
  <2>2. Decides(Head(inbox)) => Head(inbox).data = current
    <3>1. Tail(inbox) # inbox
      <4>1. Len(Tail(inbox)) = Len(inbox) - 1 /\ Len(inbox) \in Nat
        BY <1>3, <2>1, HeadTyped
      <4> QED BY <4>1
    <3> QED BY <2>1, <3>1
  <2>3. AllHeard(Tail(inbox), requests, handlers)
    BY <1>1, <1>3, <2>1, HeardTail
  <2>4. AllHeard(Tail(inbox), requests', handlers')
    <3>1. \A r \in settled : r.kind \in Choices =>
            /\ r \notin requests
            /\ \A p \in DOMAIN Tail(inbox) :
                 IsAnswer(Tail(inbox)[p]) => Tail(inbox)[p].request # r
      BY <1>5, ReadIsOver
    <3> QED BY <2>3, <3>1, HeardLinks
  <2>5. /\ LastSays(Tail(inbox), core)
        /\ Undecided(inbox) <=> Undecided(Tail(inbox)) /\ ~Decides(Head(inbox))
        /\ Decides(Head(inbox)) /\ Undecided(Tail(inbox)) => Agreed(core, Head(inbox).data)
    BY <1>1, <1>3, <2>1, ChoicesTail
  <2> QED BY <1>1, <1>2, <2>1, <2>2, <2>4, <2>5
<1> QED BY <1>4, <1>5

LEMMA AgreeUi ==
  ASSUME Base, UiStep, AgreeInv
  PROVE  AgreeInv'
<1>1. Takes => UNCHANGED <<core, connected>>
  BY DEF Takes, coreVars
<1>2. \A r \in handlers : Reads(r) =>
        Takes /\ IsAnswer(Head(inbox)) /\ r = Head(inbox).request /\ Head(inbox).ok
  BY DEF Reads
<1>3. CASE Ignores /\ Links({}, {})
  <2>1. UNCHANGED <<inDoubt, current>> /\ Takes
    BY <1>3 DEF Ignores, uiVars, profileVars
  <2>2. connected /\ ~inDoubt => ~Decides(Head(inbox))
    BY <1>3, HeardTail DEF AgreeInv, Ignores, Takes, Decides, Base, TypeInv
  <2>3. CASE connected /\ ~inDoubt
    BY <1>1, <1>3, <2>1, <2>2, <2>3, AgreeKept
  <2>4. CASE ~(connected /\ ~inDoubt)
    BY <1>1, <2>1, <2>4 DEF AgreeInv
  <2> QED BY <2>3, <2>4
<1>4. ASSUME NEW r \in handlers, Reads(r), r.kind \in {"active", "switch"},
             Selects(r, Head(inbox).data)
      PROVE  AgreeInv'
  <2>1. /\ Takes /\ IsAnswer(Head(inbox)) /\ r = Head(inbox).request
        /\ Decides(Head(inbox)) /\ inbox # <<>> /\ inbox' = Tail(inbox)
        /\ UNCHANGED <<core, connected>> /\ inbox \in Seq(Messages)
    BY <1>1, <1>2, <1>4 DEF Decides, Choices, Takes, Base, TypeInv
  <2>2. current' = Head(inbox).data /\ inDoubt' = inDoubt
        /\ Links({r}, Sent1("profile", Head(inbox).data))
    BY <1>4 DEF Selects
  <2> SUFFICES ASSUME connected, ~inDoubt
               PROVE  /\ AllHeard(inbox', requests', handlers')
                      /\ LastSays(inbox', core)
                      /\ Undecided(inbox') => Agreed(core, current')
    BY <2>1, <2>2 DEF AgreeInv
  <2>3. AllHeard(inbox, requests, handlers) /\ LastSays(inbox, core)
    BY DEF AgreeInv
  <2>4. AllHeard(Tail(inbox), requests', handlers')
    <3>1. AllHeard(Tail(inbox), requests, handlers)
      BY <2>1, <2>3, HeardTail
    <3>2. \A s \in {r} : s.kind \in Choices =>
            /\ s \notin requests
            /\ \A p \in DOMAIN Tail(inbox) :
                 IsAnswer(Tail(inbox)[p]) => Tail(inbox)[p].request # s
      BY <2>1, ReadIsOver
    <3> QED BY <2>2, <3>1, <3>2 DEF Links, AllHeard
  <2> QED BY <2>1, <2>2, <2>3, <2>4, ChoicesTail
<1>5. ASSUME NEW r \in handlers, Reads(r), Concludes(r),
             \/ r.kind = "switch" /\ r.of = current
             \/ r.kind = "update"
      PROVE  AgreeInv'
  <2>1. Decides(Head(inbox)) => Head(inbox).data = current
    BY <1>2, <1>5, ReadsFacts DEF Decides, Choices
  <2>2. Links({r}, {}) /\ UNCHANGED <<inDoubt, current>>
    BY <1>5 DEF Concludes, uiVars, profileVars
  <2> QED BY <1>1, <1>2, <1>5, <2>1, <2>2, AgreeKept DEF Choices
<1>6. ASSUME NEW r \in handlers, Reads(r), r.kind \in {"profile", "pages", "groups"},
             UNCHANGED <<inDoubt, current>>, NEW new, Links({r}, new)
      PROVE  AgreeInv'
  <2>1. ~Decides(Head(inbox)) /\ r.kind \notin Choices
    BY <1>2, <1>6 DEF Decides, Choices
  <2> QED BY <1>1, <1>2, <1>6, <2>1, AgreeKept
<1>7. ASSUME NEW r \in handlers, NEW isAnswer \in BOOLEAN, Notices(r, isAnswer),
             Fails(r, isAnswer), Links({r}, IF Reloads(r) THEN Sent1("pages", shown) ELSE {})
      PROVE  AgreeInv'
  <2>1. /\ inDoubt' = (inDoubt \/ r.kind = "active" \/ (r.kind = "switch" /\ ~isAnswer))
        /\ current' = current
    BY <1>7 DEF Fails
  <2>2. UNCHANGED <<core, connected>>
    BY <1>7 DEF Notices, coreVars
  <2>3. CASE r.kind = "active" \/ (r.kind = "switch" /\ ~isAnswer)
    BY <2>1, <2>3 DEF AgreeInv
  <2>4. CASE r.kind # "active" /\ (r.kind = "switch" => isAnswer)
    <3>1. inDoubt' = inDoubt
      BY <2>1, <2>4 DEF Base, TypeInv, UiTyped
    <3>2. \/ isAnswer /\ Takes /\ IsAnswer(Head(inbox)) /\ r = Head(inbox).request
             /\ ~Head(inbox).ok
          \/ ~isAnswer /\ inbox' = inbox
      BY <1>7 DEF Notices
    <3>3. Takes /\ ~Head(inbox).ok => ~Decides(Head(inbox))
      BY DEF Decides
    <3>4. r.kind \notin Choices \/
            (r.kind = "switch" /\ IsAnswer(Head(inbox)) /\ r = Head(inbox).request /\ Takes)
      BY <2>4, <3>2 DEF Choices
    <3>5. inbox' = inbox \/ (Takes /\ (Decides(Head(inbox)) => Head(inbox).data = current))
      BY <3>2, <3>3
    <3> QED BY <1>7, <2>1, <2>2, <3>1, <3>4, <3>5, AgreeKept
  <2> QED BY <2>3, <2>4
<1>8. ASSUME NEW e, NEW types, Hears(e, types), "answer" \notin types,
             UNCHANGED <<inDoubt, current>>, NEW new, Links({}, new)
      PROVE  AgreeInv'
  <2>1. Takes /\ ~Decides(Head(inbox))
    BY <1>8 DEF Hears, Decides, IsAnswer
  <2> QED BY <1>1, <1>8, <2>1, AgreeKept
<1>9. ASSUME UNCHANGED <<core, connected, inDoubt, current, inbox>>, NEW new, Links({}, new)
      PROVE  AgreeInv'
  BY <1>9, AgreeKept
<1>10. ASSUME NEW r \in handlers, Reads(r),
              \/ /\ r.kind = "profile" /\ ProfileAnswer(r, r.of)
                 /\ Links({r}, Sent2("groups", r.of, "pages", r.of))
              \/ r.kind = "pages" /\ PagesAnswer(r, Head(inbox).data) /\ Links({r}, {})
              \/ r.kind = "groups" /\ GroupsAnswer(r, Head(inbox).data) /\ Links({r}, {})
       PROVE  AgreeInv'
  <2>1. UNCHANGED <<inDoubt, current>>
    BY <1>10 DEF ProfileAnswer, PagesAnswer, GroupsAnswer, profileVars
  <2> QED BY <1>6, <1>10, <2>1
<1>11. ASSUME \/ \E e \in ItemEvents : Hears(e, {"pages"}) /\ PageEvent(e) /\ Links({}, {})
              \/ \E e \in ItemEvents : Hears(e, {"groups"}) /\ GroupEvent(e) /\ Links({}, {})
              \/ \E e \in ProfileEvents :
                   /\ Hears(e, {"profileAdded"}) /\ ProfileAdded(e.profile)
                   /\ Links({}, Sent1("switch", e.profile))
              \/ \E e \in ProfileEvents :
                   Hears(e, {"profileDeleted"}) /\ ProfileDeleted(e.profile) /\ Links({}, {})
       PROVE  AgreeInv'
  BY <1>8, <1>11 DEF PageEvent, GroupEvent, ProfileAdded, ProfileDeleted, uiVars, profileVars
<1>12. ASSUME \/ \E p \in Profiles : UserSwitches(p) /\ Links({}, Sent1("switch", p))
              \/ \E i \in Items : UserEditsPage(i) /\ Links({}, Sent1("update", i))
       PROVE  AgreeInv'
  BY <1>9, <1>12 DEF UserSwitches, UserEditsPage, coreVars, uiVars, profileVars
<1> QED
  BY <1>3, <1>4, <1>5, <1>7, <1>10, <1>11, <1>12, UiEffects DEF UiEffect

\* A message that decides nothing, while the active profile stays or is deleted.
LEMMA AgreeReported ==
  ASSUME Base, AgreeInv, NEW m \in Messages, ~IsAnswer(m), inbox' = Reported(m),
         core'.active \in {core.active, None}, UNCHANGED <<connected, linkVars, uiVars>>
  PROVE  AgreeInv'
<1> SUFFICES ASSUME connected, ~inDoubt
             PROVE  AgreeInv'
  BY DEF AgreeInv, uiVars, profileVars
<1>1. /\ inbox' = Append(inbox, m) /\ inbox \in Seq(Messages) /\ ~Decides(m)
      /\ UNCHANGED <<requests, handlers, current, inDoubt>>
  BY DEF Reported, Base, TypeInv, Decides, linkVars, uiVars, profileVars
<1>2. AllHeard(Append(inbox, m), requests, handlers)
  BY <1>1, HeardAppend DEF AgreeInv
<1>3. \A p : Agreed(core, p) => Agreed(core', p)
  BY DEF Agreed
<1>4. LastSays(Append(inbox, m), core') /\ (Undecided(Append(inbox, m)) <=> Undecided(inbox))
  BY <1>1, <1>3, ChoicesAppend DEF AgreeInv
<1> QED BY <1>1, <1>2, <1>3, <1>4 DEF AgreeInv, Waiting

LEMMA AgreeAnswered ==
  ASSUME Base, AgreeInv, NEW r \in requests, CoreAnswers(r)
  PROVE  AgreeInv'
<1> DEFINE e == ItemEvent("pages", r.of, version + 1, FALSE)
           s == Success(r)
<1>1. /\ connected /\ requests' = requests \ {r}
      /\ UNCHANGED <<connected, nextId, handlers, uiVars>>
      /\ r.kind = "active" => core.active \in Profiles
      /\ r.kind \in {"profile", "pages", "groups", "switch"} => r.of \in core.profiles
      /\ r.kind = "update" =>
           /\ r.of \in Items /\ version' = version + 1 /\ version' \in Versions
           /\ SetsTo("pages", r.of, version + 1)
           /\ inbox' = Append(Append(inbox, e), s)
      /\ r.kind # "update" =>
           /\ inbox' = Append(inbox, s)
           /\ core' = IF r.kind = "switch" THEN [core EXCEPT !.active = r.of] ELSE core
  BY CoreAnswersFacts
<1>2. /\ s \in Messages /\ IsAnswer(s) /\ s.request = r /\ s.ok /\ s.data = Content(r)
      /\ r.kind = "active" => Content(r) = core.active
      /\ r.kind \in {"switch", "profile"} => Content(r) = r.of
  BY AnswersTyped
<1>3. r.kind = "update" => e \in Messages /\ ~IsAnswer(e)
  <2>1. e.type = "pages"
    BY DEF ItemEvent
  <2>2. r.kind = "update" => e \in ItemEvents
    BY <1>1 DEF ItemEvents, ItemEvent, Whats
  <2> HIDE DEF e
  <2> QED BY <2>1, <2>2 DEF Messages, IsAnswer
<1> HIDE DEF e, s
<1> SUFFICES ASSUME ~inDoubt
             PROVE  AgreeInv'
  BY <1>1 DEF AgreeInv, uiVars, profileVars
<1>4. inbox \in Seq(Messages) /\ CoreTyped /\ UNCHANGED <<current, inDoubt>>
  BY <1>1 DEF Base, TypeInv, uiVars, profileVars
<1>5. /\ AllHeard(inbox, requests, handlers) /\ LastSays(inbox, core)
      /\ Undecided(inbox) => Waiting("active") # {} \/ Agreed(core, current)
  BY <1>1 DEF AgreeInv
<1>6. PICK box \in Seq(Messages) :
        /\ inbox' = Append(box, s) /\ AllHeard(box, requests, handlers) /\ LastSays(box, core)
        /\ Undecided(box) <=> Undecided(inbox)
  <2>1. CASE r.kind = "update"
    <3>1. /\ Append(inbox, e) \in Seq(Messages) /\ inbox' = Append(Append(inbox, e), s)
          /\ e \in Messages /\ ~IsAnswer(e) /\ ~Decides(e)
      BY <1>1, <1>3, <1>4, <2>1, Appended DEF Decides
    <3>2. AllHeard(Append(inbox, e), requests, handlers)
      BY <1>4, <1>5, <3>1, HeardAppend
    <3>3. LastSays(Append(inbox, e), core) /\ (Undecided(Append(inbox, e)) <=> Undecided(inbox))
      BY <1>4, <1>5, <3>1, ChoicesAppend
    <3> QED BY <3>1, <3>2, <3>3
  <2>2. CASE r.kind # "update"
    BY <1>1, <1>4, <1>5, <2>2
  <2> QED BY <2>1, <2>2
<1>7. AllHeard(inbox', requests', handlers')
  <2>1. AllHeard(Append(box, s), requests \ {r}, handlers)
    BY <1>2, <1>6, HeardAppend
  <2> QED BY <1>1, <1>6, <2>1
<1>8. core'.active = IF r.kind = "switch" THEN r.of ELSE core.active
  <2>1. CASE r.kind = "update"
    <3>1. "pages" \in Whats
      BY DEF Whats
    <3> QED BY <1>1, <1>4, <2>1, <3>1, CoreItemSet
  <2>2. CASE r.kind = "switch"
    BY <1>1, <1>4, <2>2 DEF CoreTyped
  <2>3. CASE r.kind \notin {"update", "switch"}
    BY <1>1, <2>3
  <2> QED BY <2>1, <2>2, <2>3
<1>9. Decides(s) <=> r.kind \in Choices
  BY <1>2 DEF Decides
<1>10. IF Decides(s) THEN Agreed(core', s.data)
                     ELSE \A p : Agreed(core, p) => Agreed(core', p)
  <2>1. CASE r.kind \in Choices
    BY <1>2, <1>8, <1>9, <2>1 DEF Agreed, Choices
  <2>2. CASE r.kind \notin Choices
    BY <1>8, <1>9, <2>2 DEF Agreed, Choices
  <2> QED BY <2>1, <2>2
<1>11. /\ LastSays(Append(box, s), core')
       /\ Undecided(Append(box, s)) <=> Undecided(box) /\ ~Decides(s)
  BY <1>2, <1>6, <1>10, ChoicesAppend
<1>12. Undecided(inbox') => Waiting("active")' # {} \/ Agreed(core', current')
  BY <1>1, <1>4, <1>5, <1>6, <1>10, <1>11 DEF Waiting
<1> QED BY <1>6, <1>7, <1>11, <1>12 DEF AgreeInv

LEMMA AgreeRefused ==
  ASSUME Base, AgreeInv, NEW r \in requests, CoreRefuses(r)
  PROVE  AgreeInv'
<1>1. /\ requests' = requests \ {r} /\ inbox' = Append(inbox, Failure(r))
      /\ UNCHANGED <<coreVars, connected, handlers, uiVars>>
  BY DEF CoreRefuses
<1>2. /\ Failure(r) \in Messages /\ IsAnswer(Failure(r)) /\ Failure(r).request = r
      /\ ~Decides(Failure(r)) /\ inbox \in Seq(Messages)
  BY AnswersTyped DEF Decides, Base, TypeInv
<1>3. UNCHANGED <<core, inDoubt, current>>
  BY <1>1 DEF coreVars, uiVars, profileVars
<1> SUFFICES ASSUME connected, ~inDoubt
             PROVE  AgreeInv'
  BY <1>1, <1>3 DEF AgreeInv
<1>4. AllHeard(Append(inbox, Failure(r)), requests \ {r}, handlers)
  BY <1>2, HeardAppend DEF AgreeInv
<1>5. /\ LastSays(Append(inbox, Failure(r)), core)
      /\ Undecided(Append(inbox, Failure(r))) <=> Undecided(inbox)
  BY <1>2, ChoicesAppend DEF AgreeInv
<1> QED BY <1>1, <1>3, <1>4, <1>5 DEF AgreeInv, Waiting

LEMMA AgreeNext ==
  ASSUME Base, [Next]_vars, AgreeInv
  PROVE  AgreeInv'
<1>1. UNCHANGED vars \/ CoreStep \/ UiStep \/ CoreDisconnected \/ CoreConnected
  BY NextCases DEF Base
<1>2. CASE UNCHANGED vars
  BY <1>2 DEF vars, AgreeInv, Waiting, coreVars, linkVars, uiVars, profileVars
<1>3. ASSUME NEW w \in Whats, NEW i \in Items, CoreSetsItem(w, i)
      PROVE  AgreeInv'
  <2>1. PICK v \in {Absent} \cup Versions :
          /\ SetsTo(w, i, v) /\ inbox' = Reported(ItemEvent(w, i, v, core[w][i] = Absent))
          /\ UNCHANGED <<connected, linkVars, uiVars>>
    BY <1>3, SetsItemFacts
  <2>2. core'.active = core.active
    BY <2>1, CoreItemSet DEF Base, TypeInv
  <2> DEFINE m == ItemEvent(w, i, v, core[w][i] = Absent)
  <2>3. m \in Messages /\ ~IsAnswer(m)
    BY EventsTyped, ItemPart
  <2> HIDE DEF m
  <2> QED BY <2>1, <2>2, <2>3, AgreeReported DEF m
<1>4. ASSUME NEW p \in Profiles, CoreAddsProfile(p) \/ CoreDeletesProfile(p)
      PROVE  AgreeInv'
  <2>1. /\ core'.active \in {core.active, None} /\ UNCHANGED <<connected, linkVars, uiVars>>
        /\ \E t \in {"profileAdded", "profileDeleted"} : inbox' = Reported(ProfileEvent(t, p))
    <3>1. CASE CoreAddsProfile(p)
      BY <3>1 DEF CoreAddsProfile, ProfileEvent, Base, TypeInv, CoreTyped
    <3>2. CASE CoreDeletesProfile(p)
      BY <3>2, DeletesProfileFacts
    <3> QED BY <1>4, <3>1, <3>2
  <2>2. PICK t \in {"profileAdded", "profileDeleted"} : inbox' = Reported(ProfileEvent(t, p))
    BY <2>1
  <2>3. ProfileEvent(t, p) \in Messages /\ ~IsAnswer(ProfileEvent(t, p))
    BY DEF Messages, ProfileEvents, ProfileEvent, IsAnswer
  <2> QED BY <2>1, <2>2, <2>3, AgreeReported
<1>5. CASE CoreDisconnected
  BY <1>5 DEF CoreDisconnected, AgreeInv
<1>6. CASE CoreConnected
  <2> DEFINE r == Call(nextId, "active", None)
  <2>1. /\ inbox = <<>> /\ requests' = {r} /\ handlers' = handlers \cup {r} /\ r.kind = "active"
    BY <1>6, ConnectedLinks
  <2>2. inbox' = inbox
    BY <1>6 DEF CoreConnected
  <2>3. DOMAIN inbox' = {}
    BY <2>1, <2>2
  <2> HIDE DEF r
  <2>4. AllHeard(inbox', requests', handlers') /\ LastSays(inbox', core')
    BY <2>1, <2>3 DEF AllHeard, LastSays
  <2>5. Waiting("active")' # {}
    BY <2>1 DEF Waiting
  <2> QED BY <2>4, <2>5 DEF AgreeInv
<1> QED
  BY <1>1, <1>2, <1>3, <1>4, <1>5, <1>6, AgreeUi, AgreeAnswered, AgreeRefused DEF CoreStep

(***************************************************************************)
(* The remote and the core agree on the active profile, in whatever order  *)
(* profiles are added, deleted and switched to, here and elsewhere: unless *)
(* an answer was lost, the UI has the profile that is active in the core.  *)
(***************************************************************************)
THEOREM CurrentAgreesWithCore == Spec => []AgreesWithCore
<1>1. Init => AgreeInv
  BY DEF Init, AgreeInv
<1>2. Base /\ AgreeInv /\ [Next]_vars => AgreeInv'
  BY AgreeNext
<1>3. AgreeInv => AgreesWithCore
  <2> SUFFICES ASSUME AgreeInv, UpToDate, Waiting("active") \cup Waiting("switch") = {},
                      ~inDoubt, core.active # None
               PROVE  current = core.active
    BY DEF AgreesWithCore
  <2>1. DOMAIN inbox = {}
    BY DEF UpToDate
  <2>2. Undecided(inbox)
    BY <2>1 DEF Undecided
  <2> QED BY <2>2 DEF AgreeInv, UpToDate, Agreed
<1> QED BY <1>1, <1>2, <1>3, BaseInit, BaseNext, PTL DEF Spec

-----------------------------------------------------------------------------
(* The order of the messages                                               *)

\* An event about page or group i, and one that reports it as new.
Tells(m, w, i) == m.type = w /\ m.item = i
TellsNew(m, w, i) == Tells(m, w, i) /\ m.isNew

\* An answer that lists the pages or the groups of a profile.
Lists(m, w) == IsAnswer(m) /\ m.ok /\ m.request.kind = w

\* The message says that there is i, or was.
Mentions(m, w, i) == Tells(m, w, i) \/ (Lists(m, w) /\ i \in DOMAIN m.data)

NewAfter(box, p, w, i) == \E q \in DOMAIN box : q > p /\ TellsNew(box[q], w, i)

\* The pages and groups that there are or were.
Existing ==
  {k \in Whats \X Items : core[k[1]][k[2]] # Absent \/ k \in removed \/ k[2][1] \in deleted}

(***************************************************************************)
(* Nothing tells of what never was, of nothing before it is told of as     *)
(* new, and of no pages after their profile is gone; an answer lists what  *)
(* is of its profile.                                                      *)
(***************************************************************************)
OrderIn(box, known, gone) ==
  /\ \A p \in DOMAIN box, w \in Whats, i \in Items : Mentions(box[p], w, i) => <<w, i>> \in known
  /\ \A p \in DOMAIN box : box[p].type = "profileDeleted" => box[p].profile \in gone
  /\ \A p \in DOMAIN box, w \in Whats : Lists(box[p], w) =>
       \A i \in DOMAIN box[p].data : i \in Items /\ i[1] = box[p].request.of
  /\ \A p, q \in DOMAIN box, w \in Whats, i \in Items :
       p < q /\ TellsNew(box[q], w, i) => ~Mentions(box[p], w, i)
  /\ \A p, q \in DOMAIN box :
       p < q /\ box[p].type = "profileDeleted" /\ Lists(box[q], "pages") =>
         box[q].request.of # box[p].profile

OrderInv == OrderIn(inbox, Existing, deleted)

\* A message of the core, which had old, and then has new, with the profiles in gone deleted.
Fits(m, old, new, before, after) ==
  /\ \A w \in Whats, i \in Items : Mentions(m, w, i) => <<w, i>> \in new
  /\ m.type = "profileDeleted" => m.profile \in after
  /\ \A w \in Whats : Lists(m, w) =>
       \A i \in DOMAIN m.data : i \in Items /\ i[1] = m.request.of
  /\ \A w \in Whats, i \in Items : TellsNew(m, w, i) => <<w, i>> \notin old
  /\ Lists(m, "pages") => m.request.of \notin before

LEMMA OrderAppend ==
  ASSUME NEW box \in Seq(Messages), NEW m \in Messages, NEW old, NEW new, NEW before, NEW after,
         OrderIn(box, old, before), old \subseteq new, before \subseteq after,
         Fits(m, old, new, before, after)
  PROVE  OrderIn(Append(box, m), new, after)
<1> DEFINE long == Append(box, m)
           n == Len(box)
<1>1. /\ n \in Nat /\ DOMAIN box = 1..n /\ DOMAIN long = 1..(n + 1)
      /\ \A q \in 1..n : long[q] = box[q]
      /\ long[n + 1] = m
      /\ \A q \in 1..(n + 1) : q \in 1..n \/ q = n + 1
      /\ \A q \in 1..(n + 1) : ~(n + 1 < q)
  BY Appended
<1> HIDE DEF long, n
<1>2. ASSUME NEW p \in 1..(n + 1)
      PROVE  /\ \A w \in Whats, i \in Items : Mentions(long[p], w, i) => <<w, i>> \in new
             /\ long[p].type = "profileDeleted" => long[p].profile \in after
             /\ \A w \in Whats : Lists(long[p], w) =>
                  \A i \in DOMAIN long[p].data : i \in Items /\ i[1] = long[p].request.of
  <2>1. CASE p \in 1..n
    BY <1>1, <2>1 DEF OrderIn
  <2>2. CASE p = n + 1
    BY <1>1, <2>2 DEF Fits
  <2> QED BY <1>1, <2>1, <2>2
<1>3. ASSUME NEW p \in 1..(n + 1), NEW q \in 1..(n + 1), p < q
      PROVE  /\ \A w \in Whats, i \in Items : TellsNew(long[q], w, i) => ~Mentions(long[p], w, i)
             /\ long[p].type = "profileDeleted" /\ Lists(long[q], "pages") =>
                  long[q].request.of # long[p].profile
  <2>1. p \in 1..n
    BY <1>1, <1>3
  <2>2. CASE q \in 1..n
    BY <1>1, <1>3, <2>1, <2>2 DEF OrderIn
  <2>3. CASE q = n + 1
    BY <1>1, <2>1, <2>3 DEF OrderIn, Fits
  <2> QED BY <1>1, <2>2, <2>3
<1>4. OrderIn(long, new, after)
  BY <1>1, <1>2, <1>3 DEF OrderIn
<1> QED BY <1>4 DEF long

LEMMA OrderTail ==
  ASSUME NEW box \in Seq(Messages), box # <<>>, NEW known, NEW gone, OrderIn(box, known, gone)
  PROVE  /\ OrderIn(Tail(box), known, gone)
         /\ \A w \in Whats, i \in Items :
              /\ Mentions(Head(box), w, i) => <<w, i>> \in known /\ ~NewAfter(Tail(box), 0, w, i)
              /\ NewAfter(Tail(box), 0, w, i) => NewAfter(box, 0, w, i)
              /\ TellsNew(Head(box), w, i) => NewAfter(box, 0, w, i)
         /\ Head(box).type = "profileDeleted" =>
              /\ Head(box).profile \in gone
              /\ \A p \in DOMAIN Tail(box) : Lists(Tail(box)[p], "pages") =>
                   Tail(box)[p].request.of # Head(box).profile
         /\ \A w \in Whats : Lists(Head(box), w) =>
              \A i \in DOMAIN Head(box).data : i \in Items /\ i[1] = Head(box).request.of
<1> DEFINE rest == Tail(box)
           n == Len(box) - 1
<1>1. /\ n \in Nat /\ DOMAIN box = 1..(n + 1) /\ DOMAIN rest = 1..n
      /\ \A q \in 1..n : rest[q] = box[q + 1] /\ q + 1 \in 1..(n + 1) /\ 1 < q + 1 /\ q + 1 > 0
      /\ \A p, q \in 1..n : p < q => p + 1 < q + 1
      /\ 1 \in 1..(n + 1) /\ Head(box) = box[1] /\ 1 > 0
  BY HeadTyped
<1> HIDE DEF rest, n
<1>2. ASSUME NEW p \in 1..n
      PROVE  /\ \A w \in Whats, i \in Items : Mentions(rest[p], w, i) => <<w, i>> \in known
             /\ rest[p].type = "profileDeleted" => rest[p].profile \in gone
             /\ \A w \in Whats : Lists(rest[p], w) =>
                  \A i \in DOMAIN rest[p].data : i \in Items /\ i[1] = rest[p].request.of
  <2>1. rest[p] = box[p + 1] /\ p + 1 \in DOMAIN box
    BY <1>1
  <2> QED BY <2>1 DEF OrderIn
<1>3. ASSUME NEW p \in 1..n, NEW q \in 1..n, p < q
      PROVE  /\ \A w \in Whats, i \in Items : TellsNew(rest[q], w, i) => ~Mentions(rest[p], w, i)
             /\ rest[p].type = "profileDeleted" /\ Lists(rest[q], "pages") =>
                  rest[q].request.of # rest[p].profile
  <2>1. /\ rest[p] = box[p + 1] /\ p + 1 \in DOMAIN box /\ rest[q] = box[q + 1]
        /\ q + 1 \in DOMAIN box /\ p + 1 < q + 1
    BY <1>1, <1>3
  <2> QED BY <2>1 DEF OrderIn
<1>4. OrderIn(rest, known, gone)
  BY <1>1, <1>2, <1>3 DEF OrderIn
<1>5. ASSUME NEW w \in Whats, NEW i \in Items
      PROVE  /\ Mentions(box[1], w, i) => <<w, i>> \in known /\ ~NewAfter(rest, 0, w, i)
             /\ NewAfter(rest, 0, w, i) => NewAfter(box, 0, w, i)
             /\ TellsNew(box[1], w, i) => NewAfter(box, 0, w, i)
  <2>1. Mentions(box[1], w, i) => <<w, i>> \in known
    BY <1>1 DEF OrderIn
  <2>2. TellsNew(box[1], w, i) => NewAfter(box, 0, w, i)
    BY <1>1 DEF NewAfter
  <2>3. ASSUME NewAfter(rest, 0, w, i)
        PROVE  NewAfter(box, 0, w, i) /\ ~Mentions(box[1], w, i)
    <3>1. PICK q \in 1..n : TellsNew(rest[q], w, i)
      BY <1>1, <2>3 DEF NewAfter
    <3>2. /\ q + 1 \in DOMAIN box /\ TellsNew(box[q + 1], w, i) /\ 1 < q + 1 /\ q + 1 > 0
          /\ 1 \in DOMAIN box
      BY <1>1, <3>1
    <3>3. NewAfter(box, 0, w, i)
      BY <3>2 DEF NewAfter
    <3>4. ~Mentions(box[1], w, i)
      BY <3>2 DEF OrderIn
    <3> QED BY <3>3, <3>4
  <2> QED BY <2>1, <2>2, <2>3
<1>6. ASSUME box[1].type = "profileDeleted"
      PROVE  /\ box[1].profile \in gone
             /\ \A p \in 1..n : Lists(rest[p], "pages") => rest[p].request.of # box[1].profile
  <2>1. box[1].profile \in gone
    BY <1>1, <1>6 DEF OrderIn
  <2>2. ASSUME NEW p \in 1..n, Lists(rest[p], "pages")
        PROVE  rest[p].request.of # box[1].profile
    <3>1. p + 1 \in DOMAIN box /\ 1 \in DOMAIN box /\ rest[p] = box[p + 1] /\ 1 < p + 1
      BY <1>1
    <3> QED BY <1>6, <2>2, <3>1 DEF OrderIn
  <2> QED BY <2>1, <2>2
<1>7. \A w \in Whats : Lists(box[1], w) =>
        \A i \in DOMAIN box[1].data : i \in Items /\ i[1] = box[1].request.of
  BY <1>1 DEF OrderIn
<1> QED BY <1>1, <1>4, <1>5, <1>6, <1>7 DEF rest

\* No core step takes back that something was, or brings back what was deleted.
Sends(m, old, new, before, after) ==
  m \in Messages /\ old \subseteq new /\ before \subseteq after /\ Fits(m, old, new, before, after)

\* What an event or an answer says of page or group i.
Value(m, i) ==
  IF ~IsAnswer(m) THEN m.version ELSE IF i \in DOMAIN m.data THEN m.data[i] ELSE Absent

\* A message of the core that had table, and then has next.
Truthful(m, table, next, gone) ==
  \A w \in Whats, i \in Items : i[1] \notin gone =>
    IF Tells(m, w, i)
    THEN next[w][i] = Value(m, i) /\ (m.isNew <=> table[w][i] = Absent)
    ELSE /\ next[w][i] = table[w][i]
         /\ Lists(m, w) /\ m.request.of = i[1] => next[w][i] = Value(m, i)

\* What every step of the core does: each change of a page or group is reported.
CoreEffect ==
  /\ Existing \subseteq Existing' /\ deleted \subseteq deleted'
  /\ UNCHANGED <<uiVars, handlers, nextId, connected>>
  /\ \/ ~connected /\ inbox' = inbox
     \/ \E m : /\ Sends(m, Existing, Existing', deleted, deleted')
               /\ Truthful(m, core, core', deleted') /\ inbox' = Append(inbox, m)
     \/ \E e, s : /\ Sends(e, Existing, Existing', deleted, deleted')
                  /\ Truthful(e, core, core', deleted')
                  /\ Sends(s, Existing', Existing', deleted', deleted')
                  /\ Truthful(s, core', core', deleted')
                  /\ inbox' = Append(Append(inbox, e), s)

LEMMA OrderSent ==
  ASSUME Base, OrderInv, CoreEffect
  PROVE  OrderInv'
<1>1. inbox \in Seq(Messages)
  BY DEF Base, TypeInv
<1>2. CASE inbox' = inbox
  BY <1>2 DEF CoreEffect, OrderInv, OrderIn
<1>3. ASSUME NEW m, Sends(m, Existing, Existing', deleted, deleted'), inbox' = Append(inbox, m)
      PROVE  OrderInv'
  BY <1>1, <1>3, OrderAppend DEF Sends, OrderInv
<1>4. ASSUME NEW e, NEW s, Sends(e, Existing, Existing', deleted, deleted'),
             Sends(s, Existing', Existing', deleted', deleted'),
             inbox' = Append(Append(inbox, e), s)
      PROVE  OrderInv'
  <2>1. OrderIn(Append(inbox, e), Existing', deleted') /\ Append(inbox, e) \in Seq(Messages)
    BY <1>1, <1>4, OrderAppend, Appended DEF Sends, OrderInv
  <2>2. OrderIn(Append(Append(inbox, e), s), Existing', deleted')
    BY <1>4, <2>1, OrderAppend DEF Sends
  <2> QED BY <1>4, <2>2 DEF OrderInv
<1> QED BY <1>2, <1>3, <1>4 DEF CoreEffect

LEMMA EventFits ==
  ASSUME NEW w \in Whats, NEW i \in Items, NEW v \in {Absent} \cup Versions, NEW isNew \in BOOLEAN,
         NEW old, NEW new, NEW before, NEW after,
         <<w, i>> \in new, isNew => <<w, i>> \notin old
  PROVE  Fits(ItemEvent(w, i, v, isNew), old, new, before, after)
<1> DEFINE m == ItemEvent(w, i, v, isNew)
<1>1. ~IsAnswer(m) /\ m.type = w /\ m.item = i /\ m.isNew = isNew /\ m.type # "profileDeleted"
  BY DEF ItemEvent, IsAnswer, Whats
<1> HIDE DEF m
<1>2. \A u \in Whats, j \in Items : Mentions(m, u, j) => u = w /\ j = i
  BY <1>1 DEF Mentions, Tells, Lists
<1>3. \A u \in Whats, j \in Items : TellsNew(m, u, j) => <<u, j>> \notin old
  BY <1>1 DEF TellsNew, Tells
<1>4. \A u : ~Lists(m, u)
  BY <1>1 DEF Lists
<1>5. Fits(m, old, new, before, after)
  BY <1>1, <1>2, <1>3, <1>4 DEF Fits
<1> QED BY <1>5 DEF m

LEMMA ProfileEventFits ==
  ASSUME NEW t \in {"profileAdded", "profileDeleted"}, NEW p, NEW old, NEW new, NEW before,
         NEW after, t = "profileDeleted" => p \in after
  PROVE  Fits(ProfileEvent(t, p), old, new, before, after)
<1> DEFINE m == ProfileEvent(t, p)
<1>1. ~IsAnswer(m) /\ m.type = t /\ m.profile = p
  BY DEF ProfileEvent, IsAnswer
<1> HIDE DEF m
<1>2. \A u \in Whats : \A j : ~Mentions(m, u, j) /\ ~TellsNew(m, u, j)
  BY <1>1 DEF Mentions, TellsNew, Tells, Lists, Whats
<1>3. \A u : ~Lists(m, u)
  BY <1>1 DEF Lists
<1>4. Fits(m, old, new, before, after)
  BY <1>1, <1>2, <1>3 DEF Fits
<1> QED BY <1>4 DEF m

LEMMA AnswerFits ==
  ASSUME Base, NEW r \in requests, r.kind \in Whats => r.of \in core.profiles, NEW old,
         NEW before, before \cap core.profiles = {}, NEW after
  PROVE  /\ Fits(Failure(r), old, Existing, before, after)
         /\ Fits(Success(r), old, Existing, before, after)
<1> DEFINE f == Failure(r)
           s == Success(r)
<1>1. /\ IsAnswer(f) /\ ~f.ok /\ IsAnswer(s) /\ s.request = r /\ s.ok
      /\ f.type = "answer" /\ s.type = "answer"
      /\ r.kind \in Whats => \A i \in DOMAIN s.data : i \in ItemsOf(core[r.kind], r.of)
  BY AnswersTyped DEF Failure, Success
<1> HIDE DEF f, s
<1>2. \A w \in Whats : \A i : ~Tells(f, w, i) /\ ~Tells(s, w, i)
  BY <1>1 DEF Tells, Whats
<1>3. \A w : ~Lists(f, w) /\ (Lists(s, w) => r.kind = w)
  BY <1>1 DEF Lists
<1>4. ASSUME NEW w \in Whats, NEW i \in DOMAIN s.data, Lists(s, w)
      PROVE  i \in Items /\ i[1] = r.of /\ <<w, i>> \in Existing
  <2>1. i \in ItemsOf(core[w], r.of)
    BY <1>1, <1>3, <1>4
  <2> QED BY <2>1 DEF ItemsOf, Existing
<1>5. "pages" \in Whats
  BY DEF Whats
<1>6. Fits(f, old, Existing, before, after)
  BY <1>1, <1>2, <1>3 DEF Fits, Mentions, TellsNew
<1>7. Fits(s, old, Existing, before, after)
  BY <1>1, <1>2, <1>3, <1>4, <1>5 DEF Fits, Mentions, TellsNew
<1> QED BY <1>6, <1>7 DEF f, s

LEMMA EventTrue ==
  ASSUME NEW w \in Whats, NEW i \in Items, NEW v, NEW isNew, NEW table, NEW next, NEW gone,
         \A u \in Whats, j \in Items : next[u][j] = IF u = w /\ j = i THEN v ELSE table[u][j],
         isNew <=> table[w][i] = Absent
  PROVE  Truthful(ItemEvent(w, i, v, isNew), table, next, gone)
<1> DEFINE m == ItemEvent(w, i, v, isNew)
<1>1. ~IsAnswer(m) /\ m.type = w /\ m.item = i /\ m.isNew = isNew /\ m.version = v
  BY DEF ItemEvent, IsAnswer, Whats
<1> HIDE DEF m
<1>2. Truthful(m, table, next, gone)
  BY <1>1 DEF Truthful, Tells, Lists, Value
<1> QED BY <1>2 DEF m

LEMMA ProfileEventTrue ==
  ASSUME NEW t \in {"profileAdded", "profileDeleted"}, NEW p, NEW table, NEW next, NEW gone,
         \A u \in Whats, j \in Items : j[1] \notin gone => next[u][j] = table[u][j]
  PROVE  Truthful(ProfileEvent(t, p), table, next, gone)
<1> DEFINE m == ProfileEvent(t, p)
<1>1. ~IsAnswer(m) /\ m.type = t
  BY DEF ProfileEvent, IsAnswer
<1> HIDE DEF m
<1>2. Truthful(m, table, next, gone)
  BY <1>1 DEF Truthful, Tells, Lists, Whats
<1> QED BY <1>2 DEF m

LEMMA AnswerTrue ==
  ASSUME Base, NEW r \in requests, NEW table, NEW next, NEW gone,
         \A u \in Whats, j \in Items : next[u][j] = table[u][j],
         r.kind \in Whats => \A u \in Whats, j \in Items : table[u][j] = core[u][j]
  PROVE  Truthful(Failure(r), table, next, gone) /\ Truthful(Success(r), table, next, gone)
<1> DEFINE f == Failure(r)
           s == Success(r)
<1>1. /\ ~f.ok /\ IsAnswer(s) /\ s.request = r /\ s.data = Content(r)
      /\ f.type = "answer" /\ s.type = "answer"
      /\ r.kind \in Whats =>
           /\ DOMAIN s.data = ItemsOf(core[r.kind], r.of)
           /\ \A i \in ItemsOf(core[r.kind], r.of) : s.data[i] = core[r.kind][i]
  BY AnswersTyped DEF Failure, Success
<1> HIDE DEF f, s
<1>2. Truthful(f, table, next, gone)
  BY <1>1 DEF Truthful, Tells, Lists, Whats
<1>3. ASSUME NEW w \in Whats, NEW i \in Items, Lists(s, w), s.request.of = i[1]
      PROVE  next[w][i] = Value(s, i)
  <2>1. r.kind = w /\ r.of = i[1] /\ next[w][i] = core[w][i]
    BY <1>1, <1>3 DEF Lists
  <2>2. i \in DOMAIN s.data <=> core[w][i] # Absent
    BY <1>1, <2>1 DEF ItemsOf
  <2> QED BY <1>1, <2>1, <2>2 DEF Value
<1>4. Truthful(s, table, next, gone)
  BY <1>1, <1>3 DEF Truthful, Tells, Whats
<1> QED BY <1>2, <1>4 DEF f, s

LEMMA OrderCore ==
  ASSUME Base, CoreStep
  PROVE  CoreEffect
<1>1. CoreTyped /\ CoreInv /\ inbox \in Seq(Messages)
  BY DEF Base, TypeInv
<1>2. \A u \in Whats : core[u] \in [Items -> {Absent} \cup Versions]
  BY <1>1, TableTyped
<1>3. ASSUME NEW w \in Whats, NEW i \in Items, CoreSetsItem(w, i)
      PROVE  CoreEffect
  <2>1. PICK v \in {Absent} \cup Versions :
          /\ i[1] \in core.profiles /\ <<w, i>> \notin removed
          /\ v = Absent => core[w][i] # Absent
          /\ SetsTo(w, i, v)
          /\ inbox' = Reported(ItemEvent(w, i, v, core[w][i] = Absent))
          /\ removed' = IF v = Absent THEN removed \cup {<<w, i>>} ELSE removed
          /\ version' = version + 1 /\ version' \in Versions /\ version < MaxChanges + 1
          /\ UNCHANGED <<deleted, connected, boundVars, linkVars, uiVars>>
    BY <1>3, SetsItemFacts
  <2> DEFINE isNew == core[w][i] = Absent
             m == ItemEvent(w, i, v, isNew)
  <2>2. /\ core'[w] = [core[w] EXCEPT ![i] = v]
        /\ \A u \in Whats : u # w => core'[u] = core[u]
    BY <1>1, <2>1, CoreItemSet
  <2>3. \A u \in Whats, j \in Items : core'[u][j] = IF u = w /\ j = i THEN v ELSE core[u][j]
    BY <1>2, <2>2
  <2>4. Existing \subseteq Existing' /\ <<w, i>> \in Existing'
    BY <2>1, <2>3 DEF Existing
  <2>5. isNew => <<w, i>> \notin Existing
    BY <1>1, <2>1 DEF Existing, CoreInv
  <2>6. m \in Messages
    BY ItemPart, EventsTyped
  <2>7. Fits(m, Existing, Existing', deleted, deleted')
    <3> HIDE DEF isNew
    <3>1. isNew \in BOOLEAN
      BY DEF isNew
    <3> QED BY <2>4, <2>5, <3>1, EventFits
  <2>8. (~connected /\ inbox' = inbox) \/ inbox' = Append(inbox, m)
    BY <2>1 DEF Reported
  <2>10. Truthful(m, core, core', deleted')
    BY <2>3, EventTrue
  <2> HIDE DEF m
  <2>9. deleted \subseteq deleted' /\ UNCHANGED <<uiVars, handlers, nextId, connected>>
    BY <2>1 DEF linkVars
  <2> QED BY <2>4, <2>6, <2>7, <2>8, <2>9, <2>10 DEF CoreEffect, Sends
<1>4. ASSUME NEW p \in Profiles, CoreAddsProfile(p)
      PROVE  CoreEffect
  <2> DEFINE m == ProfileEvent("profileAdded", p)
  <2>1. /\ core' = [core EXCEPT !.profiles = @ \cup {p}]
        /\ UNCHANGED <<deleted, removed, connected, boundVars, linkVars, uiVars>>
        /\ inbox' = Reported(m)
    BY <1>4 DEF CoreAddsProfile, ProfileEvent
  <2>2. core'.pages = core.pages /\ core'.groups = core.groups
    BY <1>1, <2>1 DEF CoreTyped
  <2>3. Existing' = Existing
    BY <2>1, <2>2 DEF Existing, Whats
  <2>4. m \in Messages
    BY DEF Messages, ProfileEvents, ProfileEvent
  <2>5. Fits(m, Existing, Existing', deleted, deleted')
    BY ProfileEventFits
  <2>6. (~connected /\ inbox' = inbox) \/ inbox' = Append(inbox, m)
    BY <2>1 DEF Reported
  <2>8. Truthful(m, core, core', deleted')
    BY <2>1, <2>2, ProfileEventTrue DEF Whats
  <2> HIDE DEF m
  <2>7. deleted \subseteq deleted' /\ UNCHANGED <<uiVars, handlers, nextId, connected>>
    BY <2>1 DEF linkVars
  <2> QED BY <2>3, <2>4, <2>5, <2>6, <2>7, <2>8 DEF CoreEffect, Sends
<1>5. ASSUME NEW p \in Profiles, CoreDeletesProfile(p)
      PROVE  CoreEffect
  <2> DEFINE m == ProfileEvent("profileDeleted", p)
  <2>1. /\ \A u \in Whats : core'[u] = [i \in Items |-> IF i[1] = p THEN Absent ELSE core[u][i]]
        /\ deleted' = deleted \cup {p} /\ removed' = removed
        /\ inbox' = Reported(m)
        /\ UNCHANGED <<removed, connected, boundVars, linkVars, uiVars>>
    BY <1>5, DeletesProfileFacts
  <2>2. \A u \in Whats, j \in Items : core'[u][j] = IF j[1] = p THEN Absent ELSE core[u][j]
    BY <2>1
  <2>3. Existing \subseteq Existing'
    BY <2>1, <2>2 DEF Existing
  <2>4. m \in Messages
    BY DEF Messages, ProfileEvents, ProfileEvent
  <2>5. Fits(m, Existing, Existing', deleted, deleted')
    BY <2>1, ProfileEventFits
  <2>6. (~connected /\ inbox' = inbox) \/ inbox' = Append(inbox, m)
    BY <2>1 DEF Reported
  <2>8. Truthful(m, core, core', deleted')
    BY <2>1, <2>2, ProfileEventTrue DEF Whats
  <2> HIDE DEF m
  <2>7. deleted \subseteq deleted' /\ UNCHANGED <<uiVars, handlers, nextId, connected>>
    BY <2>1 DEF linkVars
  <2> QED BY <2>3, <2>4, <2>5, <2>6, <2>7, <2>8 DEF CoreEffect, Sends
<1>6. ASSUME NEW r \in requests, CoreAnswers(r)
      PROVE  CoreEffect
  <2> DEFINE s == Success(r)
  <2>1. /\ UNCHANGED <<deleted, removed, connected, boundVars, nextId, handlers, uiVars>>
        /\ r.kind \in Whats => r.of \in core.profiles
        /\ r.kind = "update" =>
             /\ r.of \in Items /\ core.pages[r.of] # Absent
             /\ version' = version + 1 /\ version' \in Versions
             /\ SetsTo("pages", r.of, version + 1)
             /\ inbox' = Append(Append(inbox, ItemEvent("pages", r.of, version + 1, FALSE)), s)
        /\ r.kind # "update" =>
             /\ inbox' = Append(inbox, s)
             /\ core' = IF r.kind = "switch" THEN [core EXCEPT !.active = r.of] ELSE core
    BY <1>6, CoreAnswersFacts DEF Whats
  <2>2. s \in Messages
    BY AnswersTyped
  <2>3. deleted \cap core.profiles = {}
    BY <1>1 DEF CoreInv
  <2>4. \A old, after : Fits(s, old, Existing, deleted, after)
    BY <2>1, <2>3, AnswerFits
  <2> HIDE DEF s
  <2>5. deleted \subseteq deleted' /\ UNCHANGED <<uiVars, handlers, nextId, connected>>
    BY <2>1
  <2>6. CASE r.kind # "update"
    <3>1. core'.pages = core.pages /\ core'.groups = core.groups
      BY <1>1, <2>1, <2>6 DEF CoreTyped
    <3>2. Existing' = Existing
      BY <2>1, <3>1 DEF Existing, Whats
    <3>3. Sends(s, Existing, Existing', deleted, deleted')
      BY <2>2, <2>4, <2>5, <3>2 DEF Sends
    <3>4. Truthful(s, core, core', deleted')
      BY <3>1, AnswerTrue DEF s, Whats
    <3> QED BY <2>1, <2>5, <2>6, <3>2, <3>3, <3>4 DEF CoreEffect
  <2>7. CASE r.kind = "update"
    <3> DEFINE e == ItemEvent("pages", r.of, version + 1, FALSE)
    <3>1. /\ core'.pages = [core.pages EXCEPT ![r.of] = version + 1]
          /\ core'.groups = core.groups
      BY <1>1, <2>1, <2>7, CoreItemSet DEF Whats
    <3>2. version + 1 \in Versions /\ version + 1 # Absent
      BY <2>1, <2>7 DEF Versions, Absent
    <3>3. \A j \in Items : core'.pages[j] # Absent <=> core.pages[j] # Absent
      BY <1>2, <2>1, <2>7, <3>1, <3>2 DEF Whats
    <3>4. Existing' = Existing
      BY <2>1, <3>1, <3>3 DEF Existing, Whats
    <3>5. "pages" \in Whats /\ <<"pages", r.of>> \in Existing
      BY <2>1, <2>7 DEF Existing, Whats
    <3>6. e \in Messages
      BY <2>1, <2>7, <3>2, <3>5 DEF Messages, ItemEvents, ItemEvent
    <3>7. Fits(e, Existing, Existing', deleted, deleted')
      BY <2>1, <2>7, <3>2, <3>4, <3>5, EventFits
    <3>11. Truthful(e, core, core', deleted')
      <4>1. \A u \in Whats, j \in Items :
              core'[u][j] = IF u = "pages" /\ j = r.of THEN version + 1 ELSE core[u][j]
        BY <1>2, <2>1, <2>7, <3>1 DEF Whats
      <4> QED BY <2>1, <2>7, <3>5, <4>1, EventTrue
    <3>12. Truthful(s, core', core', deleted')
      BY <2>7, AnswerTrue DEF s, Whats
    <3> HIDE DEF e
    <3>8. inbox' = Append(Append(inbox, e), s)
      BY <2>1, <2>7 DEF e
    <3>9. Sends(e, Existing, Existing', deleted, deleted')
      BY <2>5, <3>4, <3>6, <3>7 DEF Sends
    <3>10. Sends(s, Existing', Existing', deleted', deleted')
      BY <2>1, <2>2, <2>4, <3>4 DEF Sends
    <3> QED BY <2>5, <3>4, <3>8, <3>9, <3>10, <3>11, <3>12 DEF CoreEffect
  <2> QED BY <2>6, <2>7
<1>7. ASSUME NEW r \in requests, CoreRefuses(r)
      PROVE  CoreEffect
  <2> DEFINE f == Failure(r)
  <2>1. /\ inbox' = Append(inbox, f)
        /\ UNCHANGED <<coreVars, connected, inputs, nextId, handlers, uiVars>>
    BY <1>7 DEF CoreRefuses
  <2>2. f \in Messages /\ IsAnswer(f) /\ ~f.ok /\ f.type = "answer"
    BY AnswersTyped DEF Failure
  <2>6. Truthful(f, core, core', deleted')
    BY <2>1, AnswerTrue DEF coreVars
  <2> HIDE DEF f
  <2>3. Existing' = Existing /\ deleted' = deleted
    BY <2>1 DEF Existing, coreVars
  <2>4. Fits(f, Existing, Existing', deleted, deleted')
    BY <2>2 DEF Fits, Mentions, TellsNew, Tells, Lists, Whats
  <2>5. UNCHANGED <<uiVars, handlers, nextId, connected>>
    BY <2>1
  <2> QED BY <2>1, <2>2, <2>3, <2>4, <2>5, <2>6 DEF CoreEffect, Sends
<1> QED BY <1>3, <1>4, <1>5, <1>6, <1>7 DEF CoreStep

LEMMA ExistingKept ==
  ASSUME UNCHANGED coreVars
  PROVE  Existing' = Existing /\ deleted' = deleted /\ core' = core
  BY DEF Existing, coreVars

\* A step that is not one of the core.
LEMMA OrderTaken ==
  ASSUME Base, OrderInv, UNCHANGED coreVars,
         \/ inbox' = inbox \/ inbox' = <<>>
         \/ inbox # <<>> /\ inbox' = Tail(inbox)
  PROVE  OrderInv'
<1>1. inbox \in Seq(Messages) /\ Existing' = Existing /\ deleted' = deleted
  BY ExistingKept DEF Base, TypeInv
<1>2. CASE inbox' = inbox
  BY <1>1, <1>2 DEF OrderInv
<1>3. CASE inbox' = <<>>
  BY <1>3 DEF OrderInv, OrderIn
<1>4. CASE inbox # <<>> /\ inbox' = Tail(inbox)
  BY <1>1, <1>4, OrderTail DEF OrderInv
<1> QED BY <1>2, <1>3, <1>4

LEMMA OrderInit == Init => OrderInv
BY DEF Init, OrderInv, OrderIn

LEMMA OrderNext ==
  ASSUME Base, OrderInv, [Next]_vars
  PROVE  OrderInv'
<1>1. UNCHANGED vars \/ CoreStep \/ UiStep \/ CoreDisconnected \/ CoreConnected
  BY NextCases DEF Base
<1>2. CASE CoreStep
  BY <1>2, OrderCore, OrderSent
<1>3. CASE UNCHANGED vars
  <2>1. inbox' = inbox /\ UNCHANGED coreVars
    BY <1>3 DEF vars
  <2> QED BY <2>1, OrderTaken
<1>4. CASE UiStep
  <2>1. PICK settled, new : UiFrame(settled, new)
    BY <1>4, UiFrames
  <2>2. UNCHANGED coreVars /\ (inbox' = inbox \/ (inbox # <<>> /\ inbox' = Tail(inbox)))
    BY <2>1 DEF UiFrame
  <2> QED BY <2>2, OrderTaken
<1>5. CASE CoreDisconnected
  BY <1>5, OrderTaken DEF CoreDisconnected
<1>6. CASE CoreConnected
  BY <1>6, OrderTaken DEF CoreConnected
<1> QED BY <1>1, <1>2, <1>3, <1>4, <1>5, <1>6

-----------------------------------------------------------------------------
(* What is shown                                                           *)

(***************************************************************************)
(* The newest requests are for the profile that is shown; if it was        *)
(* deleted meanwhile, there is no answer with its pages.                   *)
(***************************************************************************)
NewestInv ==
  /\ \A r \in handlers : r.kind = "pages" /\ r.id = pagesRequest =>
       \/ r.of = shown
       \/ /\ shown = None /\ r.of \in deleted
          /\ \A p \in DOMAIN inbox : Lists(inbox[p], "pages") => inbox[p].request # r
  /\ pagesRequest < nextId

\* Pages of profile p, each once, that the core has or had and will not report as new.
RowsIn(rows, p, known, box) ==
  /\ \A n \in DOMAIN rows :
       /\ rows[n].page \in Items /\ rows[n].page[1] = p
       /\ <<"pages", rows[n].page>> \in known /\ ~NewAfter(box, 0, "pages", rows[n].page)
  /\ \A m, n \in DOMAIN rows : rows[m].page = rows[n].page => m = n

ScreenInv ==
  /\ RowsIn(pages, shown, Existing, inbox)
  /\ \A i \in Items : groups[i] # Absent => i[1] = groupProfile
  /\ shown # None => groupProfile = shown

LEMMA ScreenShows == ScreenInv => OneProfileShown
BY DEF ScreenInv, RowsIn, OneProfileShown, ShownAt

\* Rows that come each from another one, with the same page.
LEMMA RowsKept ==
  ASSUME NEW rows, NEW p, NEW known, NEW box, RowsIn(rows, p, known, box),
         NEW more, known \subseteq more, NEW rest,
         \A i \in Items : NewAfter(rest, 0, "pages", i) =>
           NewAfter(box, 0, "pages", i) \/ <<"pages", i>> \notin known,
         NEW next, NEW from,
         \A n \in DOMAIN next : from[n] \in DOMAIN rows /\ next[n].page = rows[from[n]].page,
         \A m, n \in DOMAIN next : from[m] = from[n] => m = n
  PROVE  RowsIn(next, p, more, rest)
<1>1. ASSUME NEW n \in DOMAIN next
      PROVE  /\ next[n].page \in Items /\ next[n].page[1] = p
             /\ <<"pages", next[n].page>> \in more
             /\ ~NewAfter(rest, 0, "pages", next[n].page)
  BY DEF RowsIn
<1>2. ASSUME NEW m \in DOMAIN next, NEW n \in DOMAIN next, next[m].page = next[n].page
      PROVE  m = n
  <2>1. from[m] = from[n]
    BY <1>2 DEF RowsIn
  <2> QED BY <2>1
<1> QED BY <1>1, <1>2 DEF RowsIn

LEMMA SameRows ==
  ASSUME NEW rows, NEW p, NEW known, NEW box, RowsIn(rows, p, known, box),
         NEW more, known \subseteq more, NEW rest,
         \A i \in Items : NewAfter(rest, 0, "pages", i) =>
           NewAfter(box, 0, "pages", i) \/ <<"pages", i>> \notin known,
         NEW next, DOMAIN next = DOMAIN rows, \A n \in DOMAIN rows : next[n].page = rows[n].page
  PROVE  RowsIn(next, p, more, rest)
<1> DEFINE from == [n \in DOMAIN rows |-> n]
<1>1. /\ \A n \in DOMAIN next : from[n] \in DOMAIN rows /\ next[n].page = rows[from[n]].page
      /\ \A m, n \in DOMAIN next : from[m] = from[n] => m = n
  OBVIOUS
<1> HIDE DEF from
<1> QED BY <1>1, RowsKept

LEMMA NoRows ==
  ASSUME NEW p, NEW known, NEW box
  PROVE  RowsIn(<<>>, p, known, box)
  BY DEF RowsIn

\* What is announced as new does not exist before it is sent.
LEMMA NewIsUnknown ==
  ASSUME NEW box \in Seq(Messages), NEW m \in Messages, NEW old, NEW new, NEW before, NEW after,
         Fits(m, old, new, before, after), NEW i \in Items, NewAfter(Append(box, m), 0, "pages", i)
  PROVE  NewAfter(box, 0, "pages", i) \/ <<"pages", i>> \notin old
<1>1. PICK q \in DOMAIN Append(box, m) : q > 0 /\ TellsNew(Append(box, m)[q], "pages", i)
  BY DEF NewAfter
<1>2. CASE q \in 1..Len(box)
  <2>1. q \in DOMAIN box /\ Append(box, m)[q] = box[q]
    BY <1>2, Appended
  <2> QED BY <1>1, <2>1 DEF NewAfter
<1>3. CASE q = Len(box) + 1
  <2>1. TellsNew(m, "pages", i) /\ "pages" \in Whats
    BY <1>1, <1>3, Appended DEF Whats
  <2> QED BY <2>1 DEF Fits
<1>4. q \in 1..Len(box) \/ q = Len(box) + 1
  BY <1>1, Appended
<1> QED BY <1>2, <1>3, <1>4

LEMMA ScreenCore ==
  ASSUME Base, ScreenInv, CoreEffect
  PROVE  ScreenInv'
<1>1. UNCHANGED <<pages, shown, groups, groupProfile>>
  BY DEF CoreEffect, uiVars, profileVars, pageVars, groupVars
<1>2. inbox \in Seq(Messages) /\ RowsIn(pages, shown, Existing, inbox)
  BY DEF Base, TypeInv, ScreenInv
<1>3. Existing \subseteq Existing'
  BY DEF CoreEffect
<1>4. ASSUME NEW i \in Items, NewAfter(inbox', 0, "pages", i)
      PROVE  NewAfter(inbox, 0, "pages", i) \/ <<"pages", i>> \notin Existing
  <2>1. CASE inbox' = inbox
    BY <1>4, <2>1
  <2>2. ASSUME NEW m, Sends(m, Existing, Existing', deleted, deleted'), inbox' = Append(inbox, m)
        PROVE  NewAfter(inbox, 0, "pages", i) \/ <<"pages", i>> \notin Existing
    BY <1>2, <1>4, <2>2, NewIsUnknown DEF Sends
  <2>3. ASSUME NEW e, NEW s, Sends(e, Existing, Existing', deleted, deleted'),
               Sends(s, Existing', Existing', deleted', deleted'),
               inbox' = Append(Append(inbox, e), s)
        PROVE  NewAfter(inbox, 0, "pages", i) \/ <<"pages", i>> \notin Existing
    <3>1. Append(inbox, e) \in Seq(Messages)
      BY <1>2, <2>3, Appended DEF Sends
    <3>2. NewAfter(Append(inbox, e), 0, "pages", i) \/ <<"pages", i>> \notin Existing'
      BY <1>4, <2>3, <3>1, NewIsUnknown DEF Sends
    <3> QED BY <1>2, <1>3, <2>3, <3>2, NewIsUnknown DEF Sends
  <2> QED BY <2>1, <2>2, <2>3 DEF CoreEffect
<1>5. RowsIn(pages, shown, Existing', inbox')
  BY <1>2, <1>3, <1>4, SameRows
<1> QED BY <1>1, <1>5 DEF ScreenInv

LEMMA NewestCore ==
  ASSUME Base, NewestInv, CoreEffect
  PROVE  NewestInv'
<1>1. UNCHANGED <<pagesRequest, shown, handlers, nextId>>
  BY DEF CoreEffect, uiVars, profileVars, pageVars
<1>2. inbox \in Seq(Messages) /\ deleted \subseteq deleted'
  BY DEF Base, TypeInv, CoreEffect
<1>3. ASSUME NEW r \in handlers, r.of \in deleted,
             \A p \in DOMAIN inbox : Lists(inbox[p], "pages") => inbox[p].request # r
      PROVE  \A p \in DOMAIN inbox' : Lists(inbox'[p], "pages") => inbox'[p].request # r
  <2>1. ASSUME NEW box \in Seq(Messages), NEW m \in Messages, NEW old, NEW new, NEW before,
               NEW after, Fits(m, old, new, before, after), r.of \in before,
               \A p \in DOMAIN box : Lists(box[p], "pages") => box[p].request # r
        PROVE  \A p \in DOMAIN Append(box, m) :
                 Lists(Append(box, m)[p], "pages") => Append(box, m)[p].request # r
    <3>1. Lists(m, "pages") => m.request # r
      BY <2>1 DEF Fits
    <3>2. ASSUME NEW p \in DOMAIN Append(box, m)
          PROVE  Lists(Append(box, m)[p], "pages") => Append(box, m)[p].request # r
      <4>1. p \in 1..Len(box) \/ p = Len(box) + 1
        BY Appended
      <4>2. CASE p \in 1..Len(box)
        <5>1. p \in DOMAIN box /\ Append(box, m)[p] = box[p]
          BY <4>2, Appended
        <5> QED BY <2>1, <5>1
      <4>3. CASE p = Len(box) + 1
        BY <3>1, <4>3, Appended
      <4> QED BY <4>1, <4>2, <4>3
    <3> QED BY <3>2
  <2>2. ASSUME NEW m, Sends(m, Existing, Existing', deleted, deleted'), inbox' = Append(inbox, m)
        PROVE  \A p \in DOMAIN inbox' : Lists(inbox'[p], "pages") => inbox'[p].request # r
    BY <1>2, <1>3, <2>1, <2>2 DEF Sends
  <2>3. ASSUME NEW e, NEW s, Sends(e, Existing, Existing', deleted, deleted'),
               Sends(s, Existing', Existing', deleted', deleted'),
               inbox' = Append(Append(inbox, e), s)
        PROVE  \A p \in DOMAIN inbox' : Lists(inbox'[p], "pages") => inbox'[p].request # r
    <3>1. Append(inbox, e) \in Seq(Messages)
      BY <1>2, <2>3, Appended DEF Sends
    <3>2. \A p \in DOMAIN Append(inbox, e) :
            Lists(Append(inbox, e)[p], "pages") => Append(inbox, e)[p].request # r
      BY <1>2, <1>3, <2>1, <2>3 DEF Sends
    <3> QED BY <1>2, <1>3, <2>1, <2>3, <3>1, <3>2 DEF Sends
  <2>4. CASE inbox' = inbox
    BY <1>3, <2>4
  <2> QED BY <2>2, <2>3, <2>4 DEF CoreEffect
<1>4. ASSUME NEW r \in handlers, r.kind = "pages", r.id = pagesRequest
      PROVE  \/ r.of = shown
             \/ /\ shown = None /\ r.of \in deleted'
                /\ \A p \in DOMAIN inbox' : Lists(inbox'[p], "pages") => inbox'[p].request # r
  BY <1>2, <1>3, <1>4 DEF NewestInv
<1> QED BY <1>1, <1>4 DEF NewestInv

\* A message that was taken, if any, was the first.
Delivered == inbox' = inbox \/ (inbox # <<>> /\ inbox' = Tail(inbox))

LEMMA NewestKept ==
  ASSUME Base, NewestInv, UNCHANGED <<coreVars, shown, pagesRequest>>, Delivered,
         NEW settled, NEW new, Links(settled, new)
  PROVE  NewestInv'
<1>1. /\ inbox \in Seq(Messages) /\ pagesRequest < nextId /\ nextId \in Nat /\ pagesRequest \in Nat
      /\ deleted' = deleted
  BY ExistingKept DEF Base, TypeInv, NewestInv, LinkTyped, UiTyped
<1>2. pagesRequest < nextId' /\ \A r \in new : r.id # pagesRequest
  <2>1. \A r \in new : r.id \in Nat /\ r.id >= nextId
    BY DEF Links, Request
  <2>2. nextId' \in Nat /\ nextId' >= nextId
    BY DEF Links
  <2> QED BY <1>1, <2>1, <2>2
<1>3. ASSUME NEW r, \A p \in DOMAIN inbox : Lists(inbox[p], "pages") => inbox[p].request # r
      PROVE  \A p \in DOMAIN inbox' : Lists(inbox'[p], "pages") => inbox'[p].request # r
  <2>1. CASE inbox' = inbox
    BY <1>3, <2>1
  <2>2. CASE inbox # <<>> /\ inbox' = Tail(inbox)
    <3>1. ASSUME NEW p \in DOMAIN Tail(inbox)
          PROVE  p + 1 \in DOMAIN inbox /\ Tail(inbox)[p] = inbox[p + 1]
      BY <1>1, <2>2, HeadTyped
    <3> QED BY <1>3, <2>2, <3>1
  <2> QED BY <2>1, <2>2 DEF Delivered
<1>4. ASSUME NEW r \in handlers', r.kind = "pages", r.id = pagesRequest
      PROVE  \/ r.of = shown
             \/ /\ shown = None /\ r.of \in deleted
                /\ \A p \in DOMAIN inbox' : Lists(inbox'[p], "pages") => inbox'[p].request # r
  <2>1. r \in handlers
    BY <1>2, <1>4 DEF Links
  <2> QED BY <1>3, <1>4, <2>1 DEF NewestInv
<1> QED BY <1>1, <1>2, <1>4 DEF NewestInv

\* The ids of the requests of a step.
LEMMA SentIds ==
  ASSUME Base, NEW r \in handlers
  PROVE  /\ r.id \in Nat \ {0} /\ r.id < nextId
         /\ nextId \in Nat \ {0}
         /\ SentId(1) = IF connected THEN nextId ELSE 0
         /\ SentId(2) = IF connected THEN nextId + 1 ELSE 0
<1>1. r.id \in Nat \ {0} /\ r.id < nextId /\ nextId \in Nat \ {0}
  BY DEF Base, TypeInv, LinkTyped, Request
<1> QED BY <1>1 DEF SentId

LEMMA NewestSync ==
  ASSUME Base, NEW r \in handlers, Sync({r}), Links({r}, Sent1("pages", shown)),
         UNCHANGED <<coreVars, shown>>
  PROVE  NewestInv'
<1>1. pagesRequest' = IF connected THEN nextId ELSE 0
  BY SentIds DEF Sync
<1>2. \A s \in handlers : s.id \in Nat \ {0} /\ s.id < nextId
  BY SentIds
<1>3. nextId \in Nat \ {0} /\ nextId' \in Nat /\ nextId' >= nextId
  BY SentIds DEF Links
<1>4. CASE connected
  <2> DEFINE c == Call(nextId, "pages", shown)
  <2>1. c.id = nextId /\ c.of = shown /\ Sent1("pages", shown) = {c}
    BY <1>4 DEF Call, Sent1
  <2> HIDE DEF c
  <2>2. handlers' = (handlers \ {r}) \cup {c} /\ nextId < nextId'
    BY <2>1 DEF Links
  <2>3. \A s \in handlers' : s.id = nextId => s.of = shown
    BY <1>2, <2>1, <2>2
  <2> QED BY <1>1, <1>4, <2>2, <2>3 DEF NewestInv
<1>5. CASE ~connected
  <2>1. handlers' \subseteq handlers
    BY <1>5 DEF Links
  <2> QED BY <1>1, <1>2, <1>3, <1>5, <2>1 DEF NewestInv
<1> QED BY <1>4, <1>5

LEMMA NewestProfile ==
  ASSUME Base, NEW r \in handlers, Reads(r), ProfileAnswer(r, r.of),
         Links({r}, Sent2("groups", r.of, "pages", r.of))
  PROVE  NewestInv'
<1>1. connected
  BY ReadsFacts
<1>2. pagesRequest' = nextId + 1 /\ shown' = r.of
  BY <1>1, SentIds DEF ProfileAnswer
<1>3. \A s \in handlers : s.id \in Nat \ {0} /\ s.id < nextId
  BY SentIds
<1> DEFINE c == Call(nextId, "groups", r.of)
           d == Call(nextId + 1, "pages", r.of)
<1>4. c.id = nextId /\ d.id = nextId + 1 /\ d.of = r.of
      /\ Sent2("groups", r.of, "pages", r.of) = {c, d}
  BY <1>1 DEF Call, Sent2
<1> HIDE DEF c, d
<1>5. handlers' = (handlers \ {r}) \cup {c, d} /\ nextId + 1 < nextId'
  BY <1>4 DEF Links
<1>6. \A s \in handlers' : s.id = nextId + 1 => s.of = r.of
  BY <1>3, <1>4, <1>5, SentIds
<1> QED BY <1>2, <1>5, <1>6 DEF NewestInv

LEMMA NewestDeleted ==
  ASSUME Base, OrderInv, NewestInv, NEW e \in ProfileEvents, Hears(e, {"profileDeleted"}),
         ProfileDeleted(e.profile), Links({}, {})
  PROVE  NewestInv'
<1>1. Takes /\ e = Head(inbox) /\ e.type = "profileDeleted" /\ e.profile \in Profiles
  BY DEF Hears, ProfileEvents
<1>2. inbox \in Seq(Messages) /\ inbox # <<>> /\ inbox' = Tail(inbox) /\ UNCHANGED coreVars
  BY <1>1 DEF Takes, Base, TypeInv
<1>3. CASE shown # e.profile
  <2>1. UNCHANGED <<coreVars, shown, pagesRequest>>
    BY <1>2, <1>3 DEF ProfileDeleted
  <2> QED BY <1>2, <2>1, NewestKept DEF Delivered
<1>4. CASE shown = e.profile
  <2>1. shown' = None /\ pagesRequest' = pagesRequest /\ handlers' = handlers /\ nextId' = nextId
    BY <1>4 DEF ProfileDeleted, linkVars
  <2>2. /\ e.profile \in deleted
        /\ \A p \in DOMAIN Tail(inbox) : Lists(Tail(inbox)[p], "pages") =>
             Tail(inbox)[p].request.of # e.profile
    BY <1>1, <1>2, OrderTail DEF OrderInv
  <2>3. deleted' = deleted /\ shown # None
    BY <1>1, <1>2, <1>4, ExistingKept, ProfilePagesAssumption
  <2>4. ASSUME NEW r \in handlers, r.kind = "pages", r.id = pagesRequest
        PROVE  /\ r.of \in deleted
               /\ \A p \in DOMAIN Tail(inbox) : Lists(Tail(inbox)[p], "pages") =>
                    Tail(inbox)[p].request # r
    <3>1. r.of = e.profile
      BY <1>4, <2>3, <2>4 DEF NewestInv
    <3> QED BY <2>2, <3>1
  <2> QED BY <1>2, <2>1, <2>3, <2>4 DEF NewestInv
<1> QED BY <1>3, <1>4

LEMMA NewestUi ==
  ASSUME Base, OrderInv, NewestInv, UiStep
  PROVE  NewestInv'
<1>1. Takes => Delivered /\ UNCHANGED coreVars
  BY DEF Takes, Delivered
<1>2. CASE Ignores /\ Links({}, {})
  <2>1. Takes /\ UNCHANGED <<shown, pagesRequest>>
    BY <1>2 DEF Ignores, uiVars, profileVars, pageVars
  <2> QED BY <1>1, <1>2, <2>1, NewestKept
<1>3. ASSUME NEW r \in handlers, Reads(r),
             \/ r.kind \in {"active", "switch"} /\ Selects(r, Head(inbox).data)
             \/ r.kind \in {"switch", "update"} /\ Concludes(r)
             \/ r.kind = "pages" /\ PagesAnswer(r, Head(inbox).data) /\ Links({r}, {})
             \/ r.kind = "groups" /\ GroupsAnswer(r, Head(inbox).data) /\ Links({r}, {})
      PROVE  NewestInv'
  <2>1. UNCHANGED <<shown, pagesRequest>> /\ Takes
    BY <1>3 DEF Selects, Concludes, PagesAnswer, GroupsAnswer, Reads, uiVars, profileVars, pageVars
  <2>2. \E new : Links({r}, new)
    BY <1>3 DEF Selects, Concludes
  <2> QED BY <1>1, <2>1, <2>2, NewestKept
<1>4. ASSUME NEW r \in handlers, NEW isAnswer \in BOOLEAN, Notices(r, isAnswer),
             Fails(r, isAnswer), Links({r}, IF Reloads(r) THEN Sent1("pages", shown) ELSE {})
      PROVE  NewestInv'
  <2>1. UNCHANGED coreVars /\ Delivered /\ shown' = shown
    BY <1>1, <1>4 DEF Notices, Fails, Delivered
  <2>2. CASE Reloads(r)
    BY <1>4, <2>1, <2>2, NewestSync DEF Fails
  <2>3. CASE ~Reloads(r)
    <3>1. pagesRequest' = pagesRequest /\ Links({r}, {})
      BY <1>4, <2>3 DEF Fails, pageVars
    <3> QED BY <2>1, <3>1, NewestKept
  <2> QED BY <2>2, <2>3
<1>5. ASSUME NEW e \in ItemEvents, Links({}, {}),
             \/ Hears(e, {"pages"}) /\ PageEvent(e)
             \/ Hears(e, {"groups"}) /\ GroupEvent(e)
      PROVE  NewestInv'
  <2>1. UNCHANGED <<shown, pagesRequest>> /\ Takes
    BY <1>5 DEF PageEvent, GroupEvent, Hears, profileVars, pageVars
  <2> QED BY <1>1, <1>5, <2>1, NewestKept
<1>6. ASSUME NEW e \in ProfileEvents, Hears(e, {"profileAdded"}), ProfileAdded(e.profile),
             Links({}, Sent1("switch", e.profile))
      PROVE  NewestInv'
  <2>1. UNCHANGED <<shown, pagesRequest>> /\ Takes
    BY <1>6 DEF ProfileAdded, Hears, uiVars, profileVars, pageVars
  <2> QED BY <1>1, <1>6, <2>1, NewestKept
<1>7. ASSUME NEW p \in Profiles, UserSwitches(p), Links({}, Sent1("switch", p))
      PROVE  NewestInv'
  <2>1. UNCHANGED <<coreVars, shown, pagesRequest>> /\ Delivered
    BY <1>7 DEF UserSwitches, Delivered, uiVars, profileVars, pageVars
  <2> QED BY <1>7, <2>1, NewestKept
<1>8. ASSUME NEW i \in Items, UserEditsPage(i), Links({}, Sent1("update", i))
      PROVE  NewestInv'
  <2>1. UNCHANGED <<coreVars, shown, pagesRequest>> /\ Delivered
    BY <1>8 DEF UserEditsPage, Delivered, profileVars
  <2> QED BY <1>8, <2>1, NewestKept
<1>9. UiEffect
  BY UiEffects
<1>10. ASSUME NEW r \in handlers, Reads(r), ProfileAnswer(r, r.of),
              Links({r}, Sent2("groups", r.of, "pages", r.of))
       PROVE  NewestInv'
  BY <1>10, NewestProfile
<1> QED BY <1>2, <1>3, <1>4, <1>5, <1>6, <1>7, <1>8, <1>9, <1>10, NewestDeleted DEF UiEffect

\* What is announced after a message was taken was announced before.
LEMMA NewsTaken ==
  ASSUME Base, OrderInv, UNCHANGED coreVars, Delivered
  PROVE  /\ inbox \in Seq(Messages) /\ Existing' = Existing
         /\ \A i \in Items : NewAfter(inbox', 0, "pages", i) => NewAfter(inbox, 0, "pages", i)
<1>1. inbox \in Seq(Messages) /\ Existing' = Existing
  BY ExistingKept DEF Base, TypeInv
<1>2. "pages" \in Whats
  BY DEF Whats
<1>3. CASE inbox' = inbox
  BY <1>1, <1>3
<1>4. CASE inbox # <<>> /\ inbox' = Tail(inbox)
  BY <1>1, <1>2, <1>4, OrderTail DEF OrderInv
<1> QED BY <1>1, <1>3, <1>4 DEF Delivered

\* A step after which the same pages are shown, or none, and no group of another profile.
LEMMA ScreenKept ==
  ASSUME Base, OrderInv, ScreenInv, UNCHANGED <<coreVars, shown, groupProfile>>, Delivered,
         \/ pages' = <<>>
         \/ /\ DOMAIN pages' = DOMAIN pages
            /\ \A n \in DOMAIN pages : pages'[n].page = pages[n].page,
         \A i \in Items : groups'[i] # Absent => groups[i] # Absent \/ i[1] = groupProfile
  PROVE  ScreenInv'
<1>1. /\ RowsIn(pages, shown, Existing, inbox) /\ Existing' = Existing
      /\ \A i \in Items : NewAfter(inbox', 0, "pages", i) => NewAfter(inbox, 0, "pages", i)
  BY NewsTaken DEF ScreenInv
<1>2. RowsIn(pages', shown, Existing, inbox')
  <2>1. CASE pages' = <<>>
    BY <2>1, NoRows
  <2>2. CASE DOMAIN pages' = DOMAIN pages /\ \A n \in DOMAIN pages : pages'[n].page = pages[n].page
    BY <1>1, <2>2, SameRows
  <2> QED BY <2>1, <2>2
<1> QED BY <1>1, <1>2 DEF ScreenInv

LEMMA ScreenProfile ==
  ASSUME Base, ScreenInv, NEW r \in handlers, Reads(r), ProfileAnswer(r, r.of)
  PROVE  ScreenInv'
<1>1. /\ shown' = r.of /\ groups' = NoItems /\ groupProfile' = r.of /\ pages' = <<>>
  BY DEF ProfileAnswer
<1>2. \A i \in Items : groups'[i] = Absent
  BY <1>1 DEF NoItems
<1>3. RowsIn(pages', shown', Existing', inbox')
  BY <1>1, NoRows
<1> QED BY <1>1, <1>2, <1>3 DEF ScreenInv

LEMMA ScreenDeleted ==
  ASSUME Base, OrderInv, ScreenInv, NEW e \in ProfileEvents, Hears(e, {"profileDeleted"}),
         ProfileDeleted(e.profile)
  PROVE  ScreenInv'
<1>1. UNCHANGED <<coreVars, groups, groupProfile>> /\ Delivered
  BY DEF Hears, Takes, Delivered, ProfileDeleted, groupVars
<1>2. CASE shown = e.profile
  <2>1. shown' = None /\ pages' = <<>>
    BY <1>2 DEF ProfileDeleted
  <2>2. RowsIn(pages', shown', Existing', inbox')
    BY <2>1, NoRows
  <2> QED BY <1>1, <2>1, <2>2 DEF ScreenInv
<1>3. CASE shown # e.profile
  <2>1. UNCHANGED <<shown, pages>>
    BY <1>3 DEF ProfileDeleted
  <2> QED BY <1>1, <2>1, ScreenKept
<1> QED BY <1>2, <1>3

LEMMA ScreenPages ==
  ASSUME Base, OrderInv, NewestInv, ScreenInv, NEW r \in handlers, Reads(r), r.kind = "pages",
         PagesAnswer(r, Head(inbox).data)
  PROVE  ScreenInv'
<1>1. /\ Takes /\ inbox # <<>> /\ inbox' = Tail(inbox) /\ UNCHANGED <<coreVars, shown>>
      /\ UNCHANGED <<groups, groupProfile>>
  BY DEF Reads, Takes, PagesAnswer, profileVars, groupVars
<1>2. CASE ~IsNewest(r, pagesRequest)
  <2>1. pages' = pages /\ Delivered
    BY <1>1, <1>2 DEF PagesAnswer, Delivered
  <2> QED BY <1>1, <2>1, ScreenKept
<1>3. CASE IsNewest(r, pagesRequest)
  <2> DEFINE content == Head(inbox).data
             s == Listing(content)
  <2>1. /\ content \in Contents /\ Head(inbox) = inbox[1] /\ 1 \in DOMAIN inbox
        /\ inbox \in Seq(Messages)
    BY <1>1, ReadsFacts, TakesFacts DEF Whats, Base, TypeInv
  <2>2. pages' = s
    BY <1>3 DEF PagesAnswer
  <2>3. /\ \A n \in DOMAIN s : s[n].page \in DOMAIN content
        /\ \A m, n \in DOMAIN s : s[m].page = s[n].page => m = n
    BY <2>1, ListingIs
  <2>4. Lists(Head(inbox), "pages") /\ Head(inbox).request = r /\ "pages" \in Whats
    BY DEF Reads, Lists, Whats
  <2>5. r.of = shown
    BY <1>3, <2>1, <2>4 DEF NewestInv, IsNewest
  <2>6. \A i \in DOMAIN content :
          /\ i \in Items /\ i[1] = shown /\ <<"pages", i>> \in Existing
          /\ ~NewAfter(Tail(inbox), 0, "pages", i)
    <3>1. \A i \in DOMAIN content : i \in Items /\ i[1] = r.of
      BY <1>1, <2>1, <2>4, OrderTail DEF OrderInv
    <3>2. ASSUME NEW i \in DOMAIN content
          PROVE  <<"pages", i>> \in Existing /\ ~NewAfter(Tail(inbox), 0, "pages", i)
      <4>1. Mentions(Head(inbox), "pages", i) /\ i \in Items
        BY <2>4, <3>1 DEF Mentions
      <4> QED BY <1>1, <2>1, <2>4, <4>1, OrderTail DEF OrderInv
    <3> QED BY <2>5, <3>1, <3>2
  <2>7. RowsIn(s, shown, Existing, Tail(inbox))
    <3> HIDE DEF s, content
    <3> QED BY <2>3, <2>6 DEF RowsIn
  <2>8. Existing' = Existing
    BY <1>1, ExistingKept
  <2> QED BY <1>1, <2>2, <2>7, <2>8 DEF ScreenInv
<1> QED BY <1>2, <1>3

LEMMA ScreenPageEvent ==
  ASSUME Base, OrderInv, ScreenInv, NEW e \in ItemEvents, Hears(e, {"pages"}), PageEvent(e)
  PROVE  ScreenInv'
<1>1. /\ Takes /\ inbox # <<>> /\ inbox' = Tail(inbox) /\ UNCHANGED <<coreVars, shown>>
      /\ UNCHANGED <<groups, groupProfile>> /\ Delivered /\ e = Head(inbox) /\ e.type = "pages"
  BY DEF Hears, Takes, PageEvent, profileVars, groupVars, Delivered
<1>2. /\ e.item \in Items /\ e.version \in {Absent} \cup Versions /\ e.isNew \in BOOLEAN
      /\ "pages" \in Whats /\ pages \in Seq(Rows)
  BY DEF ItemEvents, Whats, Base, TypeInv, UiTyped
<1>3. RowsIn(pages, shown, Existing, inbox) /\ Existing' = Existing
      /\ inbox \in Seq(Messages)
      /\ \A i \in Items : NewAfter(Tail(inbox), 0, "pages", i) => NewAfter(inbox, 0, "pages", i)
  BY <1>1, NewsTaken DEF ScreenInv
<1>4. CASE e.item[1] # shown
  <2>1. pages' = pages
    BY <1>4 DEF PageEvent
  <2> QED BY <1>1, <2>1, ScreenKept
<1>5. CASE e.item[1] = shown /\ e.version = Absent
  <2>1. pages' = PagesWithout(e.item)
    BY <1>5 DEF PageEvent
  <2>2. CASE ShownAt(e.item) = {}
    <3>1. pages' = pages
      BY <2>1, <2>2 DEF PagesWithout
    <3> QED BY <1>1, <3>1, ScreenKept
  <2>3. CASE ShownAt(e.item) # {}
    <3> DEFINE N == Len(pages) - 1
               from == [n \in 1..N |-> Origin(e.item, n)]
    <3>1. /\ Len(pages) \in Nat /\ First(e.item) \in 1..Len(pages)
          /\ DOMAIN pages' = 1..N
          /\ \A n \in 1..N : Origin(e.item, n) \in 1..Len(pages)
                             /\ pages'[n] = pages[Origin(e.item, n)]
      BY <1>2, <2>1, <2>3, WithoutIs
    <3>2. DOMAIN pages = 1..Len(pages)
      BY <1>2, LenProperties
    <3>3. \A n \in DOMAIN pages' : from[n] \in DOMAIN pages /\ pages'[n].page = pages[from[n]].page
      BY <3>1, <3>2
    <3>4. ASSUME NEW m \in DOMAIN pages', NEW n \in DOMAIN pages', from[m] = from[n]
          PROVE  m = n
      BY <3>1, <3>4 DEF Origin
    <3> HIDE DEF from, N
    <3>5. RowsIn(pages', shown, Existing, Tail(inbox))
      BY <1>3, <3>3, <3>4, RowsKept
    <3> QED BY <1>1, <1>3, <3>5 DEF ScreenInv
  <2> QED BY <2>2, <2>3
<1>6. CASE e.item[1] = shown /\ e.version # Absent /\ e.isNew
  <2> DEFINE row == [page |-> e.item, version |-> e.version]
             N == Len(pages)
  <2>1. pages' = Append(pages, row)
    BY <1>6 DEF PageEvent
  <2>2. row \in Rows /\ row.page = e.item
    BY <1>2, <1>6 DEF Rows
  <2> HIDE DEF row
  <2>3. /\ N \in Nat /\ DOMAIN pages = 1..N /\ DOMAIN pages' = 1..(N + 1)
        /\ \A n \in 1..N : pages'[n] = pages[n]
        /\ pages'[N + 1] = row
        /\ \A n \in 1..(N + 1) : n \in 1..N \/ n = N + 1
    BY <1>2, <2>1, <2>2, AppendProperties, LenProperties
  <2>4. TellsNew(Head(inbox), "pages", e.item) /\ Mentions(Head(inbox), "pages", e.item)
    BY <1>1, <1>6 DEF TellsNew, Tells, Mentions
  <2>5. /\ NewAfter(inbox, 0, "pages", e.item) /\ ~NewAfter(Tail(inbox), 0, "pages", e.item)
        /\ <<"pages", e.item>> \in Existing
    BY <1>1, <1>2, <1>3, <2>4, OrderTail DEF OrderInv
  <2>6. \A n \in 1..N : pages[n].page # e.item
    BY <1>3, <2>3, <2>5 DEF RowsIn
  <2> HIDE DEF N
  <2>7. RowsIn(pages, shown, Existing, Tail(inbox))
    BY <1>3, SameRows
  <2>8. ASSUME NEW n \in 1..(N + 1)
        PROVE  /\ pages'[n].page \in Items /\ pages'[n].page[1] = shown
               /\ <<"pages", pages'[n].page>> \in Existing
               /\ ~NewAfter(Tail(inbox), 0, "pages", pages'[n].page)
    <3>1. CASE n \in 1..N
      BY <2>3, <2>7, <3>1 DEF RowsIn
    <3>2. CASE n = N + 1
      BY <1>2, <1>6, <2>2, <2>3, <2>5, <3>2
    <3> QED BY <2>3, <3>1, <3>2
  <2>9. ASSUME NEW m \in 1..(N + 1), NEW n \in 1..(N + 1), pages'[m].page = pages'[n].page
        PROVE  m = n
    <3>1. CASE m \in 1..N /\ n \in 1..N
      BY <2>3, <2>7, <2>9, <3>1 DEF RowsIn
    <3>2. CASE m = N + 1 /\ n \in 1..N
      BY <2>2, <2>3, <2>6, <2>9, <3>2
    <3>3. CASE n = N + 1 /\ m \in 1..N
      BY <2>2, <2>3, <2>6, <2>9, <3>3
    <3> QED BY <2>3, <3>1, <3>2, <3>3
  <2>10. RowsIn(pages', shown, Existing, Tail(inbox))
    BY <2>3, <2>8, <2>9 DEF RowsIn
  <2> QED BY <1>1, <1>3, <2>10 DEF ScreenInv
<1>7. CASE e.item[1] = shown /\ e.version # Absent /\ ~e.isNew
  <2>1. pages' = [n \in DOMAIN pages |-> IF n \in ShownAt(e.item)
                                         THEN [pages[n] EXCEPT !.version = e.version]
                                         ELSE pages[n]]
    BY <1>7 DEF PageEvent
  <2>2. \A n \in DOMAIN pages : pages[n] \in Rows
    BY <1>2, ElementOfSeq, LenProperties
  <2>3. DOMAIN pages' = DOMAIN pages /\ \A n \in DOMAIN pages : pages'[n].page = pages[n].page
    BY <2>1, <2>2 DEF Rows
  <2> QED BY <1>1, <2>3, ScreenKept
<1> QED BY <1>4, <1>5, <1>6, <1>7

LEMMA ScreenGroups ==
  ASSUME Base, OrderInv, ScreenInv, NEW r \in handlers, Reads(r), r.kind = "groups",
         GroupsAnswer(r, Head(inbox).data)
  PROVE  ScreenInv'
<1>1. /\ inbox # <<>> /\ inbox' = Tail(inbox) /\ inbox \in Seq(Messages)
      /\ UNCHANGED <<coreVars, shown, groupProfile, pages>> /\ Delivered
  BY DEF Reads, Takes, GroupsAnswer, profileVars, pageVars, Delivered, Base, TypeInv
<1>2. Lists(Head(inbox), "groups") /\ Head(inbox).request = r /\ "groups" \in Whats
  BY DEF Reads, Lists, Whats
<1>3. \A i \in DOMAIN Head(inbox).data : i[1] = r.of
  BY <1>1, <1>2, OrderTail DEF OrderInv
<1>4. ASSUME NEW i \in Items, groups'[i] # Absent
      PROVE  groups[i] # Absent \/ i[1] = groupProfile
  BY <1>3, <1>4 DEF GroupsAnswer
<1> QED BY <1>1, <1>4, ScreenKept

LEMMA ScreenGroupEvent ==
  ASSUME Base, OrderInv, ScreenInv, NEW e \in ItemEvents, Hears(e, {"groups"}), GroupEvent(e)
  PROVE  ScreenInv'
<1>1. UNCHANGED <<coreVars, shown, groupProfile, pages>> /\ Delivered
  BY DEF Hears, Takes, GroupEvent, profileVars, pageVars, Delivered
<1>2. groups \in [Items -> {Absent} \cup Versions]
  BY DEF Base, TypeInv, UiTyped
<1>3. ASSUME NEW i \in Items, groups'[i] # Absent
      PROVE  groups[i] # Absent \/ i[1] = groupProfile
  BY <1>2, <1>3 DEF GroupEvent
<1> QED BY <1>1, <1>3, ScreenKept

LEMMA ScreenUi ==
  ASSUME Base, OrderInv, NewestInv, ScreenInv, UiStep
  PROVE  ScreenInv'
<1>1. Takes => Delivered /\ UNCHANGED coreVars
  BY DEF Takes, Delivered
<1>2. CASE Ignores
  <2>1. Takes /\ UNCHANGED <<shown, pages, groups, groupProfile>>
    BY <1>2 DEF Ignores, uiVars, profileVars, pageVars, groupVars
  <2> QED BY <1>1, <2>1, ScreenKept
<1>3. ASSUME NEW r \in handlers, Reads(r), Selects(r, Head(inbox).data) \/ Concludes(r)
      PROVE  ScreenInv'
  <2>1. Takes /\ UNCHANGED <<shown, pages, groups, groupProfile>>
    BY <1>3 DEF Reads, Selects, Concludes, uiVars, profileVars, pageVars, groupVars
  <2> QED BY <1>1, <2>1, ScreenKept
<1>4. ASSUME NEW r \in handlers, NEW isAnswer \in BOOLEAN, Notices(r, isAnswer),
             Fails(r, isAnswer)
      PROVE  ScreenInv'
  <2>1. UNCHANGED <<coreVars, shown, groups, groupProfile>> /\ Delivered
    BY <1>1, <1>4 DEF Notices, Fails, Delivered, groupVars
  <2>2. pages' = pages \/ pages' = <<>>
    BY <1>4 DEF Fails, Sync, pageVars
  <2> QED BY <2>1, <2>2, ScreenKept
<1>5. ASSUME NEW e \in ProfileEvents, Hears(e, {"profileAdded"}), ProfileAdded(e.profile)
      PROVE  ScreenInv'
  <2>1. Takes /\ UNCHANGED <<shown, pages, groups, groupProfile>>
    BY <1>5 DEF ProfileAdded, Hears, uiVars, profileVars, pageVars, groupVars
  <2> QED BY <1>1, <2>1, ScreenKept
<1>6. ASSUME NEW p \in Profiles, UserSwitches(p)
      PROVE  ScreenInv'
  <2>1. UNCHANGED <<coreVars, shown, pages, groups, groupProfile>> /\ Delivered
    BY <1>6 DEF UserSwitches, Delivered, uiVars, profileVars, pageVars, groupVars
  <2> QED BY <2>1, ScreenKept
<1>7. ASSUME NEW i \in Items, UserEditsPage(i)
      PROVE  ScreenInv'
  <2>1. UNCHANGED <<coreVars, shown, groups, groupProfile>> /\ Delivered
    BY <1>7 DEF UserEditsPage, Delivered, profileVars, groupVars
  <2>2. \/ pages' = [n \in DOMAIN pages |-> IF n \in ShownAt(i)
                                            THEN [page |-> i, version |-> Edited] ELSE pages[n]]
        \/ pages' = pages
    BY <1>7 DEF UserEditsPage
  <2>3. DOMAIN pages' = DOMAIN pages /\ \A n \in DOMAIN pages : pages'[n].page = pages[n].page
    BY <2>2 DEF ShownAt
  <2> QED BY <2>1, <2>3, ScreenKept
<1>8. UiEffect
  BY UiEffects
<1> QED BY <1>2, <1>3, <1>4, <1>5, <1>6, <1>7, <1>8, ScreenProfile, ScreenDeleted, ScreenPages,
           ScreenPageEvent, ScreenGroups, ScreenGroupEvent DEF UiEffect

\* The connection closes, or opens; what is shown stays.
LEMMA ScreenLink ==
  ASSUME Base, OrderInv, NewestInv, ScreenInv, CoreDisconnected \/ CoreConnected
  PROVE  NewestInv' /\ ScreenInv'
<1>1. /\ UNCHANGED <<coreVars, shown, pages, pagesRequest, groups, groupProfile>>
      /\ inbox' = <<>>
  BY DEF CoreDisconnected, CoreConnected, profileVars, pageVars, groupVars, Base, LinkInv
<1>2. ScreenInv'
  <2>1. RowsIn(pages, shown, Existing, inbox) /\ Existing' = Existing
    BY <1>1, ExistingKept DEF ScreenInv
  <2>2. \A i \in Items : ~NewAfter(<<>>, 0, "pages", i)
    BY DEF NewAfter
  <2>3. RowsIn(pages, shown, Existing, <<>>)
    BY <2>1, <2>2, SameRows
  <2> QED BY <1>1, <2>1, <2>3 DEF ScreenInv
<1>3. NewestInv'
  <2>1. ASSUME NEW r \in handlers', r.kind = "pages"
        PROVE  r \in handlers
    <3>1. CASE CoreConnected
      BY <2>1, <3>1, ConnectedLinks
    <3>2. CASE CoreDisconnected
      BY <2>1, <3>2 DEF CoreDisconnected
    <3> QED BY <3>1, <3>2
  <2>2. pagesRequest < nextId'
    <3>1. pagesRequest < nextId /\ pagesRequest \in Nat /\ nextId \in Nat
      BY DEF NewestInv, Base, TypeInv, LinkTyped, UiTyped
    <3>2. nextId' = nextId \/ nextId' = nextId + 1
      BY DEF CoreDisconnected, CoreConnected
    <3> QED BY <3>1, <3>2
  <2>3. deleted' = deleted
    BY <1>1, ExistingKept
  <2>4. \A p \in DOMAIN inbox' : FALSE
    BY <1>1
  <2> QED BY <1>1, <2>1, <2>2, <2>3, <2>4 DEF NewestInv
<1> QED BY <1>2, <1>3

LEMMA ScreenInit == Init => NewestInv /\ ScreenInv
<1> SUFFICES ASSUME Init PROVE NewestInv /\ ScreenInv
  OBVIOUS
<1>1. /\ handlers = {} /\ pagesRequest = 0 /\ nextId = 1 /\ pages = <<>> /\ groups = NoItems
      /\ shown = None
  BY DEF Init
<1>2. NewestInv
  BY <1>1 DEF NewestInv
<1>3. ScreenInv
  BY <1>1, NoRows DEF ScreenInv, NoItems
<1> QED BY <1>2, <1>3

LEMMA ScreenNext ==
  ASSUME Base, OrderInv, NewestInv, ScreenInv, [Next]_vars
  PROVE  NewestInv' /\ ScreenInv'
<1>1. UNCHANGED vars \/ CoreStep \/ UiStep \/ CoreDisconnected \/ CoreConnected
  BY NextCases DEF Base
<1>2. CASE UNCHANGED vars
  <2>1. /\ UNCHANGED <<coreVars, shown, pages, pagesRequest, groups, groupProfile>>
        /\ UNCHANGED <<inbox, handlers, nextId>>
    BY <1>2 DEF vars, uiVars, profileVars, pageVars, groupVars, linkVars
  <2>2. ScreenInv'
    BY <2>1, ScreenKept DEF Delivered
  <2>3. NewestInv'
    BY <2>1, ExistingKept DEF NewestInv
  <2> QED BY <2>2, <2>3
<1>3. CASE CoreStep
  BY <1>3, OrderCore, ScreenCore, NewestCore
<1>4. CASE UiStep
  BY <1>4, ScreenUi, NewestUi
<1> QED BY <1>1, <1>2, <1>3, <1>4, ScreenLink

(***************************************************************************)
(* However switches, reloads, deletions and events overlap, Controller and *)
(* GroupController show the pages and groups of one profile, each once.    *)
(***************************************************************************)
THEOREM OneProfileAtATime == Spec => []OneProfileShown
<1>1. Init => Base /\ OrderInv /\ NewestInv /\ ScreenInv
  BY BaseInit, OrderInit, ScreenInit
<1>2. Base /\ OrderInv /\ NewestInv /\ ScreenInv /\ [Next]_vars
        => (Base /\ OrderInv /\ NewestInv /\ ScreenInv)'
  BY BaseNext, OrderNext, ScreenNext
<1> QED BY <1>1, <1>2, ScreenShows, PTL DEF Spec

-----------------------------------------------------------------------------
(* What the messages on their way say of the core                          *)

Quiet(box, p, w, i) == \A q \in DOMAIN box : q > p => ~Tells(box[q], w, i)

\* The core, which has version t of i now, had i when it sent the message at position p.
Had(box, p, w, i, t) == ~NewAfter(box, p, w, i) /\ (Quiet(box, p, w, i) => t # Absent)

\* The message says whether there is i.
Reports(m, w, i) == Tells(m, w, i) \/ (Lists(m, w) /\ m.request.of = i[1])

\* Each message agrees with the core at its time, and now if none about the same item follows.
ItemAccurate(box, w, i, t) ==
  \A p \in DOMAIN box : Reports(box[p], w, i) =>
    /\ Value(box[p], i) # Absent <=> Had(box, p, w, i, t)
    /\ Quiet(box, p, w, i) => t = Value(box[p], i)

InboxInv ==
  \A w \in Whats, i \in Items : i[1] \notin deleted => ItemAccurate(inbox, w, i, core[w][i])

\* Whether i is there for the UI is what it is in the core, or will be.
Follows(box, w, i, t, there) ==
  /\ Quiet(box, 0, w, i) => (there <=> t # Absent)
  /\ ~Quiet(box, 0, w, i) /\ ~NewAfter(box, 0, w, i) => there

\* The core, which had version t of i and then has next, sends m.
ItemSent(box, m, w, i, t, next) ==
  /\ IF Tells(m, w, i)
     THEN next = Value(m, i) /\ (m.isNew <=> t = Absent)
     ELSE next = t /\ (Lists(m, w) /\ m.request.of = i[1] => next = Value(m, i))
  /\ TellsNew(m, w, i) => \A p \in DOMAIN box : ~Mentions(box[p], w, i)

LEMMA ViewAppend ==
  ASSUME NEW box \in Seq(Messages), NEW m \in Messages, NEW w, NEW i, NEW p \in 0..Len(box)
  PROVE  /\ Quiet(Append(box, m), p, w, i) <=> Quiet(box, p, w, i) /\ ~Tells(m, w, i)
         /\ NewAfter(Append(box, m), p, w, i) <=> NewAfter(box, p, w, i) \/ TellsNew(m, w, i)
<1> DEFINE long == Append(box, m)
           n == Len(box)
<1>1. /\ n \in Nat /\ DOMAIN box = 1..n /\ DOMAIN long = 1..(n + 1)
      /\ \A q \in 1..n : long[q] = box[q] /\ q \in 1..(n + 1)
      /\ long[n + 1] = m /\ n + 1 \in 1..(n + 1) /\ n + 1 > p
      /\ \A q \in 1..(n + 1) : q \in 1..n \/ q = n + 1
  BY Appended
<1> HIDE DEF long, n
<1>2. Quiet(long, p, w, i) <=> Quiet(box, p, w, i) /\ ~Tells(m, w, i)
  BY <1>1 DEF Quiet
<1>3. NewAfter(long, p, w, i) <=> NewAfter(box, p, w, i) \/ TellsNew(m, w, i)
  BY <1>1 DEF NewAfter
<1> QED BY <1>2, <1>3 DEF long

\* After its last message nothing follows.
LEMMA ViewEnd ==
  ASSUME NEW box \in Seq(Messages), NEW w, NEW i
  PROVE  Quiet(box, Len(box), w, i) /\ ~NewAfter(box, Len(box), w, i)
<1>1. Len(box) \in Nat /\ DOMAIN box = 1..Len(box) /\ \A q \in 1..Len(box) : ~(q > Len(box))
  BY LenProperties
<1> QED BY <1>1 DEF Quiet, NewAfter

LEMMA ViewTail ==
  ASSUME NEW box \in Seq(Messages), box # <<>>, NEW w, NEW i, NEW p \in Nat
  PROVE  /\ Quiet(Tail(box), p, w, i) <=> Quiet(box, p + 1, w, i)
         /\ NewAfter(Tail(box), p, w, i) <=> NewAfter(box, p + 1, w, i)
<1> DEFINE rest == Tail(box)
           n == Len(box) - 1
<1>1. /\ n \in Nat /\ DOMAIN box = 1..(n + 1) /\ DOMAIN rest = 1..n
      /\ \A q \in 1..n : rest[q] = box[q + 1] /\ q + 1 \in 1..(n + 1)
      /\ \A q \in 1..n : q > p <=> q + 1 > p + 1
      /\ \A q \in 1..(n + 1) : q > p + 1 => q - 1 \in 1..n /\ q - 1 > p /\ (q - 1) + 1 = q
  BY HeadTyped
<1> HIDE DEF rest, n
<1>2. \A q \in 1..(n + 1) : q > p + 1 => rest[q - 1] = box[q] /\ q - 1 \in DOMAIN rest
  BY <1>1
<1>3. \A q \in 1..n : q > p => rest[q] = box[q + 1] /\ q + 1 \in DOMAIN box /\ q + 1 > p + 1
  BY <1>1
<1>4. Quiet(rest, p, w, i) <=> Quiet(box, p + 1, w, i)
  <2>1. ASSUME Quiet(rest, p, w, i), NEW q \in DOMAIN box, q > p + 1
        PROVE  ~Tells(box[q], w, i)
    BY <1>1, <1>2, <2>1 DEF Quiet
  <2>2. ASSUME Quiet(box, p + 1, w, i), NEW q \in DOMAIN rest, q > p
        PROVE  ~Tells(rest[q], w, i)
    BY <1>1, <1>3, <2>2 DEF Quiet
  <2> QED BY <2>1, <2>2 DEF Quiet
<1>5. NewAfter(rest, p, w, i) <=> NewAfter(box, p + 1, w, i)
  <2>1. ASSUME NEW q \in DOMAIN box, q > p + 1, TellsNew(box[q], w, i)
        PROVE  NewAfter(rest, p, w, i)
    <3>1. rest[q - 1] = box[q] /\ q - 1 \in DOMAIN rest /\ q - 1 > p
      BY <1>1, <1>2, <2>1
    <3> QED BY <2>1, <3>1 DEF NewAfter
  <2>2. ASSUME NEW q \in DOMAIN rest, q > p, TellsNew(rest[q], w, i)
        PROVE  NewAfter(box, p + 1, w, i)
    <3>1. rest[q] = box[q + 1] /\ q + 1 \in DOMAIN box /\ q + 1 > p + 1
      BY <1>1, <1>3, <2>2
    <3> QED BY <2>2, <3>1 DEF NewAfter
  <2> QED BY <2>1, <2>2 DEF NewAfter
<1> QED BY <1>4, <1>5 DEF rest

\* What is to come with the first message, and without it.
LEMMA ViewHead ==
  ASSUME NEW box \in Seq(Messages), box # <<>>, NEW w, NEW i
  PROVE  /\ Quiet(box, 0, w, i) <=> Quiet(Tail(box), 0, w, i) /\ ~Tells(Head(box), w, i)
         /\ NewAfter(box, 0, w, i) <=> NewAfter(Tail(box), 0, w, i) \/ TellsNew(Head(box), w, i)
<1>1. /\ Quiet(Tail(box), 0, w, i) <=> Quiet(box, 1, w, i)
      /\ NewAfter(Tail(box), 0, w, i) <=> NewAfter(box, 1, w, i)
  BY ViewTail
<1>2. /\ 1 \in DOMAIN box /\ Head(box) = box[1] /\ 1 > 0
      /\ \A q \in DOMAIN box : (q > 0 <=> q > 1 \/ q = 1)
  BY HeadTyped
<1>3. Quiet(box, 0, w, i) <=> Quiet(box, 1, w, i) /\ ~Tells(box[1], w, i)
  BY <1>2 DEF Quiet
<1>4. NewAfter(box, 0, w, i) <=> NewAfter(box, 1, w, i) \/ TellsNew(box[1], w, i)
  BY <1>2 DEF NewAfter
<1> QED BY <1>1, <1>2, <1>3, <1>4

LEMMA AccurateAppend ==
  ASSUME NEW box \in Seq(Messages), NEW m \in Messages, NEW w \in Whats, NEW i \in Items,
         NEW t, NEW next, ItemAccurate(box, w, i, t), ItemSent(box, m, w, i, t, next)
  PROVE  ItemAccurate(Append(box, m), w, i, next)
<1> DEFINE long == Append(box, m)
           n == Len(box)
<1>1. /\ n \in Nat /\ DOMAIN box = 1..n /\ DOMAIN long = 1..(n + 1)
      /\ \A q \in 1..n : long[q] = box[q] /\ q \in 0..n
      /\ long[n + 1] = m
      /\ \A q \in 1..(n + 1) : q \in 1..n \/ q = n + 1
  BY Appended
<1>2. ASSUME NEW p \in 1..n
      PROVE  /\ Quiet(long, p, w, i) <=> Quiet(box, p, w, i) /\ ~Tells(m, w, i)
             /\ NewAfter(long, p, w, i) <=> NewAfter(box, p, w, i) \/ TellsNew(m, w, i)
  BY <1>1, ViewAppend
<1>3. Quiet(long, n + 1, w, i) /\ ~NewAfter(long, n + 1, w, i)
  <2>1. long \in Seq(Messages) /\ Len(long) = n + 1
    BY <1>1, AppendProperties
  <2> QED BY <2>1, ViewEnd
<1> HIDE DEF long, n
<1>4. ASSUME NEW p \in 1..n, Reports(long[p], w, i)
      PROVE  /\ Value(long[p], i) # Absent <=> Had(long, p, w, i, next)
             /\ Quiet(long, p, w, i) => next = Value(long[p], i)
  <2>1. /\ Value(box[p], i) # Absent <=> Had(box, p, w, i, t)
        /\ Quiet(box, p, w, i) => t = Value(box[p], i)
    BY <1>1, <1>4 DEF ItemAccurate
  <2>2. CASE ~Tells(m, w, i)
    BY <1>1, <1>2, <2>1, <2>2 DEF ItemSent, Had, TellsNew
  <2>3. CASE Tells(m, w, i) /\ ~TellsNew(m, w, i)
    BY <1>1, <1>2, <2>1, <2>3 DEF ItemSent, Had, TellsNew
  <2>4. CASE TellsNew(m, w, i)
    <3>1. ~Mentions(box[p], w, i)
      BY <1>1, <2>4 DEF ItemSent
    <3>2. Value(box[p], i) = Absent
      BY <1>1, <1>4, <3>1 DEF Mentions, Reports, Value, Lists
    <3> QED BY <1>1, <1>2, <2>4, <3>2 DEF Had, TellsNew
  <2> QED BY <2>2, <2>3, <2>4
<1>5. ASSUME Reports(m, w, i)
      PROVE  /\ Value(m, i) # Absent <=> Had(long, n + 1, w, i, next)
             /\ next = Value(m, i)
  BY <1>3, <1>5 DEF ItemSent, Reports, Had
<1>6. ItemAccurate(long, w, i, next)
  BY <1>1, <1>4, <1>5 DEF ItemAccurate
<1> QED BY <1>6 DEF long

LEMMA AccurateTail ==
  ASSUME NEW box \in Seq(Messages), box # <<>>, NEW w \in Whats, NEW i \in Items, NEW t,
         ItemAccurate(box, w, i, t)
  PROVE  /\ ItemAccurate(Tail(box), w, i, t)
         /\ Reports(Head(box), w, i) =>
              /\ Value(Head(box), i) # Absent <=> Had(Tail(box), 0, w, i, t)
              /\ Quiet(Tail(box), 0, w, i) => t = Value(Head(box), i)
<1> DEFINE rest == Tail(box)
           n == Len(box) - 1
<1>1. /\ n \in Nat /\ DOMAIN box = 1..(n + 1) /\ DOMAIN rest = 1..n
      /\ \A q \in 1..n : rest[q] = box[q + 1] /\ q + 1 \in 1..(n + 1) /\ q \in Nat
      /\ 1 \in 1..(n + 1) /\ Head(box) = box[1]
  BY HeadTyped
<1>2. ASSUME NEW p \in Nat
      PROVE  /\ Quiet(rest, p, w, i) <=> Quiet(box, p + 1, w, i)
             /\ NewAfter(rest, p, w, i) <=> NewAfter(box, p + 1, w, i)
             /\ Had(rest, p, w, i, t) <=> Had(box, p + 1, w, i, t)
  <2>1. /\ Quiet(rest, p, w, i) <=> Quiet(box, p + 1, w, i)
        /\ NewAfter(rest, p, w, i) <=> NewAfter(box, p + 1, w, i)
    BY ViewTail
  <2> HIDE DEF rest
  <2> QED BY <2>1 DEF Had
<1> HIDE DEF rest, n
<1>3. ASSUME NEW p \in 1..n, Reports(rest[p], w, i)
      PROVE  /\ Value(rest[p], i) # Absent <=> Had(rest, p, w, i, t)
             /\ Quiet(rest, p, w, i) => t = Value(rest[p], i)
  <2>1. p \in Nat /\ p + 1 \in DOMAIN box /\ rest[p] = box[p + 1]
    BY <1>1
  <2>2. /\ Quiet(rest, p, w, i) <=> Quiet(box, p + 1, w, i)
        /\ Had(rest, p, w, i, t) <=> Had(box, p + 1, w, i, t)
    BY <1>2, <2>1
  <2> QED BY <1>3, <2>1, <2>2 DEF ItemAccurate
<1>4. ItemAccurate(rest, w, i, t)
  BY <1>1, <1>3 DEF ItemAccurate
<1>5. ASSUME Reports(box[1], w, i)
      PROVE  /\ Value(box[1], i) # Absent <=> Had(rest, 0, w, i, t)
             /\ Quiet(rest, 0, w, i) => t = Value(box[1], i)
  <2>1. /\ Quiet(rest, 0, w, i) <=> Quiet(box, 1, w, i)
        /\ Had(rest, 0, w, i, t) <=> Had(box, 1, w, i, t)
    BY <1>2
  <2> QED BY <1>1, <1>5, <2>1 DEF ItemAccurate
<1> QED BY <1>1, <1>4, <1>5 DEF rest

LEMMA FollowsAppend ==
  ASSUME NEW box \in Seq(Messages), NEW m \in Messages, NEW w \in Whats, NEW i \in Items,
         NEW t, NEW next, NEW there \in BOOLEAN, Follows(box, w, i, t, there),
         ItemSent(box, m, w, i, t, next)
  PROVE  Follows(Append(box, m), w, i, next, there)
<1>1. /\ Quiet(Append(box, m), 0, w, i) <=> Quiet(box, 0, w, i) /\ ~Tells(m, w, i)
      /\ NewAfter(Append(box, m), 0, w, i) <=> NewAfter(box, 0, w, i) \/ TellsNew(m, w, i)
  <2>1. 0 \in 0..Len(box)
    BY LenProperties
  <2> QED BY <2>1, ViewAppend
<1> QED BY <1>1 DEF Follows, ItemSent, TellsNew

\* A message that does not tell of the item.
LEMMA FollowsTail ==
  ASSUME NEW box \in Seq(Messages), box # <<>>, NEW w, NEW i, NEW t, NEW there,
         ~Tells(Head(box), w, i), Follows(box, w, i, t, there)
  PROVE  Follows(Tail(box), w, i, t, there)
  BY ViewHead DEF Follows, TellsNew

\* The UI takes what the message says.
LEMMA FollowsHead ==
  ASSUME NEW box \in Seq(Messages), box # <<>>, NEW w \in Whats, NEW i \in Items, NEW t,
         NEW there \in BOOLEAN, ItemAccurate(box, w, i, t), Reports(Head(box), w, i),
         there <=> Value(Head(box), i) # Absent
  PROVE  Follows(Tail(box), w, i, t, there)
<1>1. Value(Head(box), i) # Absent <=> Had(Tail(box), 0, w, i, t)
  BY AccurateTail
<1>2. Quiet(Tail(box), 0, w, i) => ~NewAfter(Tail(box), 0, w, i)
  BY DEF Quiet, NewAfter, TellsNew
<1> QED BY <1>1, <1>2 DEF Follows, Had

\* What is reported as changed is there already.
LEMMA FollowsChange ==
  ASSUME Base, OrderInv, inbox # <<>>, NEW w \in Whats, NEW i \in Items, NEW t, NEW there,
         Tells(Head(inbox), w, i), ~Head(inbox).isNew, Follows(inbox, w, i, t, there)
  PROVE  there
<1>1. inbox \in Seq(Messages)
  BY DEF Base, TypeInv
<1>2. ~NewAfter(Tail(inbox), 0, w, i)
  BY <1>1, OrderTail DEF OrderInv, Mentions
<1>3. ~Quiet(inbox, 0, w, i) /\ ~NewAfter(inbox, 0, w, i)
  BY <1>1, <1>2, ViewHead DEF TellsNew
<1> QED BY <1>3 DEF Follows

LEMMA SentItem ==
  ASSUME NEW box, NEW m, NEW old, NEW new, NEW before, NEW after, NEW known, NEW gone,
         OrderIn(box, old, known), Fits(m, old, new, before, after), NEW table, NEW next,
         Truthful(m, table, next, gone), NEW w \in Whats, NEW i \in Items, i[1] \notin gone
  PROVE  ItemSent(box, m, w, i, table[w][i], next[w][i])
<1>1. TellsNew(m, w, i) => \A p \in DOMAIN box : ~Mentions(box[p], w, i)
  BY DEF Fits, OrderIn
<1> QED BY <1>1 DEF Truthful, ItemSent

(***************************************************************************)
(* A step of the core keeps each message accurate, and what the UI has of  *)
(* an item right or about to be.                                           *)
(***************************************************************************)
LEMMA ItemCore ==
  ASSUME Base, OrderInv, CoreEffect, NEW w \in Whats, NEW i \in Items, i[1] \notin deleted'
  PROVE  /\ ItemAccurate(inbox, w, i, core[w][i]) => ItemAccurate(inbox', w, i, core'[w][i])
         /\ connected =>
              /\ \A there \in BOOLEAN : Follows(inbox, w, i, core[w][i], there)
                                          => Follows(inbox', w, i, core'[w][i], there)
              /\ Quiet(inbox', 0, w, i) => Quiet(inbox, 0, w, i) /\ core'[w][i] = core[w][i]
<1> DEFINE t == core[w][i]
           next == core'[w][i]
<1>1. inbox \in Seq(Messages) /\ OrderIn(inbox, Existing, deleted)
  BY DEF Base, TypeInv, OrderInv
<1> HIDE DEF t, next
<1>2. CASE ~connected /\ inbox' = inbox
  <2>1. inbox' = <<>>
    BY <1>2 DEF Base, LinkInv
  <2> QED BY <1>2, <2>1 DEF ItemAccurate
<1>3. ASSUME NEW box \in Seq(Messages), NEW m \in Messages, NEW a, NEW b, NEW there \in BOOLEAN,
             ItemSent(box, m, w, i, a, b)
      PROVE  /\ ItemAccurate(box, w, i, a) => ItemAccurate(Append(box, m), w, i, b)
             /\ Follows(box, w, i, a, there) => Follows(Append(box, m), w, i, b, there)
             /\ Quiet(Append(box, m), 0, w, i) => Quiet(box, 0, w, i) /\ b = a
  <2>1. ItemAccurate(box, w, i, a) => ItemAccurate(Append(box, m), w, i, b)
    BY <1>3, AccurateAppend
  <2>2. Follows(box, w, i, a, there) => Follows(Append(box, m), w, i, b, there)
    BY <1>3, FollowsAppend
  <2>3. Quiet(Append(box, m), 0, w, i) => Quiet(box, 0, w, i) /\ ~Tells(m, w, i)
    <3>1. 0 \in 0..Len(box)
      BY LenProperties
    <3> QED BY <3>1, ViewAppend
  <2> QED BY <1>3, <2>1, <2>2, <2>3 DEF ItemSent
<1>4. ASSUME NEW m, Sends(m, Existing, Existing', deleted, deleted'),
             Truthful(m, core, core', deleted'), inbox' = Append(inbox, m), NEW there \in BOOLEAN
      PROVE  /\ ItemAccurate(inbox, w, i, t) => ItemAccurate(inbox', w, i, next)
             /\ Follows(inbox, w, i, t, there) => Follows(inbox', w, i, next, there)
             /\ Quiet(inbox', 0, w, i) => Quiet(inbox, 0, w, i) /\ next = t
  <2>1. ItemSent(inbox, m, w, i, t, next) /\ m \in Messages
    BY <1>1, <1>4, SentItem DEF Sends, t, next
  <2> QED BY <1>1, <1>3, <1>4, <2>1
<1>5. ASSUME NEW e, NEW s, Sends(e, Existing, Existing', deleted, deleted'),
             Truthful(e, core, core', deleted'), Sends(s, Existing', Existing', deleted', deleted'),
             Truthful(s, core', core', deleted'), inbox' = Append(Append(inbox, e), s),
             NEW there \in BOOLEAN
      PROVE  /\ ItemAccurate(inbox, w, i, t) => ItemAccurate(inbox', w, i, next)
             /\ Follows(inbox, w, i, t, there) => Follows(inbox', w, i, next, there)
             /\ Quiet(inbox', 0, w, i) => Quiet(inbox, 0, w, i) /\ next = t
  <2> DEFINE mid == Append(inbox, e)
  <2>1. ItemSent(inbox, e, w, i, t, next) /\ e \in Messages /\ s \in Messages
    BY <1>1, <1>5, SentItem DEF Sends, t, next
  <2>2. mid \in Seq(Messages) /\ OrderIn(mid, Existing', deleted')
    BY <1>1, <1>5, OrderAppend, Appended DEF Sends
  <2>3. /\ ItemAccurate(inbox, w, i, t) => ItemAccurate(mid, w, i, next)
        /\ Follows(inbox, w, i, t, there) => Follows(mid, w, i, next, there)
        /\ Quiet(mid, 0, w, i) => Quiet(inbox, 0, w, i) /\ next = t
    BY <1>1, <1>3, <2>1
  <2> HIDE DEF mid
  <2>4. ItemSent(mid, s, w, i, next, next)
    BY <1>5, <2>2, SentItem DEF Sends, next
  <2>5. inbox' = Append(mid, s)
    BY <1>5 DEF mid
  <2>6. /\ ItemAccurate(mid, w, i, next) => ItemAccurate(Append(mid, s), w, i, next)
        /\ Follows(mid, w, i, next, there) => Follows(Append(mid, s), w, i, next, there)
        /\ Quiet(Append(mid, s), 0, w, i) => Quiet(mid, 0, w, i)
    BY <1>3, <1>5, <2>1, <2>2, <2>4
  <2> QED BY <2>3, <2>5, <2>6
<1>6. ASSUME connected \/ inbox' # inbox, NEW there \in BOOLEAN
      PROVE  /\ ItemAccurate(inbox, w, i, t) => ItemAccurate(inbox', w, i, next)
             /\ Follows(inbox, w, i, t, there) => Follows(inbox', w, i, next, there)
             /\ Quiet(inbox', 0, w, i) => Quiet(inbox, 0, w, i) /\ next = t
  <2>1. ASSUME NEW m, Sends(m, Existing, Existing', deleted, deleted'),
               Truthful(m, core, core', deleted'), inbox' = Append(inbox, m)
        PROVE  /\ ItemAccurate(inbox, w, i, t) => ItemAccurate(inbox', w, i, next)
               /\ Follows(inbox, w, i, t, there) => Follows(inbox', w, i, next, there)
               /\ Quiet(inbox', 0, w, i) => Quiet(inbox, 0, w, i) /\ next = t
    BY <1>4, <2>1
  <2>2. ASSUME NEW e, NEW s, Sends(e, Existing, Existing', deleted, deleted'),
               Truthful(e, core, core', deleted'),
               Sends(s, Existing', Existing', deleted', deleted'),
               Truthful(s, core', core', deleted'), inbox' = Append(Append(inbox, e), s)
        PROVE  /\ ItemAccurate(inbox, w, i, t) => ItemAccurate(inbox', w, i, next)
               /\ Follows(inbox, w, i, t, there) => Follows(inbox', w, i, next, there)
               /\ Quiet(inbox', 0, w, i) => Quiet(inbox, 0, w, i) /\ next = t
    BY <1>5, <2>2
  <2> QED BY <1>6, <2>1, <2>2 DEF CoreEffect
<1> QED BY <1>2, <1>6 DEF t, next

LEMMA InboxCore ==
  ASSUME Base, OrderInv, InboxInv, CoreEffect
  PROVE  InboxInv'
<1>1. ASSUME NEW w \in Whats, NEW i \in Items, i[1] \notin deleted'
      PROVE  ItemAccurate(inbox', w, i, core'[w][i])
  <2>1. i[1] \notin deleted
    BY <1>1 DEF CoreEffect
  <2>2. ItemAccurate(inbox, w, i, core[w][i])
    BY <2>1 DEF InboxInv
  <2> QED BY <1>1, <2>2, ItemCore
<1> QED BY <1>1 DEF InboxInv

LEMMA InboxTaken ==
  ASSUME Base, InboxInv, UNCHANGED coreVars, Delivered \/ inbox' = <<>>
  PROVE  InboxInv'
<1>1. inbox \in Seq(Messages) /\ core' = core /\ deleted' = deleted
  BY ExistingKept DEF Base, TypeInv
<1>2. ASSUME NEW w \in Whats, NEW i \in Items, i[1] \notin deleted
      PROVE  ItemAccurate(inbox', w, i, core[w][i])
  <2>1. ItemAccurate(inbox, w, i, core[w][i])
    BY <1>2 DEF InboxInv
  <2>2. CASE inbox' = <<>>
    BY <2>2 DEF ItemAccurate
  <2>3. CASE inbox # <<>> /\ inbox' = Tail(inbox)
    BY <1>1, <2>1, <2>3, AccurateTail
  <2> QED BY <2>1, <2>2, <2>3 DEF Delivered
<1> QED BY <1>1, <1>2 DEF InboxInv

LEMMA InboxInit == Init => InboxInv
BY DEF Init, InboxInv, ItemAccurate

LEMMA InboxNext ==
  ASSUME Base, OrderInv, InboxInv, [Next]_vars
  PROVE  InboxInv'
<1>1. UNCHANGED vars \/ CoreStep \/ UiStep \/ CoreDisconnected \/ CoreConnected
  BY NextCases DEF Base
<1>2. CASE CoreStep
  BY <1>2, OrderCore, InboxCore
<1>3. CASE UNCHANGED vars
  <2>1. inbox' = inbox /\ UNCHANGED coreVars
    BY <1>3 DEF vars
  <2> QED BY <2>1, InboxTaken DEF Delivered
<1>4. CASE UiStep
  <2>1. PICK settled, new : UiFrame(settled, new)
    BY <1>4, UiFrames
  <2>2. UNCHANGED coreVars /\ Delivered
    BY <2>1 DEF UiFrame, Delivered
  <2> QED BY <2>2, InboxTaken
<1>5. CASE CoreDisconnected
  BY <1>5, InboxTaken DEF CoreDisconnected
<1>6. CASE CoreConnected
  BY <1>6, InboxTaken DEF CoreConnected, Delivered
<1> QED BY <1>1, <1>2, <1>3, <1>4, <1>5, <1>6

-----------------------------------------------------------------------------
(* Requests under way                                                      *)

\* Request r was not answered, or its answer is on its way.
InFlight(r) ==
  r \in requests \/ \E p \in DOMAIN inbox : IsAnswer(inbox[p]) /\ inbox[p].request = r

\* The answer that r was carried out is on its way.
DoneIn(box, r) == \E p \in DOMAIN box : IsAnswer(box[p]) /\ box[p].ok /\ box[p].request = r

\* An edit of page i that is not known to have been carried out.
EditUnderWay(i) ==
  \E r \in handlers : r.kind = "update" /\ r.of = i /\ ~DoneIn(inbox, r)

\* An answer the core sends is to a request it had, and an edit it carried out is told first.
LEMMA AnswersSent ==
  ASSUME Base, CoreStep
  PROVE  /\ requests' \subseteq requests /\ UNCHANGED <<handlers, uiVars>>
         /\ \A p \in DOMAIN inbox' : IsAnswer(inbox'[p]) =>
              \/ p \in DOMAIN inbox /\ inbox'[p] = inbox[p]
              \/ /\ inbox'[p].request \in requests
                 /\ inbox'[p].ok /\ inbox'[p].request.kind = "update" =>
                      ~Quiet(inbox', 0, "pages", inbox'[p].request.of)
<1> DEFINE Sent(box) ==
             \A p \in DOMAIN box : IsAnswer(box[p]) =>
               \/ p \in DOMAIN inbox /\ box[p] = inbox[p]
               \/ /\ box[p].request \in requests
                  /\ box[p].ok /\ box[p].request.kind = "update" =>
                       ~Quiet(box, 0, "pages", box[p].request.of)
<1>1. inbox \in Seq(Messages) /\ Sent(inbox)
  BY DEF Base, TypeInv
<1>2. ASSUME NEW box \in Seq(Messages), NEW m \in Messages,
             Len(box) \in {Len(inbox), Len(inbox) + 1},
             \A q \in DOMAIN inbox : box[q] = inbox[q],
             \A q \in DOMAIN box : q \notin DOMAIN inbox => ~IsAnswer(box[q]),
             IsAnswer(m) =>
               /\ m.request \in requests
               /\ m.ok /\ m.request.kind = "update" => ~Quiet(box, 0, "pages", m.request.of)
      PROVE  Sent(Append(box, m))
  <2> DEFINE long == Append(box, m)
             n == Len(box)
  <2>1. /\ n \in Nat /\ DOMAIN box = 1..n /\ DOMAIN long = 1..(n + 1)
        /\ \A q \in 1..n : long[q] = box[q]
        /\ long[n + 1] = m
        /\ \A q \in 1..(n + 1) : q \in 1..n \/ q = n + 1
    BY <1>2, Appended
  <2>2. \A i : ~Quiet(box, 0, "pages", i) => ~Quiet(long, 0, "pages", i)
    <3>1. 0 \in 0..Len(box)
      BY <2>1
    <3> QED BY <3>1, ViewAppend
  <2> HIDE DEF long, n
  <2>3. ASSUME NEW p \in DOMAIN long, IsAnswer(long[p])
        PROVE  \/ p \in DOMAIN inbox /\ long[p] = inbox[p]
               \/ /\ long[p].request \in requests
                  /\ long[p].ok /\ long[p].request.kind = "update" =>
                       ~Quiet(long, 0, "pages", long[p].request.of)
    <3>1. CASE p \in 1..n
      <4>1. long[p] = box[p] /\ p \in DOMAIN box
        BY <2>1, <3>1
      <4>2. p \in DOMAIN inbox
        BY <1>2, <2>3, <4>1
      <4> QED BY <1>2, <4>1, <4>2
    <3>2. CASE p = n + 1
      BY <1>2, <2>1, <2>2, <2>3, <3>2
    <3> QED BY <2>1, <3>1, <3>2
  <2>4. Sent(long)
    BY <2>3
  <2> QED BY <2>4 DEF long
<1>3. ASSUME NEW m \in Messages,
             IsAnswer(m) => m.request \in requests /\ (m.ok => m.request.kind # "update")
      PROVE  Sent(Append(inbox, m))
  <2> HIDE DEF Sent
  <2> QED BY <1>1, <1>2, <1>3
<1> HIDE DEF Sent
<1>4. ASSUME NEW m \in Messages, ~IsAnswer(m), inbox' = Reported(m),
             UNCHANGED <<linkVars, uiVars>>
      PROVE  /\ Sent(inbox') /\ requests' \subseteq requests
             /\ UNCHANGED <<handlers, uiVars>>
  <2>1. inbox' = inbox \/ inbox' = Append(inbox, m)
    BY <1>4 DEF Reported
  <2> QED BY <1>1, <1>3, <1>4, <2>1 DEF linkVars
<1>5. ASSUME NEW w \in Whats, NEW i \in Items, CoreSetsItem(w, i)
      PROVE  Sent(inbox') /\ requests' \subseteq requests /\ UNCHANGED <<handlers, uiVars>>
  <2>1. PICK v \in {Absent} \cup Versions :
          /\ inbox' = Reported(ItemEvent(w, i, v, core[w][i] = Absent))
          /\ UNCHANGED <<linkVars, uiVars>>
    BY <1>5, SetsItemFacts
  <2> DEFINE m == ItemEvent(w, i, v, core[w][i] = Absent)
  <2>2. m \in Messages /\ ~IsAnswer(m)
    BY DEF Messages, ItemEvents, ItemEvent, IsAnswer, Whats
  <2> HIDE DEF m
  <2>3. inbox' = Reported(m)
    BY <2>1 DEF m
  <2> QED BY <1>4, <2>1, <2>2, <2>3
<1>6. ASSUME NEW p \in Profiles, CoreAddsProfile(p)
      PROVE  Sent(inbox') /\ requests' \subseteq requests /\ UNCHANGED <<handlers, uiVars>>
  <2> DEFINE m == ProfileEvent("profileAdded", p)
  <2>1. inbox' = Reported(m) /\ UNCHANGED <<linkVars, uiVars>>
    BY <1>6 DEF CoreAddsProfile, ProfileEvent
  <2>2. m \in Messages /\ ~IsAnswer(m)
    BY DEF Messages, ProfileEvents, ProfileEvent, IsAnswer
  <2> HIDE DEF m
  <2> QED BY <1>4, <2>1, <2>2
<1>7. ASSUME NEW p \in Profiles, CoreDeletesProfile(p)
      PROVE  Sent(inbox') /\ requests' \subseteq requests /\ UNCHANGED <<handlers, uiVars>>
  <2> DEFINE m == ProfileEvent("profileDeleted", p)
  <2>1. inbox' = Reported(m) /\ UNCHANGED <<linkVars, uiVars>>
    BY <1>7 DEF CoreDeletesProfile, ProfileEvent
  <2>2. m \in Messages /\ ~IsAnswer(m)
    BY DEF Messages, ProfileEvents, ProfileEvent, IsAnswer
  <2> HIDE DEF m
  <2> QED BY <1>4, <2>1, <2>2
<1>8. ASSUME NEW r \in requests, CoreAnswers(r)
      PROVE  Sent(inbox') /\ requests' \subseteq requests /\ UNCHANGED <<handlers, uiVars>>
  <2> DEFINE s == Success(r)
             e == ItemEvent("pages", r.of, version + 1, FALSE)
  <2>1. /\ requests' = requests \ {r} /\ UNCHANGED <<handlers, uiVars>>
        /\ r.kind = "update" =>
             /\ r.of \in Items /\ version' = version + 1 /\ version' \in Versions
             /\ inbox' = Append(Append(inbox, e), s)
        /\ r.kind # "update" => inbox' = Append(inbox, s)
    BY <1>8, CoreAnswersFacts
  <2>2. s \in Messages /\ s.request = r
    BY AnswersTyped
  <2>3. r.kind = "update" => e \in Messages /\ ~IsAnswer(e) /\ Tells(e, "pages", r.of)
    BY <2>1 DEF Messages, ItemEvents, ItemEvent, IsAnswer, Whats, Tells
  <2> HIDE DEF s, e
  <2>4. CASE r.kind # "update"
    BY <1>3, <2>1, <2>2, <2>4
  <2>5. CASE r.kind = "update"
    <3> DEFINE mid == Append(inbox, e)
               n == Len(inbox)
    <3>1. /\ n \in Nat /\ DOMAIN inbox = 1..n /\ DOMAIN mid = 1..(n + 1) /\ Len(mid) = n + 1
          /\ \A q \in 1..n : mid[q] = inbox[q]
          /\ mid[n + 1] = e /\ mid \in Seq(Messages)
          /\ \A q \in 1..(n + 1) : q \in 1..n \/ q = n + 1
      BY <1>1, <2>3, <2>5, Appended
    <3>2. ~Quiet(mid, 0, "pages", r.of)
      <4>1. 0 \in 0..Len(inbox)
        BY <3>1
      <4> QED BY <1>1, <2>3, <2>5, <4>1, ViewAppend
    <3> HIDE DEF mid
    <3>3. \A q \in DOMAIN mid : q \notin DOMAIN inbox => ~IsAnswer(mid[q])
      BY <2>3, <2>5, <3>1
    <3>4. Sent(Append(mid, s))
      BY <1>2, <2>2, <3>1, <3>2, <3>3
    <3> QED BY <2>1, <2>5, <3>4 DEF mid
  <2> QED BY <2>4, <2>5
<1>9. ASSUME NEW r \in requests, CoreRefuses(r)
      PROVE  Sent(inbox') /\ requests' \subseteq requests /\ UNCHANGED <<handlers, uiVars>>
  <2> DEFINE f == Failure(r)
  <2>1. inbox' = Append(inbox, f) /\ requests' = requests \ {r} /\ UNCHANGED <<handlers, uiVars>>
    BY <1>9 DEF CoreRefuses
  <2>2. f \in Messages /\ ~f.ok /\ f.request = r
    BY AnswersTyped
  <2> HIDE DEF f
  <2> QED BY <1>3, <2>1, <2>2
<1>10. Sent(inbox') /\ requests' \subseteq requests /\ UNCHANGED <<handlers, uiVars>>
  BY <1>5, <1>6, <1>7, <1>8, <1>9 DEF CoreStep
<1> QED BY <1>10 DEF Sent

LEMMA FlightCore ==
  ASSUME Base, CoreStep
  PROVE  /\ \A r : InFlight(r)' => InFlight(r)
         /\ \A i \in Items : EditUnderWay(i) /\ Quiet(inbox', 0, "pages", i) => EditUnderWay(i)'
<1>1. ASSUME NEW r, InFlight(r)'
      PROVE  InFlight(r)
  BY <1>1, AnswersSent DEF InFlight
<1>2. ASSUME NEW i \in Items, EditUnderWay(i), Quiet(inbox', 0, "pages", i)
      PROVE  EditUnderWay(i)'
  <2>1. PICK r \in handlers : r.kind = "update" /\ r.of = i /\ ~DoneIn(inbox, r)
    BY <1>2 DEF EditUnderWay
  <2>2. ~DoneIn(inbox', r)
    BY <1>2, <2>1, AnswersSent DEF DoneIn
  <2>3. handlers' = handlers
    BY AnswersSent
  <2> QED BY <2>1, <2>2, <2>3 DEF EditUnderWay
<1> QED BY <1>1, <1>2

\* A step of the UI brings no answers.
LEMMA FlightTaken ==
  ASSUME Base, Delivered, NEW settled, NEW new, Links(settled, new)
  PROVE  /\ \A r : InFlight(r)' => InFlight(r) \/ r \in new
         /\ \A r : DoneIn(inbox', r) => DoneIn(inbox, r)
<1>1. inbox \in Seq(Messages)
  BY DEF Base, TypeInv
<1>2. ASSUME NEW p \in DOMAIN inbox'
      PROVE  \E q \in DOMAIN inbox : inbox'[p] = inbox[q]
  <2>1. CASE inbox' = inbox
    BY <2>1
  <2>2. CASE inbox # <<>> /\ inbox' = Tail(inbox)
    <3>1. p + 1 \in DOMAIN inbox /\ Tail(inbox)[p] = inbox[p + 1]
      BY <1>1, <2>2, HeadTyped
    <3> QED BY <2>2, <3>1
  <2> QED BY <2>1, <2>2 DEF Delivered
<1>3. \A r : InFlight(r)' => InFlight(r) \/ r \in new
  BY <1>2 DEF InFlight, Links
<1>4. \A r : DoneIn(inbox', r) => DoneIn(inbox, r)
  BY <1>2 DEF DoneIn
<1> QED BY <1>3, <1>4

\* An edit that is under way still is after another request was settled.
LEMMA EditsKept ==
  ASSUME Base, Delivered, NEW settled, NEW new, Links(settled, new), NEW i, EditUnderWay(i),
         \A r \in settled : r.kind = "update" => DoneIn(inbox, r)
  PROVE  EditUnderWay(i)'
<1>1. PICK r \in handlers : r.kind = "update" /\ r.of = i /\ ~DoneIn(inbox, r)
  BY DEF EditUnderWay
<1>2. r \in handlers' /\ ~DoneIn(inbox', r)
  BY <1>1, FlightTaken DEF Links
<1> QED BY <1>1, <1>2 DEF EditUnderWay

-----------------------------------------------------------------------------
(* The groups                                                              *)

GroupsUnderWay == \E r \in Request : InFlight(r) /\ r.kind = "groups" /\ r.id = groupsRequest

(***************************************************************************)
(* Groups arrive one by one.  While the answer is under way, those that    *)
(* are there already are up to date or will be; after it, all are.         *)
(***************************************************************************)
GroupRight(i) ==
  /\ "groups" \in loaded => Follows(inbox, "groups", i, core.groups[i], groups[i] # Absent)
  /\ "groups" \in loaded \/ GroupsUnderWay =>
       (Quiet(inbox, 0, "groups", i) /\ groups[i] # Absent => groups[i] = core.groups[i])

GroupsInv ==
  /\ \A r \in handlers : r.kind = "groups" /\ r.id = groupsRequest => r.of = groupProfile
  /\ groupsRequest < nextId
  /\ \A i \in Items : i[1] = groupProfile /\ i[1] \notin deleted => GroupRight(i)

LEMMA GroupsCore ==
  ASSUME Base, OrderInv, GroupsInv, CoreStep, CoreEffect
  PROVE  GroupsInv'
<1>1. /\ UNCHANGED <<handlers, nextId, loaded, connected, groups, groupProfile, groupsRequest>>
      /\ deleted \subseteq deleted' /\ "groups" \in Whats /\ connected \in BOOLEAN
  BY DEF CoreEffect, uiVars, groupVars, Whats, Base, TypeInv, BoundTyped
<1>2. ASSUME NEW i \in Items, i[1] = groupProfile, i[1] \notin deleted'
      PROVE  GroupRight(i)'
  <2>1. GroupRight(i)
    BY <1>1, <1>2 DEF GroupsInv
  <2>2. CASE connected
    <3>1. (groups[i] # Absent) \in BOOLEAN
      OBVIOUS
    <3>2. Follows(inbox, "groups", i, core.groups[i], groups[i] # Absent)
            => Follows(inbox', "groups", i, core'.groups[i], groups[i] # Absent)
      BY <1>1, <1>2, <2>2, <3>1, ItemCore DEF Whats
    <3>3. Quiet(inbox', 0, "groups", i)
            => Quiet(inbox, 0, "groups", i) /\ core'.groups[i] = core.groups[i]
      BY <1>1, <1>2, <2>2, ItemCore
    <3>4. GroupsUnderWay' => GroupsUnderWay
      BY <1>1, FlightCore DEF GroupsUnderWay
    <3> QED BY <1>1, <2>1, <3>2, <3>3, <3>4 DEF GroupRight
  <2>3. CASE ~connected
    <3>1. loaded = {} /\ ~GroupsUnderWay
      BY <2>3 DEF Base, LinkInv, GroupsUnderWay, InFlight
    <3>2. ~GroupsUnderWay'
      BY <1>1, <3>1, FlightCore DEF GroupsUnderWay
    <3> QED BY <1>1, <3>1, <3>2 DEF GroupRight
  <2> QED BY <2>2, <2>3
<1> QED BY <1>1, <1>2 DEF GroupsInv

\* No request sent by a step is the newest one for groups, unless it says so.
LEMMA GroupsLinks ==
  ASSUME Base, GroupsInv, UNCHANGED <<groupProfile, groupsRequest>>, Delivered,
         NEW settled, NEW new, Links(settled, new)
  PROVE  /\ \A r \in handlers' :
              r.kind = "groups" /\ r.id = groupsRequest => r.of = groupProfile
         /\ groupsRequest < nextId'
         /\ GroupsUnderWay' => GroupsUnderWay
<1>1. nextId \in Nat /\ groupsRequest \in Nat /\ groupsRequest < nextId
  BY DEF Base, TypeInv, LinkTyped, UiTyped, GroupsInv
<1>2. /\ \A r \in new : r.id \in Nat /\ r.id >= nextId
      /\ nextId' \in Nat /\ nextId' >= nextId
      /\ handlers' = (handlers \ settled) \cup new
  BY DEF Links, Request
<1>3. \A r \in new : r.id # groupsRequest
  BY <1>1, <1>2
<1>4. GroupsUnderWay' => GroupsUnderWay
  BY <1>3, FlightTaken DEF GroupsUnderWay
<1>5. groupsRequest < nextId'
  BY <1>1, <1>2
<1> QED BY <1>2, <1>3, <1>4, <1>5 DEF GroupsInv

LEMMA GroupsKept ==
  ASSUME Base, GroupsInv, UNCHANGED <<coreVars, groups, groupProfile, groupsRequest>>, Delivered,
         inbox' = inbox \/ Head(inbox).type # "groups",
         "groups" \in loaded' => "groups" \in loaded,
         NEW settled, NEW new, Links(settled, new)
  PROVE  GroupsInv'
<1>1. inbox \in Seq(Messages) /\ core' = core /\ deleted' = deleted
  BY ExistingKept DEF Base, TypeInv
<1>2. ASSUME NEW i \in Items, i[1] = groupProfile, i[1] \notin deleted
      PROVE  GroupRight(i)'
  <2>1. GroupRight(i) /\ (GroupsUnderWay' => GroupsUnderWay)
    BY <1>2, GroupsLinks DEF GroupsInv
  <2>2. CASE inbox' = inbox
    BY <1>1, <2>1, <2>2 DEF GroupRight
  <2>3. CASE inbox # <<>> /\ inbox' = Tail(inbox) /\ Head(inbox).type # "groups"
    <3>1. ~Tells(Head(inbox), "groups", i)
      BY <2>3 DEF Tells
    <3>2. Quiet(Tail(inbox), 0, "groups", i) => Quiet(inbox, 0, "groups", i)
      BY <1>1, <2>3, <3>1, ViewHead
    <3>3. Follows(inbox, "groups", i, core.groups[i], groups[i] # Absent)
            => Follows(Tail(inbox), "groups", i, core.groups[i], groups[i] # Absent)
      BY <1>1, <2>3, <3>1, FollowsTail
    <3> QED BY <1>1, <2>1, <2>3, <3>2, <3>3 DEF GroupRight
  <2> QED BY <2>2, <2>3 DEF Delivered
<1>3. /\ \A r \in handlers' : r.kind = "groups" /\ r.id = groupsRequest => r.of = groupProfile
      /\ groupsRequest < nextId'
  BY GroupsLinks
<1> QED BY <1>1, <1>2, <1>3 DEF GroupsInv

LEMMA GroupsProfile ==
  ASSUME Base, NEW r \in handlers, Reads(r), ProfileAnswer(r, r.of),
         Links({r}, Sent2("groups", r.of, "pages", r.of))
  PROVE  GroupsInv'
<1>1. connected
  BY ReadsFacts
<1>2. /\ groupsRequest' = nextId /\ groupProfile' = r.of /\ loaded' = {} /\ groups' = NoItems
  BY <1>1, SentIds DEF ProfileAnswer
<1>3. \A s \in handlers : s.id \in Nat \ {0} /\ s.id < nextId
  BY SentIds
<1> DEFINE c == Call(nextId, "groups", r.of)
           d == Call(nextId + 1, "pages", r.of)
<1>4. c.id = nextId /\ d.id = nextId + 1 /\ c.of = r.of
      /\ Sent2("groups", r.of, "pages", r.of) = {c, d}
  BY <1>1 DEF Call, Sent2
<1> HIDE DEF c, d
<1>5. handlers' = (handlers \ {r}) \cup {c, d} /\ nextId < nextId'
  BY <1>4 DEF Links
<1>6. \A s \in handlers' : s.id = nextId => s.of = r.of
  BY <1>3, <1>4, <1>5, SentIds
<1>7. \A i \in Items : GroupRight(i)'
  BY <1>2 DEF GroupRight, NoItems
<1> QED BY <1>2, <1>5, <1>6, <1>7 DEF GroupsInv

LEMMA GroupsLoad ==
  ASSUME Base, OrderInv, InboxInv, GroupsInv, NEW r \in handlers, Reads(r), r.kind = "groups",
         GroupsAnswer(r, Head(inbox).data), Links({r}, {})
  PROVE  GroupsInv'
<1>1. /\ inbox # <<>> /\ inbox' = Tail(inbox) /\ inbox \in Seq(Messages) /\ UNCHANGED coreVars
      /\ UNCHANGED <<groupProfile, groupsRequest>> /\ Delivered /\ IsAnswer(Head(inbox))
      /\ Head(inbox).type # "groups" /\ core' = core /\ deleted' = deleted
  BY ExistingKept DEF Reads, Takes, GroupsAnswer, Delivered, Base, TypeInv, IsAnswer
<1>2. CASE ~IsNewest(r, groupsRequest)
  <2>1. UNCHANGED <<groups, loaded>>
    BY <1>2 DEF GroupsAnswer
  <2> QED BY <1>1, <2>1, GroupsKept
<1>3. CASE IsNewest(r, groupsRequest)
  <2> DEFINE content == Head(inbox).data
  <2>1. /\ content \in Contents /\ r \in Request /\ Head(inbox) = inbox[1] /\ 1 \in DOMAIN inbox
    BY <1>1, ReadsFacts, TakesFacts DEF Whats, Reads
  <2>2. r.of = groupProfile
    BY <1>3 DEF GroupsInv, IsNewest
  <2>3. groups' = [i \in Items |-> IF i \in DOMAIN content THEN content[i] ELSE groups[i]]
    BY <1>3, <2>2 DEF GroupsAnswer
  <2>4. GroupsUnderWay
    <3>1. InFlight(r)
      BY <2>1, <1>1 DEF InFlight, Reads
    <3> QED BY <1>3, <2>1, <3>1 DEF GroupsUnderWay, IsNewest
  <2>5. \A i \in DOMAIN content : content[i] # Absent
    BY <2>1 DEF Contents, Versions, Absent
  <2>6. ASSUME NEW i \in Items, i[1] = groupProfile, i[1] \notin deleted
        PROVE  GroupRight(i)'
    <3> DEFINE t == core.groups[i]
               said == Value(Head(inbox), i)
    <3>1. /\ Reports(Head(inbox), "groups", i) /\ ~Tells(Head(inbox), "groups", i)
          /\ "groups" \in Whats
      BY <1>1, <2>2, <2>6 DEF Reports, Lists, Reads, Tells, Whats
    <3>2. ItemAccurate(inbox, "groups", i, t)
      BY <2>6, <3>1 DEF InboxInv
    <3>3. said = IF i \in DOMAIN content THEN content[i] ELSE Absent
      BY <1>1 DEF Value
    <3>4. /\ said # Absent <=> Had(Tail(inbox), 0, "groups", i, t)
          /\ Quiet(Tail(inbox), 0, "groups", i) => t = said
      BY <1>1, <3>1, <3>2, AccurateTail
    <3>5. /\ Quiet(inbox, 0, "groups", i) <=> Quiet(Tail(inbox), 0, "groups", i)
      BY <1>1, <3>1, ViewHead
    <3>6. Quiet(inbox, 0, "groups", i) /\ groups[i] # Absent => groups[i] = t
      BY <2>4, <2>6 DEF GroupsInv, GroupRight
    <3>7. groups'[i] = IF i \in DOMAIN content THEN content[i] ELSE groups[i]
      BY <2>3
    <3> HIDE DEF t, said, content
    <3>8. Quiet(Tail(inbox), 0, "groups", i) => groups'[i] = t
      BY <2>5, <3>3, <3>4, <3>5, <3>6, <3>7
    <3>9. ~Quiet(Tail(inbox), 0, "groups", i) /\ ~NewAfter(Tail(inbox), 0, "groups", i)
            => groups'[i] # Absent
      BY <2>5, <3>3, <3>4, <3>7 DEF Had
    <3>10. Follows(Tail(inbox), "groups", i, t, groups'[i] # Absent)
      BY <3>8, <3>9 DEF Follows
    <3> QED BY <1>1, <3>8, <3>10 DEF GroupRight, t
  <2>7. /\ \A s \in handlers' : s.kind = "groups" /\ s.id = groupsRequest => s.of = groupProfile
        /\ groupsRequest < nextId'
    BY <1>1, GroupsLinks
  <2> QED BY <1>1, <2>6, <2>7 DEF GroupsInv
<1> QED BY <1>2, <1>3

LEMMA GroupsEvent ==
  ASSUME Base, OrderInv, InboxInv, GroupsInv, NEW e \in ItemEvents, Hears(e, {"groups"}),
         GroupEvent(e), Links({}, {})
  PROVE  GroupsInv'
<1>1. /\ inbox # <<>> /\ inbox' = Tail(inbox) /\ inbox \in Seq(Messages) /\ UNCHANGED coreVars
      /\ UNCHANGED <<groupProfile, groupsRequest, loaded>> /\ Delivered
      /\ e = Head(inbox) /\ e.type = "groups" /\ e.item \in Items /\ e.isNew \in BOOLEAN
      /\ core' = core /\ deleted' = deleted /\ "groups" \in Whats
  BY ExistingKept DEF Hears, Takes, GroupEvent, Delivered, Base, TypeInv, ItemEvents, Whats
<1>2. groups \in [Items -> {Absent} \cup Versions]
  BY DEF Base, TypeInv, UiTyped
<1>3. /\ \A r \in handlers' : r.kind = "groups" /\ r.id = groupsRequest => r.of = groupProfile
      /\ groupsRequest < nextId' /\ (GroupsUnderWay' => GroupsUnderWay)
  BY <1>1, GroupsLinks
<1>4. ASSUME NEW i \in Items, i[1] = groupProfile, i[1] \notin deleted
      PROVE  GroupRight(i)'
  <2> DEFINE t == core.groups[i]
  <2>1. GroupRight(i) /\ ItemAccurate(inbox, "groups", i, t)
    BY <1>1, <1>4 DEF GroupsInv, InboxInv
  <2>2. CASE i # e.item
    <3>1. groups'[i] = groups[i]
      BY <1>2, <2>2 DEF GroupEvent
    <3>2. ~Tells(Head(inbox), "groups", i)
      BY <1>1, <2>2 DEF Tells
    <3>3. Quiet(Tail(inbox), 0, "groups", i) => Quiet(inbox, 0, "groups", i)
      BY <1>1, <3>2, ViewHead
    <3>4. Follows(inbox, "groups", i, t, groups[i] # Absent)
            => Follows(Tail(inbox), "groups", i, t, groups[i] # Absent)
      BY <1>1, <3>2, FollowsTail
    <3> QED BY <1>1, <1>3, <2>1, <3>1, <3>3, <3>4 DEF GroupRight
  <2>3. CASE i = e.item
    <3>1. /\ Tells(Head(inbox), "groups", i) /\ Reports(Head(inbox), "groups", i)
          /\ Value(Head(inbox), i) = e.version
      BY <1>1, <2>3 DEF Tells, Reports, Value, IsAnswer
    <3>2. Quiet(Tail(inbox), 0, "groups", i) => t = e.version
      BY <1>1, <2>1, <3>1, AccurateTail
    <3>3. CASE groups[i] = Absent /\ ~e.isNew
      <4>1. groups'[i] = Absent
        BY <2>3, <3>3 DEF GroupEvent
      <4>2. ~Follows(inbox, "groups", i, t, groups[i] # Absent)
        BY <1>1, <3>1, <3>3, FollowsChange
      <4>3. "groups" \notin loaded
        BY <2>1, <4>2 DEF GroupRight
      <4> QED BY <1>1, <4>1, <4>3 DEF GroupRight
    <3>4. CASE ~(groups[i] = Absent /\ ~e.isNew)
      <4>1. groups'[i] = e.version
        BY <1>2, <1>4, <2>3, <3>4 DEF GroupEvent
      <4>2. Follows(Tail(inbox), "groups", i, t, e.version # Absent)
        <5>1. (e.version # Absent) \in BOOLEAN
          OBVIOUS
        <5> QED BY <1>1, <2>1, <3>1, <5>1, FollowsHead
      <4> QED BY <1>1, <3>2, <4>1, <4>2 DEF GroupRight
    <3> QED BY <3>3, <3>4
  <2> QED BY <2>2, <2>3
<1> QED BY <1>1, <1>3, <1>4 DEF GroupsInv

LEMMA GroupsUi ==
  ASSUME Base, OrderInv, InboxInv, GroupsInv, UiStep
  PROVE  GroupsInv'
<1>1. Takes => Delivered /\ UNCHANGED coreVars
  BY DEF Takes, Delivered
<1>2. CASE Ignores /\ Links({}, {})
  <2>1. /\ Takes /\ UNCHANGED <<groups, groupProfile, groupsRequest, loaded>>
        /\ Head(inbox).type # "groups"
    BY <1>2 DEF Ignores, uiVars, groupVars, IsAnswer
  <2> QED BY <1>1, <1>2, <2>1, GroupsKept
<1>3. ASSUME NEW r \in handlers, Reads(r),
             \/ r.kind \in {"active", "switch"} /\ Selects(r, Head(inbox).data)
             \/ r.kind \in {"switch", "update"} /\ Concludes(r)
             \/ r.kind = "pages" /\ PagesAnswer(r, Head(inbox).data) /\ Links({r}, {})
      PROVE  GroupsInv'
  <2>1. Takes /\ Head(inbox).type # "groups"
    BY <1>3 DEF Reads, IsAnswer
  <2>2. UNCHANGED <<groups, groupProfile, groupsRequest>>
    BY <1>3 DEF Selects, Concludes, PagesAnswer, uiVars, groupVars
  <2>3. "groups" \in loaded' => "groups" \in loaded
    BY <1>3 DEF Selects, Concludes, PagesAnswer, uiVars
  <2>4. \E new : Links({r}, new)
    BY <1>3 DEF Selects, Concludes
  <2> QED BY <1>1, <2>1, <2>2, <2>3, <2>4, GroupsKept
<1>4. ASSUME NEW r \in handlers, NEW isAnswer \in BOOLEAN, Notices(r, isAnswer),
             Fails(r, isAnswer), Links({r}, IF Reloads(r) THEN Sent1("pages", shown) ELSE {})
      PROVE  GroupsInv'
  <2>1. /\ UNCHANGED coreVars /\ Delivered /\ UNCHANGED <<groups, groupProfile, groupsRequest>>
        /\ inbox' = inbox \/ Head(inbox).type # "groups"
    BY <1>1, <1>4 DEF Notices, Fails, Delivered, IsAnswer, groupVars
  <2>2. "groups" \in loaded' => "groups" \in loaded
    BY <1>4 DEF Fails, Sync
  <2> QED BY <1>4, <2>1, <2>2, GroupsKept
<1>5. ASSUME NEW e \in ItemEvents, Links({}, {}), Hears(e, {"pages"}), PageEvent(e)
      PROVE  GroupsInv'
  <2>1. /\ Takes /\ UNCHANGED <<groups, groupProfile, groupsRequest, loaded>>
        /\ Head(inbox).type # "groups"
    BY <1>5 DEF PageEvent, Hears, groupVars
  <2> QED BY <1>1, <1>5, <2>1, GroupsKept
<1>6. ASSUME NEW e \in ProfileEvents,
             \/ /\ Hears(e, {"profileAdded"}) /\ ProfileAdded(e.profile)
                /\ Links({}, Sent1("switch", e.profile))
             \/ Hears(e, {"profileDeleted"}) /\ ProfileDeleted(e.profile) /\ Links({}, {})
      PROVE  GroupsInv'
  <2>1. /\ Takes /\ UNCHANGED <<groups, groupProfile, groupsRequest>>
        /\ Head(inbox).type # "groups" /\ ("groups" \in loaded' => "groups" \in loaded)
    BY <1>6 DEF ProfileAdded, ProfileDeleted, Hears, uiVars, groupVars
  <2>2. \E new : Links({}, new)
    BY <1>6
  <2> QED BY <1>1, <2>1, <2>2, GroupsKept
<1>7. ASSUME NEW p \in Profiles, UserSwitches(p), Links({}, Sent1("switch", p))
      PROVE  GroupsInv'
  <2>1. UNCHANGED <<coreVars, groups, groupProfile, groupsRequest, loaded>> /\ inbox' = inbox
    BY <1>7 DEF UserSwitches, uiVars, groupVars
  <2> QED BY <1>7, <2>1, GroupsKept DEF Delivered
<1>8. ASSUME NEW i \in Items, UserEditsPage(i), Links({}, Sent1("update", i))
      PROVE  GroupsInv'
  <2>1. UNCHANGED <<coreVars, groups, groupProfile, groupsRequest, loaded>> /\ inbox' = inbox
    BY <1>8 DEF UserEditsPage, groupVars
  <2> QED BY <1>8, <2>1, GroupsKept DEF Delivered
<1>9. UiEffect
  BY UiEffects
<1>10. ASSUME NEW r \in handlers, Reads(r), ProfileAnswer(r, r.of),
              Links({r}, Sent2("groups", r.of, "pages", r.of))
       PROVE  GroupsInv'
  BY <1>10, GroupsProfile
<1>11. ASSUME NEW r \in handlers, Reads(r), r.kind = "groups",
              GroupsAnswer(r, Head(inbox).data), Links({r}, {})
       PROVE  GroupsInv'
  BY <1>11, GroupsLoad
<1>12. ASSUME NEW e \in ItemEvents, Links({}, {}), Hears(e, {"groups"}), GroupEvent(e)
       PROVE  GroupsInv'
  BY <1>12, GroupsEvent
<1> QED BY <1>2, <1>3, <1>4, <1>5, <1>6, <1>7, <1>8, <1>9, <1>10, <1>11, <1>12 DEF UiEffect

LEMMA GroupsInit == Init => GroupsInv
<1> SUFFICES ASSUME Init PROVE GroupsInv
  OBVIOUS
<1>1. /\ handlers = {} /\ groupsRequest = 0 /\ nextId = 1 /\ loaded = {} /\ groups = NoItems
  BY DEF Init
<1>2. \A i \in Items : GroupRight(i)
  BY <1>1 DEF GroupRight, NoItems
<1> QED BY <1>1, <1>2 DEF GroupsInv

\* The connection closes, or opens: no answer with groups is under way.
LEMMA GroupsLink ==
  ASSUME Base, GroupsInv, CoreDisconnected \/ CoreConnected
  PROVE  GroupsInv'
<1>1. /\ UNCHANGED <<groups, groupProfile, groupsRequest>> /\ inbox' = <<>> /\ loaded' = {}
  BY DEF CoreDisconnected, CoreConnected, groupVars, Base, LinkInv
<1>2. \A r \in handlers' : r.kind = "groups" => r \in handlers
  <2>1. CASE CoreConnected
    BY <2>1, ConnectedLinks
  <2>2. CASE CoreDisconnected
    BY <2>2 DEF CoreDisconnected
  <2> QED BY <2>1, <2>2
<1>3. \A r \in requests' : r.kind # "groups"
  <2>1. CASE CoreConnected
    BY <2>1, ConnectedLinks
  <2>2. CASE CoreDisconnected
    BY <2>2 DEF CoreDisconnected
  <2> QED BY <2>1, <2>2
<1>4. groupsRequest < nextId'
  <2>1. groupsRequest < nextId /\ groupsRequest \in Nat /\ nextId \in Nat
    BY DEF GroupsInv, Base, TypeInv, LinkTyped, UiTyped
  <2>2. nextId' = nextId \/ nextId' = nextId + 1
    BY DEF CoreDisconnected, CoreConnected
  <2> QED BY <2>1, <2>2
<1>5. ~GroupsUnderWay'
  BY <1>1, <1>3 DEF GroupsUnderWay, InFlight
<1>6. \A i \in Items : GroupRight(i)'
  BY <1>1, <1>5 DEF GroupRight
<1> QED BY <1>1, <1>2, <1>4, <1>6 DEF GroupsInv

LEMMA GroupsNext ==
  ASSUME Base, OrderInv, InboxInv, GroupsInv, [Next]_vars
  PROVE  GroupsInv'
<1>1. UNCHANGED vars \/ CoreStep \/ UiStep \/ CoreDisconnected \/ CoreConnected
  BY NextCases DEF Base
<1>2. CASE UNCHANGED vars
  <2>1. /\ UNCHANGED <<coreVars, groups, groupProfile, groupsRequest, loaded, inbox>>
        /\ UNCHANGED <<requests, handlers, nextId>>
    BY <1>2 DEF vars, uiVars, groupVars, linkVars
  <2>2. core' = core /\ deleted' = deleted
    BY <2>1, ExistingKept
  <2>3. \A i \in Items : GroupRight(i) => GroupRight(i)'
    BY <2>1, <2>2 DEF GroupRight, GroupsUnderWay, InFlight
  <2> QED BY <2>1, <2>2, <2>3 DEF GroupsInv
<1>3. CASE CoreStep
  BY <1>3, OrderCore, GroupsCore
<1> QED BY <1>1, <1>2, <1>3, GroupsUi, GroupsLink

-----------------------------------------------------------------------------
(* The pages                                                               *)

\* Page i is shown, with version v.
Shows(rows, i, v) == \E n \in DOMAIN rows : rows[n].page = i /\ rows[n].version = v
IsShown(rows, i) == \E n \in DOMAIN rows : rows[n].page = i

(***************************************************************************)
(* Once they are loaded, pages are up to date or will be, but for an edit  *)
(* that waits for the core.                                                *)
(***************************************************************************)
PageRight(i) ==
  /\ Follows(inbox, "pages", i, core.pages[i], IsShown(pages, i))
  /\ Quiet(inbox, 0, "pages", i) =>
       \A v : Shows(pages, i, v) => v = core.pages[i] \/ (v = Edited /\ EditUnderWay(i))

PagesInv ==
  "pages" \in loaded => \A i \in Items : i[1] = shown /\ i[1] \notin deleted => PageRight(i)

LEMMA PagesCore ==
  ASSUME Base, OrderInv, PagesInv, CoreStep, CoreEffect
  PROVE  PagesInv'
<1>1. UNCHANGED <<loaded, connected, pages, shown>> /\ deleted \subseteq deleted'
  BY DEF CoreEffect, uiVars, pageVars, profileVars
<1>2. ASSUME NEW i \in Items, i[1] = shown, i[1] \notin deleted', "pages" \in loaded
      PROVE  PageRight(i)'
  <2>1. PageRight(i) /\ connected
    BY <1>1, <1>2 DEF PagesInv, Base, LinkInv
  <2>2. "pages" \in Whats /\ IsShown(pages, i) \in BOOLEAN
    BY DEF Whats, IsShown
  <2>3. Follows(inbox', "pages", i, core'.pages[i], IsShown(pages, i))
    BY <1>2, <2>1, <2>2, ItemCore DEF PageRight
  <2>4. Quiet(inbox', 0, "pages", i)
          => Quiet(inbox, 0, "pages", i) /\ core'.pages[i] = core.pages[i]
    BY <1>2, <2>1, <2>2, ItemCore
  <2>5. EditUnderWay(i) /\ Quiet(inbox', 0, "pages", i) => EditUnderWay(i)'
    BY FlightCore
  <2> QED BY <1>1, <2>1, <2>3, <2>4, <2>5 DEF PageRight
<1> QED BY <1>1, <1>2 DEF PagesInv

LEMMA PagesKept ==
  ASSUME Base, PagesInv, UNCHANGED <<coreVars, pages, shown>>, Delivered,
         inbox' = inbox \/ Head(inbox).type # "pages",
         "pages" \in loaded' => "pages" \in loaded,
         NEW settled, NEW new, Links(settled, new),
         \A r \in settled : r.kind = "update" => DoneIn(inbox, r)
  PROVE  PagesInv'
<1>1. inbox \in Seq(Messages) /\ core' = core /\ deleted' = deleted
  BY ExistingKept DEF Base, TypeInv
<1>2. ASSUME NEW i \in Items, i[1] = shown, i[1] \notin deleted, "pages" \in loaded
      PROVE  PageRight(i)'
  <2>1. PageRight(i) /\ (EditUnderWay(i) => EditUnderWay(i)')
    BY <1>2, EditsKept DEF PagesInv
  <2>2. CASE inbox' = inbox
    BY <1>1, <2>1, <2>2 DEF PageRight
  <2>3. CASE inbox # <<>> /\ inbox' = Tail(inbox) /\ Head(inbox).type # "pages"
    <3>1. ~Tells(Head(inbox), "pages", i)
      BY <2>3 DEF Tells
    <3>2. Quiet(Tail(inbox), 0, "pages", i) => Quiet(inbox, 0, "pages", i)
      BY <1>1, <2>3, <3>1, ViewHead
    <3>3. Follows(inbox, "pages", i, core.pages[i], IsShown(pages, i))
            => Follows(Tail(inbox), "pages", i, core.pages[i], IsShown(pages, i))
      BY <1>1, <2>3, <3>1, FollowsTail
    <3> QED BY <1>1, <2>1, <2>3, <3>2, <3>3 DEF PageRight
  <2> QED BY <2>2, <2>3 DEF Delivered
<1> QED BY <1>1, <1>2 DEF PagesInv

LEMMA PagesLoad ==
  ASSUME Base, OrderInv, NewestInv, InboxInv, PagesInv, NEW r \in handlers, Reads(r),
         r.kind = "pages", PagesAnswer(r, Head(inbox).data), Links({r}, {})
  PROVE  PagesInv'
<1>1. /\ inbox # <<>> /\ inbox' = Tail(inbox) /\ inbox \in Seq(Messages) /\ UNCHANGED coreVars
      /\ shown' = shown /\ Delivered /\ IsAnswer(Head(inbox)) /\ Head(inbox).request = r
      /\ Head(inbox).type # "pages" /\ core' = core /\ deleted' = deleted /\ "pages" \in Whats
      /\ Lists(Head(inbox), "pages")
  BY ExistingKept DEF Reads, Takes, PagesAnswer, profileVars, Delivered, Base, TypeInv, IsAnswer,
     Whats, Lists
<1>2. CASE ~IsNewest(r, pagesRequest)
  <2>1. UNCHANGED <<pages, loaded>>
    BY <1>2 DEF PagesAnswer
  <2>2. \A s \in {r} : s.kind # "update"
    OBVIOUS
  <2> QED BY <1>1, <2>1, <2>2, PagesKept
<1>3. CASE IsNewest(r, pagesRequest)
  <2> DEFINE content == Head(inbox).data
             s == Listing(content)
  <2>1. content \in Contents /\ Head(inbox) = inbox[1] /\ 1 \in DOMAIN inbox
    BY <1>1, ReadsFacts, TakesFacts DEF Whats, Reads
  <2>2. pages' = s
    BY <1>3 DEF PagesAnswer
  <2>3. /\ \A n \in DOMAIN s : s[n].page \in DOMAIN content /\ s[n].version = content[s[n].page]
        /\ \A i \in DOMAIN content : \E n \in DOMAIN s : s[n].page = i
    BY <2>1, ListingIs
  <2>4. r.of = shown
    BY <1>1, <1>3, <2>1 DEF NewestInv, IsNewest
  <2>5. \A i \in DOMAIN content : content[i] # Absent
    BY <2>1 DEF Contents, Versions, Absent
  <2> HIDE DEF s
  <2>6. ASSUME NEW i \in Items, i[1] = shown, i[1] \notin deleted
        PROVE  PageRight(i)'
    <3> DEFINE t == core.pages[i]
               said == Value(Head(inbox), i)
    <3>1. Reports(Head(inbox), "pages", i)
      BY <1>1, <2>4, <2>6 DEF Reports
    <3>2. ItemAccurate(inbox, "pages", i, t)
      BY <1>1, <2>6 DEF InboxInv
    <3>3. said = IF i \in DOMAIN content THEN content[i] ELSE Absent
      BY <1>1 DEF Value
    <3>4. IsShown(s, i) <=> said # Absent
      BY <2>3, <2>5, <3>3 DEF IsShown
    <3>5. \A v : Shows(s, i, v) => v = said
      BY <2>3, <3>3 DEF Shows
    <3>6. Quiet(Tail(inbox), 0, "pages", i) => t = said
      BY <1>1, <3>1, <3>2, AccurateTail
    <3>7. Follows(Tail(inbox), "pages", i, t, IsShown(s, i))
      <4>1. IsShown(s, i) \in BOOLEAN
        BY DEF IsShown
      <4> QED BY <1>1, <3>1, <3>2, <3>4, <4>1, FollowsHead
    <3> HIDE DEF said
    <3> QED BY <1>1, <2>2, <3>5, <3>6, <3>7 DEF PageRight
  <2> QED BY <1>1, <2>6 DEF PagesInv
<1> QED BY <1>2, <1>3

\* What an event about a page does to the rows, each page being there once.
LEMMA RowsAfter ==
  ASSUME Base, OrderInv, ScreenInv, NEW e \in ItemEvents, Hears(e, {"pages"}), PageEvent(e),
         NEW i \in Items
  PROVE  IF i = e.item /\ i[1] = shown
         THEN /\ \A v : Shows(pages', i, v) => v = e.version
              /\ e.version = Absent => ~IsShown(pages', i)
              /\ e.version # Absent /\ (e.isNew \/ IsShown(pages, i)) => IsShown(pages', i)
         ELSE /\ \A v : Shows(pages', i, v) => Shows(pages, i, v)
              /\ IsShown(pages', i) <=> IsShown(pages, i)
<1>1. /\ Takes /\ inbox # <<>> /\ e = Head(inbox) /\ e.type = "pages" /\ inbox \in Seq(Messages)
      /\ e.item \in Items /\ e.isNew \in BOOLEAN /\ "pages" \in Whats /\ pages \in Seq(Rows)
      /\ e.version \in {Absent} \cup Versions
  BY DEF Hears, Takes, ItemEvents, Whats, Base, TypeInv, UiTyped
<1>2. RowsIn(pages, shown, Existing, inbox) /\ DOMAIN pages = 1..Len(pages) /\ Len(pages) \in Nat
  BY <1>1, LenProperties DEF ScreenInv
<1>3. \A n \in DOMAIN pages : pages[n] \in Rows
  BY <1>1, <1>2, ElementOfSeq
<1>4. CASE e.item[1] # shown
  <2>1. pages' = pages
    BY <1>4 DEF PageEvent
  <2> QED BY <1>4, <2>1
<1>5. CASE e.item[1] = shown /\ e.version = Absent
  <2>1. pages' = PagesWithout(e.item)
    BY <1>5 DEF PageEvent
  <2>2. CASE ShownAt(e.item) = {}
    <3>1. pages' = pages /\ ~IsShown(pages, e.item) /\ \A v : ~Shows(pages, e.item, v)
      BY <2>1, <2>2 DEF PagesWithout, ShownAt, IsShown, Shows
    <3> QED BY <1>5, <3>1
  <2>3. CASE ShownAt(e.item) # {}
    <3> DEFINE N == Len(pages) - 1
               f == First(e.item)
    <3>1. /\ f \in 1..Len(pages) /\ pages[f].page = e.item
          /\ DOMAIN pages' = 1..N
          /\ \A n \in 1..N : /\ Origin(e.item, n) \in 1..Len(pages) /\ Origin(e.item, n) # f
                             /\ pages'[n] = pages[Origin(e.item, n)]
      BY <1>1, <2>1, <2>3, WithoutIs DEF ShownAt
    <3>2. ASSUME NEW n \in DOMAIN pages, n # f
          PROVE  \E m \in 1..N : Origin(e.item, m) = n
      <4>1. CASE n < f
        <5>1. n \in 1..N /\ Origin(e.item, n) = n
          BY <1>2, <3>1, <4>1 DEF Origin
        <5> QED BY <5>1
      <4>2. CASE n > f
        <5>1. n - 1 \in 1..N /\ Origin(e.item, n - 1) = n
          BY <1>2, <3>1, <4>2 DEF Origin
        <5> QED BY <5>1
      <4> QED BY <1>2, <3>1, <3>2, <4>1, <4>2
    <3>3. \A n \in DOMAIN pages : pages[n].page = e.item <=> n = f
      BY <1>2, <3>1 DEF RowsIn
    <3> HIDE DEF f, N
    <3>4. \A n \in DOMAIN pages' : \E m \in DOMAIN pages : m # f /\ pages'[n] = pages[m]
      BY <1>2, <3>1
    <3>5. \A m \in DOMAIN pages : m # f => \E n \in DOMAIN pages' : pages'[n] = pages[m]
      BY <3>1, <3>2
    <3>6. CASE i = e.item
      BY <1>5, <3>3, <3>4, <3>6 DEF IsShown, Shows
    <3>7. CASE i # e.item
      <4>1. \A v : Shows(pages', i, v) => Shows(pages, i, v)
        BY <3>4 DEF Shows
      <4>2. IsShown(pages', i) <=> IsShown(pages, i)
        BY <3>3, <3>4, <3>5, <3>7 DEF IsShown
      <4> QED BY <3>7, <4>1, <4>2
    <3> QED BY <3>6, <3>7
  <2> QED BY <2>2, <2>3
<1>6. CASE e.item[1] = shown /\ e.version # Absent /\ e.isNew
  <2> DEFINE row == [page |-> e.item, version |-> e.version]
             N == Len(pages)
  <2>1. pages' = Append(pages, row)
    BY <1>6 DEF PageEvent
  <2>2. row \in Rows /\ row.page = e.item /\ row.version = e.version
    BY <1>1, <1>6 DEF Rows
  <2> HIDE DEF row
  <2>3. /\ DOMAIN pages = 1..N /\ DOMAIN pages' = 1..(N + 1)
        /\ \A n \in 1..N : pages'[n] = pages[n] /\ n \in 1..(N + 1)
        /\ pages'[N + 1] = row /\ N + 1 \in 1..(N + 1)
        /\ \A n \in 1..(N + 1) : n \in 1..N \/ n = N + 1
    BY <1>1, <1>2, <2>1, <2>2, AppendProperties
  <2>4. NewAfter(inbox, 0, "pages", e.item)
    <3>1. TellsNew(Head(inbox), "pages", e.item)
      BY <1>1, <1>6 DEF TellsNew, Tells
    <3> QED BY <1>1, <3>1, ViewHead
  <2>5. \A n \in 1..N : pages[n].page # e.item
    BY <1>2, <2>3, <2>4 DEF RowsIn
  <2> HIDE DEF N
  <2>6. CASE i = e.item
    <3>1. IsShown(pages', i)
      BY <2>2, <2>3, <2>6 DEF IsShown
    <3>2. \A v : Shows(pages', i, v) => v = e.version
      BY <2>2, <2>3, <2>5, <2>6 DEF Shows
    <3> QED BY <1>6, <2>6, <3>1, <3>2
  <2>7. CASE i # e.item
    <3>1. \A v : Shows(pages', i, v) => Shows(pages, i, v)
      BY <2>2, <2>3, <2>7 DEF Shows
    <3>2. IsShown(pages', i) <=> IsShown(pages, i)
      BY <2>2, <2>3, <2>7 DEF IsShown
    <3> QED BY <2>7, <3>1, <3>2
  <2> QED BY <2>6, <2>7
<1>7. CASE e.item[1] = shown /\ e.version # Absent /\ ~e.isNew
  <2>1. pages' = [n \in DOMAIN pages |-> IF n \in ShownAt(e.item)
                                         THEN [pages[n] EXCEPT !.version = e.version]
                                         ELSE pages[n]]
    BY <1>7 DEF PageEvent
  <2>2. /\ DOMAIN pages' = DOMAIN pages
        /\ \A n \in DOMAIN pages :
             /\ pages'[n].page = pages[n].page
             /\ pages'[n].version = IF pages[n].page = e.item THEN e.version ELSE pages[n].version
    BY <1>3, <2>1 DEF Rows, ShownAt
  <2>3. CASE i = e.item
    BY <1>7, <2>2, <2>3 DEF Shows, IsShown
  <2>4. CASE i # e.item
    <3>1. \A v : Shows(pages', i, v) => Shows(pages, i, v)
      BY <2>2, <2>4 DEF Shows
    <3>2. IsShown(pages', i) <=> IsShown(pages, i)
      BY <2>2 DEF IsShown
    <3> QED BY <2>4, <3>1, <3>2
  <2> QED BY <2>3, <2>4
<1> QED BY <1>1, <1>4, <1>5, <1>6, <1>7

LEMMA PagesEvent ==
  ASSUME Base, OrderInv, ScreenInv, InboxInv, PagesInv, NEW e \in ItemEvents,
         Hears(e, {"pages"}), PageEvent(e), Links({}, {})
  PROVE  PagesInv'
<1>1. /\ inbox # <<>> /\ inbox' = Tail(inbox) /\ inbox \in Seq(Messages) /\ UNCHANGED coreVars
      /\ UNCHANGED <<shown, loaded>> /\ Delivered
      /\ e = Head(inbox) /\ e.type = "pages" /\ e.item \in Items /\ e.isNew \in BOOLEAN
      /\ core' = core /\ deleted' = deleted /\ "pages" \in Whats
  BY ExistingKept DEF Hears, Takes, PageEvent, profileVars, Delivered, Base, TypeInv, ItemEvents,
     Whats
<1>2. ASSUME NEW i \in Items, i[1] = shown, i[1] \notin deleted, "pages" \in loaded
      PROVE  PageRight(i)'
  <2> DEFINE t == core.pages[i]
  <2>1. PageRight(i) /\ ItemAccurate(inbox, "pages", i, t)
    BY <1>1, <1>2 DEF PagesInv, InboxInv
  <2>2. IsShown(pages', i) \in BOOLEAN
    BY DEF IsShown
  <2>3. CASE i # e.item
    <3>1. ~Tells(Head(inbox), "pages", i)
      BY <1>1, <2>3 DEF Tells
    <3>2. Quiet(Tail(inbox), 0, "pages", i) => Quiet(inbox, 0, "pages", i)
      BY <1>1, <3>1, ViewHead
    <3>3. /\ \A v : Shows(pages', i, v) => Shows(pages, i, v)
          /\ IsShown(pages', i) <=> IsShown(pages, i)
      BY <2>3, RowsAfter
    <3>4. Follows(Tail(inbox), "pages", i, t, IsShown(pages, i))
      BY <1>1, <2>1, <3>1, FollowsTail DEF PageRight
    <3>5. Follows(Tail(inbox), "pages", i, t, IsShown(pages', i))
      BY <3>3, <3>4 DEF Follows
    <3>6. EditUnderWay(i) => EditUnderWay(i)'
      BY <1>1, EditsKept
    <3> QED BY <1>1, <2>1, <3>2, <3>3, <3>5, <3>6 DEF PageRight
  <2>4. CASE i = e.item
    <3>1. /\ Tells(Head(inbox), "pages", i) /\ Reports(Head(inbox), "pages", i)
          /\ Value(Head(inbox), i) = e.version
      BY <1>1, <2>4 DEF Tells, Reports, Value, IsAnswer
    <3>2. Quiet(Tail(inbox), 0, "pages", i) => t = e.version
      BY <1>1, <2>1, <3>1, AccurateTail
    <3>3. ~e.isNew => IsShown(pages, i)
      BY <1>1, <2>1, <3>1, FollowsChange DEF PageRight
    <3>4. /\ \A v : Shows(pages', i, v) => v = e.version
          /\ e.version = Absent => ~IsShown(pages', i)
          /\ e.version # Absent /\ (e.isNew \/ IsShown(pages, i)) => IsShown(pages', i)
      BY <1>2, <2>4, RowsAfter
    <3>5. IsShown(pages', i) <=> Value(Head(inbox), i) # Absent
      BY <1>1, <3>1, <3>3, <3>4
    <3>6. Follows(Tail(inbox), "pages", i, t, IsShown(pages', i))
      BY <1>1, <2>1, <2>2, <3>1, <3>5, FollowsHead
    <3> QED BY <1>1, <3>2, <3>4, <3>6 DEF PageRight
  <2> QED BY <2>3, <2>4
<1> QED BY <1>1, <1>2 DEF PagesInv

\* The page is changed on the screen, or not yet, and the change sent.
LEMMA PagesEdit ==
  ASSUME Base, PagesInv, NEW j \in Items, UserEditsPage(j), Links({}, Sent1("update", j))
  PROVE  PagesInv'
<1>1. /\ UNCHANGED <<coreVars, shown, loaded>> /\ inbox' = inbox /\ core' = core
      /\ deleted' = deleted
      /\ \/ pages' = [n \in DOMAIN pages |-> IF n \in ShownAt(j)
                                             THEN [page |-> j, version |-> Edited] ELSE pages[n]]
         \/ pages' = pages
  BY ExistingKept DEF UserEditsPage, profileVars
<1>2. /\ DOMAIN pages' = DOMAIN pages
      /\ \A n \in DOMAIN pages :
           \/ pages[n].page = j /\ pages'[n].page = j /\ pages'[n].version = Edited
           \/ pages'[n] = pages[n]
  BY <1>1 DEF ShownAt
<1>3. ASSUME NEW i \in Items, i[1] = shown, i[1] \notin deleted, "pages" \in loaded
      PROVE  PageRight(i)'
  <2>1. PageRight(i) /\ connected
    BY <1>3 DEF PagesInv, Base, LinkInv
  <2>2. IsShown(pages', i) <=> IsShown(pages, i)
    BY <1>2 DEF IsShown
  <2>3. Follows(inbox, "pages", i, core.pages[i], IsShown(pages', i))
    BY <2>1, <2>2 DEF PageRight, Follows
  <2>4. CASE i # j
    <3>1. \A v : Shows(pages', i, v) => Shows(pages, i, v)
      BY <1>2, <2>4 DEF Shows
    <3>2. EditUnderWay(i) => EditUnderWay(i)'
      BY <1>1, EditsKept DEF Delivered
    <3> QED BY <1>1, <2>1, <2>3, <3>1, <3>2 DEF PageRight
  <2>5. CASE i = j
    <3> DEFINE c == Call(nextId, "update", j)
    <3>1. \A v : Shows(pages', i, v) => v = Edited \/ Shows(pages, i, v)
      BY <1>2, <2>5 DEF Shows
    <3>2. c.id = nextId /\ c.kind = "update" /\ c.of = j /\ Sent1("update", j) = {c}
      BY <2>1 DEF Call, Sent1
    <3> HIDE DEF c
    <3>3. c \in handlers'
      BY <3>2 DEF Links
    <3>4. \A p \in DOMAIN inbox : IsAnswer(inbox[p]) =>
            inbox[p].request \in Request /\ inbox[p].request.id < nextId
      <4>1. inbox \in Seq(Messages)
        BY DEF Base, TypeInv
      <4>2. \A p \in DOMAIN inbox : inbox[p] \in Messages
        BY <4>1, ElementOfSeq, LenProperties
      <4> QED BY <4>2, MessageForms DEF Base, AnswersInv, AnswersIn
    <3>5. nextId \in Nat
      BY DEF Base, TypeInv, LinkTyped
    <3>6. ~DoneIn(inbox, c)
      BY <3>2, <3>4, <3>5 DEF DoneIn
    <3>7. EditUnderWay(i)'
      BY <1>1, <2>5, <3>2, <3>3, <3>6 DEF EditUnderWay
    <3> QED BY <1>1, <2>1, <2>3, <3>1, <3>7 DEF PageRight
  <2> QED BY <2>4, <2>5
<1> QED BY <1>1, <1>3 DEF PagesInv

LEMMA PagesUi ==
  ASSUME Base, OrderInv, NewestInv, ScreenInv, InboxInv, PagesInv, UiStep
  PROVE  PagesInv'
<1>1. Takes => Delivered /\ UNCHANGED coreVars
  BY DEF Takes, Delivered
<1>2. CASE Ignores /\ Links({}, {})
  <2>1. Takes /\ UNCHANGED <<pages, shown, loaded>> /\ Head(inbox).type # "pages"
    BY <1>2 DEF Ignores, uiVars, profileVars, pageVars, IsAnswer
  <2> QED BY <1>1, <1>2, <2>1, PagesKept
<1>3. ASSUME NEW r \in handlers, Reads(r),
             \/ r.kind \in {"active", "switch"} /\ Selects(r, Head(inbox).data)
             \/ r.kind \in {"switch", "update"} /\ Concludes(r)
             \/ r.kind = "groups" /\ GroupsAnswer(r, Head(inbox).data) /\ Links({r}, {})
      PROVE  PagesInv'
  <2>1. Takes /\ Head(inbox).type # "pages"
    BY <1>3 DEF Reads, IsAnswer
  <2>2. UNCHANGED <<pages, shown>>
    BY <1>3 DEF Selects, Concludes, GroupsAnswer, uiVars, profileVars, pageVars
  <2>3. "pages" \in loaded' => "pages" \in loaded
    BY <1>3 DEF Selects, Concludes, GroupsAnswer, uiVars
  <2>4. \E new : Links({r}, new)
    BY <1>3 DEF Selects, Concludes
  <2>5. DoneIn(inbox, r)
    <3>1. Head(inbox) = inbox[1] /\ 1 \in DOMAIN inbox
      BY <2>1, TakesFacts
    <3> QED BY <1>3, <3>1 DEF Reads, DoneIn
  <2>6. \A s \in {r} : s.kind = "update" => DoneIn(inbox, s)
    BY <2>5
  <2> QED BY <1>1, <2>1, <2>2, <2>3, <2>4, <2>6, PagesKept
<1>4. ASSUME NEW r \in handlers, NEW isAnswer \in BOOLEAN, Notices(r, isAnswer),
             Fails(r, isAnswer), Links({r}, IF Reloads(r) THEN Sent1("pages", shown) ELSE {})
      PROVE  PagesInv'
  <2>1. CASE Reloads(r)
    <3>1. "pages" \notin loaded'
      BY <1>4, <2>1 DEF Fails, Sync
    <3> QED BY <3>1 DEF PagesInv
  <2>2. CASE ~Reloads(r)
    <3>1. /\ UNCHANGED coreVars /\ Delivered /\ UNCHANGED <<pages, shown, loaded>>
          /\ inbox' = inbox \/ Head(inbox).type # "pages"
          /\ Links({r}, {})
      BY <1>1, <1>4, <2>2 DEF Notices, Fails, Delivered, IsAnswer, pageVars
    <3>2. \A s \in {r} : s.kind # "update"
      BY <2>2 DEF Reloads
    <3> QED BY <3>1, <3>2, PagesKept
  <2> QED BY <2>1, <2>2
<1>5. ASSUME NEW e \in ItemEvents, Links({}, {}), Hears(e, {"groups"}), GroupEvent(e)
      PROVE  PagesInv'
  <2>1. Takes /\ UNCHANGED <<pages, shown, loaded>> /\ Head(inbox).type # "pages"
    BY <1>5 DEF GroupEvent, Hears, profileVars, pageVars
  <2> QED BY <1>1, <1>5, <2>1, PagesKept
<1>6. ASSUME NEW e \in ProfileEvents, Hears(e, {"profileAdded"}), ProfileAdded(e.profile),
             Links({}, Sent1("switch", e.profile))
      PROVE  PagesInv'
  <2>1. Takes /\ UNCHANGED <<pages, shown, loaded>> /\ Head(inbox).type # "pages"
    BY <1>6 DEF ProfileAdded, Hears, uiVars, profileVars, pageVars
  <2> QED BY <1>1, <1>6, <2>1, PagesKept
<1>7. ASSUME NEW e \in ProfileEvents, Hears(e, {"profileDeleted"}), ProfileDeleted(e.profile),
             Links({}, {})
      PROVE  PagesInv'
  <2>1. CASE shown = e.profile
    <3>1. loaded' = {}
      BY <1>7, <2>1 DEF ProfileDeleted
    <3> QED BY <3>1 DEF PagesInv
  <2>2. CASE shown # e.profile
    <3>1. Takes /\ UNCHANGED <<pages, shown, loaded>> /\ Head(inbox).type # "pages"
      BY <1>7, <2>2 DEF ProfileDeleted, Hears
    <3> QED BY <1>1, <1>7, <3>1, PagesKept
  <2> QED BY <2>1, <2>2
<1>8. ASSUME NEW p \in Profiles, UserSwitches(p), Links({}, Sent1("switch", p))
      PROVE  PagesInv'
  <2>1. UNCHANGED <<coreVars, pages, shown, loaded>> /\ inbox' = inbox
    BY <1>8 DEF UserSwitches, uiVars, profileVars, pageVars
  <2> QED BY <1>8, <2>1, PagesKept DEF Delivered
<1>9. ASSUME NEW r \in handlers, ProfileAnswer(r, r.of)
      PROVE  PagesInv'
  <2>1. loaded' = {}
    BY <1>9 DEF ProfileAnswer
  <2> QED BY <2>1 DEF PagesInv
<1>10. ASSUME NEW r \in handlers, Reads(r), r.kind = "pages",
              PagesAnswer(r, Head(inbox).data), Links({r}, {})
       PROVE  PagesInv'
  BY <1>10, PagesLoad
<1>11. ASSUME NEW e \in ItemEvents, Links({}, {}), Hears(e, {"pages"}), PageEvent(e)
       PROVE  PagesInv'
  BY <1>11, PagesEvent
<1>12. ASSUME NEW i \in Items, UserEditsPage(i), Links({}, Sent1("update", i))
       PROVE  PagesInv'
  BY <1>12, PagesEdit
<1>13. UiEffect
  BY UiEffects
<1> QED BY <1>2, <1>3, <1>4, <1>5, <1>6, <1>7, <1>8, <1>9, <1>10, <1>11, <1>12, <1>13 DEF UiEffect

LEMMA PagesInit == Init => PagesInv
BY DEF Init, PagesInv

LEMMA PagesNext ==
  ASSUME Base, OrderInv, NewestInv, ScreenInv, InboxInv, PagesInv, [Next]_vars
  PROVE  PagesInv'
<1>1. UNCHANGED vars \/ CoreStep \/ UiStep \/ CoreDisconnected \/ CoreConnected
  BY NextCases DEF Base
<1>2. CASE UNCHANGED vars
  <2>1. UNCHANGED <<coreVars, pages, shown, loaded, inbox, handlers>>
    BY <1>2 DEF vars, uiVars, pageVars, profileVars, linkVars
  <2>2. core' = core /\ deleted' = deleted
    BY <2>1, ExistingKept
  <2>3. \A i \in Items : PageRight(i) => PageRight(i)'
    BY <2>1, <2>2 DEF PageRight, EditUnderWay
  <2> QED BY <2>1, <2>2, <2>3 DEF PagesInv
<1>3. CASE CoreStep
  BY <1>3, OrderCore, PagesCore
<1>4. CASE CoreDisconnected \/ CoreConnected
  <2>1. loaded' = {}
    BY <1>4 DEF CoreDisconnected, CoreConnected, Base, LinkInv
  <2> QED BY <2>1 DEF PagesInv
<1> QED BY <1>1, <1>2, <1>3, <1>4, PagesUi

LEMMA AllArrived ==
  ASSUME Base, ScreenInv, GroupsInv, PagesInv
  PROVE  LoadedMatchesCore
<1> SUFFICES ASSUME UpToDate, shown \in core.profiles
             PROVE  /\ "pages" \in loaded /\ Waiting("update") = {} =>
                         {<<pages[n].page, pages[n].version>> : n \in DOMAIN pages}
                           = {<<i, core.pages[i]>> : i \in ItemsOf(core.pages, shown)}
                    /\ "groups" \in loaded =>
                         \A i \in Items : i[1] = shown => groups[i] = core.groups[i]
  BY DEF LoadedMatchesCore
<1>1. shown \notin deleted /\ shown # None
  BY ProfilePagesAssumption DEF Base, TypeInv, CoreTyped, CoreInv
<1>2. \A w, i : Quiet(inbox, 0, w, i)
  BY DEF UpToDate, Quiet
<1>3. ASSUME "groups" \in loaded, NEW i \in Items, i[1] = shown
      PROVE  groups[i] = core.groups[i]
  <2>1. GroupRight(i)
    BY <1>1, <1>3 DEF ScreenInv, GroupsInv
  <2>2. groups[i] # Absent <=> core.groups[i] # Absent
    BY <1>2, <1>3, <2>1 DEF GroupRight, Follows
  <2>3. groups[i] # Absent => groups[i] = core.groups[i]
    BY <1>2, <1>3, <2>1 DEF GroupRight
  <2> QED BY <2>2, <2>3
<1>4. ASSUME "pages" \in loaded, Waiting("update") = {}
      PROVE  {<<pages[n].page, pages[n].version>> : n \in DOMAIN pages}
               = {<<i, core.pages[i]>> : i \in ItemsOf(core.pages, shown)}
  <2>1. \A i \in Items : ~EditUnderWay(i)
    BY <1>4 DEF EditUnderWay, Waiting
  <2>2. ASSUME NEW i \in Items, i[1] = shown
        PROVE  /\ IsShown(pages, i) <=> core.pages[i] # Absent
               /\ \A v : Shows(pages, i, v) => v = core.pages[i]
    BY <1>1, <1>2, <1>4, <2>1, <2>2 DEF PagesInv, PageRight, Follows
  <2>3. ASSUME NEW n \in DOMAIN pages
        PROVE  pages[n].page \in ItemsOf(core.pages, shown)
               /\ pages[n].version = core.pages[pages[n].page]
    <3>1. pages[n].page \in Items /\ pages[n].page[1] = shown
      BY DEF ScreenInv, RowsIn
    <3>2. IsShown(pages, pages[n].page) /\ Shows(pages, pages[n].page, pages[n].version)
      BY DEF IsShown, Shows
    <3> QED BY <2>2, <3>1, <3>2 DEF ItemsOf
  <2>4. ASSUME NEW i \in ItemsOf(core.pages, shown)
        PROVE  \E n \in DOMAIN pages : pages[n].page = i /\ pages[n].version = core.pages[i]
    <3>1. i \in Items /\ i[1] = shown /\ core.pages[i] # Absent
      BY DEF ItemsOf
    <3>2. PICK n \in DOMAIN pages : pages[n].page = i
      BY <2>2, <3>1 DEF IsShown
    <3> QED BY <2>3, <3>2
  <2> QED BY <2>3, <2>4
<1> QED BY <1>3, <1>4

(***************************************************************************)
(* Once the newest answers were applied and every message of the           *)
(* connection was received, the pages and groups shown are those of the    *)
(* core: no event that raced an answer is lost or applied twice, and no    *)
(* edit the core refused stays on the screen.                              *)
(***************************************************************************)
THEOREM ShowsWhatCoreHas == Spec => []LoadedMatchesCore
<1> DEFINE Shown == Base /\ OrderInv /\ NewestInv /\ ScreenInv
           Right == InboxInv /\ GroupsInv /\ PagesInv
<1>1. Init => Shown /\ Right
  BY BaseInit, OrderInit, ScreenInit, InboxInit, GroupsInit, PagesInit
<1>2. Shown /\ Right /\ [Next]_vars => Shown' /\ Right'
  BY BaseNext, OrderNext, ScreenNext, InboxNext, GroupsNext, PagesNext
<1>3. Shown /\ Right => LoadedMatchesCore
  BY AllArrived
<1> QED BY <1>1, <1>2, <1>3, PTL DEF Spec

=============================================================================
