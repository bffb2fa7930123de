-------------------------- MODULE EntityStoreProofs --------------------------
(***************************************************************************)
(* Safety of the entity store for any number of entities, page size, loads *)
(* and changes.                                                            *)
(*                                                                         *)
(* What the UI shows lags behind the core by the messages on their way, so *)
(* the invariant speaks of them: each agrees with the core at the time it  *)
(* was sent (Accurate), and of an entity that is in step with them nothing *)
(* is missing (InSync).  A load makes the entities of its pages in step;   *)
(* what it has not got yet is behind the pages handed out (CoverInv), or   *)
(* was displaced, so that with the last page every other entity is gone    *)
(* from the core.                                                          *)
(***************************************************************************)
EXTENDS EntityStore, SequenceTheorems, PagingProofs

Items == UNION {[S -> Versions] : S \in SUBSET Ids}
Pages == [type : {"page"}, request : Request, count : Nat, items : Items]
Errors == [type : {"error"}, request : Request]
Updates == [type : {"new", "change"}, id : Ids, version : Versions]
Deletions == [type : {"delete"}, id : Ids]
Messages == Pages \cup Errors \cup Updates \cup Deletions \cup [type : {"reload"}]

-----------------------------------------------------------------------------
(* What the messages on their way say of the core                          *)

\* A message about entity i.
About(m, i) == m.type \in {"new", "change", "delete"} /\ m.id = i

\* Behind position p there is nothing about i.
NoneAfter(box, p, i) == \A q \in DOMAIN box : q > p => ~About(box[q], i)

\* The first message about i behind p is at q.
FirstAfter(box, p, q, i) ==
  /\ q \in DOMAIN box /\ q > p /\ About(box[q], i)
  /\ \A k \in DOMAIN box : p < k /\ k < q => ~About(box[k], i)

\* The core had i when it sent the message at position p: else it told of a new entity next.
Had(box, table, p, i) ==
  \/ NoneAfter(box, p, i) /\ table[i] # Absent
  \/ \E q \in DOMAIN box : FirstAfter(box, p, q, i) /\ box[q].type # "new"

Lacked(box, table, p, i) ==
  \/ NoneAfter(box, p, i) /\ table[i] = Absent
  \/ \E q \in DOMAIN box : FirstAfter(box, p, q, i) /\ box[q].type = "new"

\* The entities the core had when it sent the message at position p.
HadAt(box, table, p) == {i \in Ids : Had(box, table, p, i)}

\* A message agrees with the core at its time, and with the core now if nothing follows.
Accurate(box, table, p) ==
  /\ box[p].type \in {"new", "change"} =>
       /\ Had(box, table, p, box[p].id)
       /\ NoneAfter(box, p, box[p].id) => table[box[p].id] = box[p].version
  /\ box[p].type = "delete" => Lacked(box, table, p, box[p].id)
  /\ box[p].type = "page" =>
       /\ box[p].count = Cardinality(HadAt(box, table, p))
       /\ DOMAIN box[p].items = PageOf(HadAt(box, table, p), box[p].request.page)
       /\ \A i \in DOMAIN box[p].items : NoneAfter(box, p, i) => table[i] = box[p].items[i]

InboxInv == \A p \in DOMAIN inbox : Accurate(inbox, core, p)

-----------------------------------------------------------------------------
(* The load                                                                *)

\* A request of the load that is not superseded.
Current(r) == r.generation = generation

LinkInv ==
  /\ ~connected => inbox = <<>> /\ requests = {}
  /\ connected => generation \in Generations

\* Generations and pages of a load are counted up: no answer is older than its request.
RequestsInv ==
  /\ \A r \in requests \cup waiting : r.generation <= generation
  /\ \A p \in DOMAIN inbox : inbox[p].type = "page" => inbox[p].request.generation <= generation
  /\ announced <= generation
  /\ \A g \in Generations : g > generation => loaded[g] = {}
  /\ \A r \in waiting : Current(r) =>
       /\ \A s \in requests \cup waiting : Current(s) => s.page <= r.page
       /\ \A p \in DOMAIN inbox :
            inbox[p].type = "page" /\ Current(inbox[p].request) => inbox[p].request.page <= r.page

\* What the list has in front, in the pages handed out, is there.
Covered(got) == \A i \in Ids \ displaced : InFront(core, i) => i \in got

(***************************************************************************)
(* The pages of the load are handed out one after the other, and what the  *)
(* load has not got yet is behind them, or was displaced.  Nothing is left *)
(* behind the last page.                                                   *)
(***************************************************************************)
CoverInv ==
  /\ \A r \in requests : Current(r) =>
       \A p \in DOMAIN inbox : inbox[p].type = "page" => inbox[p].request # r
  /\ \A r \in requests \cap waiting : Current(r) =>
       r.page = handedOut + 1 /\ Covered(loaded[generation])
  /\ \A p \in DOMAIN inbox :
       inbox[p].type = "page" /\ inbox[p].request \in waiting /\ Current(inbox[p].request) =>
         /\ HasNext(inbox[p]) =>
              /\ handedOut = inbox[p].request.page
              /\ Covered(loaded[generation] \cup DOMAIN inbox[p].items)
         /\ ~HasNext(inbox[p]) =>
              HadAt(inbox, core, p) \ displaced
                \subseteq loaded[generation] \cup DOMAIN inbox[p].items

\* With the messages on their way applied, i will be shown as it is in the core.
InSync(box, table, shown, i) ==
  /\ NoneAfter(box, 0, i) => shown[i] = table[i]
  /\ \A q \in DOMAIN box : FirstAfter(box, 0, q, i) /\ box[q].type = "change" => shown[i] # Absent

\* With the messages on their way applied, i will not be shown as it was before.
NotOutdated(box, table, shown, i) == NoneAfter(box, 0, i) => shown[i] \in {table[i], Absent}

SyncInv ==
  connected =>
    /\ \A i \in loaded[generation] : InSync(inbox, core, entities, i)
    /\ announced = generation /\ ~failed =>
         /\ \A i \in Ids \ displaced : InSync(inbox, core, entities, i)
         /\ \A i \in Ids : NotOutdated(inbox, core, entities, i)

TypeInv == TypeOK /\ inbox \in Seq(Messages)

IInv == TypeInv /\ LinkInv /\ InboxInv /\ RequestsInv /\ CoverInv /\ SyncInv

-----------------------------------------------------------------------------
(* Sequences of messages                                                   *)

LEMMA Appended ==
  ASSUME NEW box \in Seq(Messages), NEW m \in Messages
  PROVE  /\ Append(box, m) \in Seq(Messages) /\ Append(box, m) # <<>>
         /\ Len(box) \in Nat /\ Len(Append(box, m)) = Len(box) + 1
         /\ DOMAIN box = 1..Len(box) /\ DOMAIN Append(box, m) = 1..(Len(box) + 1)
         /\ \A q \in 1..Len(box) : Append(box, m)[q] = box[q]
         /\ Append(box, m)[Len(box) + 1] = m
  BY AppendProperties, LenProperties

LEMMA Taken ==
  ASSUME NEW box \in Seq(Messages), box # <<>>
  PROVE  /\ Head(box) \in Messages /\ Head(box) = box[1] /\ Tail(box) \in Seq(Messages)
         /\ Len(box) \in Nat \ {0} /\ Len(Tail(box)) = Len(box) - 1
         /\ DOMAIN box = 1..Len(box) /\ DOMAIN Tail(box) = 1..(Len(box) - 1)
         /\ \A q \in 1..(Len(box) - 1) : Tail(box)[q] = box[q + 1]
<1>1. /\ Head(box) \in Messages /\ Tail(box) \in Seq(Messages) /\ Len(Tail(box)) = Len(box) - 1
      /\ \A q \in 1..Len(Tail(box)) : Tail(box)[q] = box[q + 1]
  BY HeadTailProperties
<1>2. Len(box) \in Nat \ {0} /\ DOMAIN box = 1..Len(box) /\ Head(box) = box[1]
  BY LenProperties, EmptySeq
<1>3. DOMAIN Tail(box) = 1..Len(Tail(box))
  BY <1>1, LenProperties
<1> QED BY <1>1, <1>2, <1>3

\* Messages that are not from the first position are none, or there is a first of them.
LEMMA NoneOrFirst ==
  ASSUME NEW box \in Seq(Messages), NEW p \in Nat, NEW i
  PROVE  /\ NoneAfter(box, p, i) \/ \E q \in DOMAIN box : FirstAfter(box, p, q, i)
         /\ NoneAfter(box, p, i) => \A q \in DOMAIN box : ~FirstAfter(box, p, q, i)
         /\ \A q, k \in DOMAIN box : FirstAfter(box, p, q, i) /\ FirstAfter(box, p, k, i) => q = k
<1>1. DOMAIN box \subseteq Nat
  BY LenProperties
<1> DEFINE T == {q \in DOMAIN box : q > p /\ About(box[q], i)}
<1>2. ASSUME ~NoneAfter(box, p, i)
      PROVE  \E q \in DOMAIN box : FirstAfter(box, p, q, i)
  <2>1. T \in SUBSET Nat /\ T # {}
    BY <1>1, <1>2 DEF NoneAfter
  <2>2. PICK q \in T : \A k \in T : q <= k
    BY <2>1, LeastNumber
  <2>3. \A k \in DOMAIN box : p < k /\ k < q => ~About(box[k], i)
    BY <1>1, <2>2
  <2> QED BY <2>2, <2>3 DEF FirstAfter
<1>3. NoneAfter(box, p, i) => \A q \in DOMAIN box : ~FirstAfter(box, p, q, i)
  BY DEF NoneAfter, FirstAfter
<1>4. \A q, k \in DOMAIN box : FirstAfter(box, p, q, i) /\ FirstAfter(box, p, k, i) => q = k
  BY <1>1 DEF FirstAfter
<1> QED BY <1>2, <1>3, <1>4

LEMMA HadOrLacked ==
  ASSUME NEW box \in Seq(Messages), NEW table, NEW p \in Nat, NEW i
  PROVE  Had(box, table, p, i) <=> ~Lacked(box, table, p, i)
<1>1. CASE NoneAfter(box, p, i)
  BY <1>1, NoneOrFirst DEF Had, Lacked
<1>2. CASE ~NoneAfter(box, p, i)
  <2>1. PICK q \in DOMAIN box : FirstAfter(box, p, q, i)
    BY <1>2, NoneOrFirst
  <2>2. \A k \in DOMAIN box : FirstAfter(box, p, k, i) => k = q
    BY <2>1, NoneOrFirst
  <2> QED BY <1>2, <2>1, <2>2 DEF Had, Lacked
<1> QED BY <1>1, <1>2

-----------------------------------------------------------------------------
(* A message is sent                                                       *)

LEMMA AppendFollows ==
  ASSUME NEW box \in Seq(Messages), NEW m \in Messages, NEW p \in 0..Len(box), NEW i
  PROVE  /\ NoneAfter(Append(box, m), p, i) <=> NoneAfter(box, p, i) /\ ~About(m, i)
         /\ \A q \in 1..Len(box) : FirstAfter(Append(box, m), p, q, i) <=> FirstAfter(box, p, q, i)
         /\ FirstAfter(Append(box, m), p, Len(box) + 1, i) <=> NoneAfter(box, p, i) /\ About(m, i)
<1> DEFINE new == Append(box, m)
           n == Len(box)
<1>1. /\ n \in Nat /\ DOMAIN box = 1..n /\ DOMAIN new = 1..(n + 1)
      /\ \A q \in 1..n : new[q] = box[q]
      /\ new[n + 1] = m
  BY Appended
<1> HIDE DEF new, n
<1>2. p \in 0..n
  BY DEF n
<1>3. NoneAfter(new, p, i) <=> NoneAfter(box, p, i) /\ ~About(m, i)
  BY <1>1, <1>2 DEF NoneAfter
<1>4. \A q \in 1..n : FirstAfter(new, p, q, i) <=> FirstAfter(box, p, q, i)
  BY <1>1, <1>2 DEF FirstAfter
<1>5. FirstAfter(new, p, n + 1, i) <=> NoneAfter(box, p, i) /\ About(m, i)
  BY <1>1, <1>2 DEF FirstAfter, NoneAfter
<1> QED BY <1>3, <1>4, <1>5 DEF new, n

LEMMA HadAppend ==
  ASSUME NEW box \in Seq(Messages), NEW m \in Messages, NEW p \in 0..Len(box), NEW i,
         NEW before, NEW after,
         About(m, i) => (m.type = "new" <=> before[i] = Absent),
         ~About(m, i) => (after[i] = Absent <=> before[i] = Absent)
  PROVE  Had(Append(box, m), after, p, i) <=> Had(box, before, p, i)
<1> DEFINE new == Append(box, m)
           n == Len(box)
<1>1. /\ n \in Nat /\ DOMAIN box = 1..n /\ DOMAIN new = 1..(n + 1)
      /\ \A q \in 1..n : new[q] = box[q]
      /\ new[n + 1] = m
      /\ p \in Nat
  BY Appended
<1>2. /\ NoneAfter(new, p, i) <=> NoneAfter(box, p, i) /\ ~About(m, i)
      /\ \A q \in 1..n : FirstAfter(new, p, q, i) <=> FirstAfter(box, p, q, i)
      /\ FirstAfter(new, p, n + 1, i) <=> NoneAfter(box, p, i) /\ About(m, i)
  BY AppendFollows
<1>3. NoneAfter(box, p, i) => \A q \in 1..n : ~FirstAfter(box, p, q, i)
  BY <1>1, NoneOrFirst
<1> HIDE DEF new, n
<1>4. CASE ~NoneAfter(box, p, i)
  <2>1. \A q \in 1..(n + 1) : q \in 1..n \/ q = n + 1
    BY <1>1
  <2> QED BY <1>1, <1>2, <1>4, <2>1 DEF Had, new
<1>5. CASE NoneAfter(box, p, i) /\ ~About(m, i)
  <2>1. ~\E q \in 1..(n + 1) : FirstAfter(new, p, q, i)
    BY <1>1, <1>2, <1>3, <1>5
  <2> QED BY <1>1, <1>2, <1>3, <1>5, <2>1 DEF Had, new
<1>6. CASE NoneAfter(box, p, i) /\ About(m, i)
  <2>1. \A q \in 1..(n + 1) : FirstAfter(new, p, q, i) <=> q = n + 1
    BY <1>1, <1>2, <1>3, <1>6
  <2>2. n + 1 \in 1..(n + 1)
    BY <1>1
  <2> QED BY <1>1, <1>2, <1>3, <1>6, <2>1, <2>2 DEF Had, new
<1> QED BY <1>4, <1>5, <1>6

\* Behind the last message the core had what it has.
LEMMA HadAtEnd ==
  ASSUME NEW box \in Seq(Messages), NEW table, NEW i
  PROVE  NoneAfter(box, Len(box), i) /\ (Had(box, table, Len(box), i) <=> table[i] # Absent)
<1>1. Len(box) \in Nat /\ DOMAIN box = 1..Len(box)
  BY LenProperties
<1>2. NoneAfter(box, Len(box), i)
  BY <1>1 DEF NoneAfter
<1> QED BY <1>1, <1>2, NoneOrFirst DEF Had

-----------------------------------------------------------------------------
(* A message is received                                                   *)

LEMMA TailFollows ==
  ASSUME NEW box \in Seq(Messages), box # <<>>, NEW p \in Nat, NEW i
  PROVE  /\ NoneAfter(Tail(box), p, i) <=> NoneAfter(box, p + 1, i)
         /\ \A q \in 1..(Len(box) - 1) :
              FirstAfter(Tail(box), p, q, i) <=> FirstAfter(box, p + 1, q + 1, i)
<1> DEFINE rest == Tail(box)
           n == Len(box) - 1
<1>1. /\ n \in Nat /\ DOMAIN box = 1..(n + 1) /\ DOMAIN rest = 1..n
      /\ \A q \in 1..n : rest[q] = box[q + 1] /\ q + 1 \in 1..(n + 1)
      /\ \A q \in 1..(n + 1) : q > p + 1 => q - 1 \in 1..n /\ box[q] = rest[q - 1] /\ q - 1 > p
  BY Taken
<1> HIDE DEF rest, n
<1>2. NoneAfter(rest, p, i) <=> NoneAfter(box, p + 1, i)
  <2>1. ASSUME NoneAfter(rest, p, i), NEW q \in 1..(n + 1), q > p + 1
        PROVE  ~About(box[q], i)
    <3>1. q - 1 \in 1..n /\ box[q] = rest[q - 1] /\ q - 1 > p
      BY <1>1, <2>1
    <3> QED BY <1>1, <2>1, <3>1 DEF NoneAfter
  <2>2. ASSUME NoneAfter(box, p + 1, i), NEW q \in 1..n, q > p
        PROVE  ~About(rest[q], i)
    <3>1. q + 1 \in 1..(n + 1) /\ rest[q] = box[q + 1] /\ q + 1 > p + 1
      BY <1>1, <2>2
    <3> QED BY <1>1, <2>2, <3>1 DEF NoneAfter
  <2> QED BY <1>1, <2>1, <2>2 DEF NoneAfter
<1>3. ASSUME NEW q \in 1..n
      PROVE  FirstAfter(rest, p, q, i) <=> FirstAfter(box, p + 1, q + 1, i)
  <2>1. rest[q] = box[q + 1] /\ q + 1 \in 1..(n + 1) /\ (q > p <=> q + 1 > p + 1)
    BY <1>1
  <2>2. ASSUME FirstAfter(rest, p, q, i), NEW k \in 1..(n + 1), p + 1 < k, k < q + 1
        PROVE  ~About(box[k], i)
    <3>1. k - 1 \in 1..n /\ box[k] = rest[k - 1] /\ p < k - 1 /\ k - 1 < q
      BY <1>1, <2>2
    <3> QED BY <1>1, <2>2, <3>1 DEF FirstAfter
  <2>3. ASSUME FirstAfter(box, p + 1, q + 1, i), NEW k \in 1..n, p < k, k < q
        PROVE  ~About(rest[k], i)
    <3>1. k + 1 \in 1..(n + 1) /\ rest[k] = box[k + 1] /\ p + 1 < k + 1 /\ k + 1 < q + 1
      BY <1>1, <2>3
    <3> QED BY <1>1, <2>3, <3>1 DEF FirstAfter
  <2> QED BY <1>1, <2>1, <2>2, <2>3 DEF FirstAfter
<1> QED BY <1>2, <1>3 DEF rest, n

LEMMA HadTail ==
  ASSUME NEW box \in Seq(Messages), box # <<>>, NEW table, NEW p \in Nat, NEW i
  PROVE  Had(Tail(box), table, p, i) <=> Had(box, table, p + 1, i)
<1> DEFINE rest == Tail(box)
           n == Len(box) - 1
<1>1. /\ n \in Nat /\ DOMAIN box = 1..(n + 1) /\ DOMAIN rest = 1..n
      /\ \A q \in 1..n : rest[q] = box[q + 1] /\ q + 1 \in 1..(n + 1)
      /\ \A q \in 1..(n + 1) : q > p + 1 => q - 1 \in 1..n /\ (q - 1) + 1 = q
  BY Taken
<1>2. /\ NoneAfter(rest, p, i) <=> NoneAfter(box, p + 1, i)
      /\ \A q \in 1..n : FirstAfter(rest, p, q, i) <=> FirstAfter(box, p + 1, q + 1, i)
  BY TailFollows
<1> HIDE DEF rest, n
<1>3. (\E q \in 1..n : FirstAfter(rest, p, q, i) /\ rest[q].type # "new")
        <=> (\E q \in 1..(n + 1) : FirstAfter(box, p + 1, q, i) /\ box[q].type # "new")
  <2>1. \A q \in 1..(n + 1) : FirstAfter(box, p + 1, q, i) => q > p + 1
    BY DEF FirstAfter
  <2>2. ASSUME NEW q \in 1..(n + 1), FirstAfter(box, p + 1, q, i), box[q].type # "new"
        PROVE  \E k \in 1..n : FirstAfter(rest, p, k, i) /\ rest[k].type # "new"
    <3>1. q - 1 \in 1..n /\ (q - 1) + 1 = q
      BY <1>1, <2>1, <2>2
    <3>2. rest[q - 1] = box[q] /\ FirstAfter(rest, p, q - 1, i)
      BY <1>1, <1>2, <2>2, <3>1
    <3> QED BY <2>2, <3>1, <3>2
  <2> QED BY <1>1, <1>2, <2>2
<1> QED BY <1>1, <1>2, <1>3 DEF Had, rest

\* A message that says nothing about an entity can be skipped.
LEMMA HeadSkipped ==
  ASSUME NEW box \in Seq(Messages), box # <<>>, NEW i, ~About(Head(box), i)
  PROVE  /\ NoneAfter(box, 1, i) <=> NoneAfter(box, 0, i)
         /\ \A q \in DOMAIN box : FirstAfter(box, 1, q, i) <=> FirstAfter(box, 0, q, i)
<1>1. Head(box) = box[1] /\ \A q \in DOMAIN box : q \in Nat /\ (q > 0 <=> q > 1 \/ q = 1)
  BY Taken
<1>2. NoneAfter(box, 1, i) <=> NoneAfter(box, 0, i)
  BY <1>1 DEF NoneAfter
<1>3. ASSUME NEW q \in DOMAIN box
      PROVE  FirstAfter(box, 1, q, i) <=> FirstAfter(box, 0, q, i)
  BY <1>1 DEF FirstAfter
<1> QED BY <1>2, <1>3

\* A message about an entity is the first about it, and it is not true that there is none.
LEMMA HeadIsFirst ==
  ASSUME NEW box \in Seq(Messages), box # <<>>, NEW i, About(Head(box), i)
  PROVE  1 \in DOMAIN box /\ FirstAfter(box, 0, 1, i) /\ box[1] = Head(box)
<1>1. Head(box) = box[1] /\ 1 \in DOMAIN box /\ \A q \in DOMAIN box : q \in Nat
  BY Taken
<1> QED BY <1>1 DEF FirstAfter

-----------------------------------------------------------------------------
(* Accurate messages, and entities in step, when a message is sent         *)

LEMMA AccurateAppend ==
  ASSUME NEW box \in Seq(Messages), NEW m \in Messages, NEW p \in 1..Len(box),
         NEW before, NEW after, Accurate(box, before, p),
         \A i : About(m, i) => (m.type = "new" <=> before[i] = Absent),
         \A i : ~About(m, i) => after[i] = before[i]
  PROVE  /\ Accurate(Append(box, m), after, p)
         /\ HadAt(Append(box, m), after, p) = HadAt(box, before, p)
<1> DEFINE new == Append(box, m)
<1>1. new[p] = box[p] /\ p \in 0..Len(box)
  BY Appended
<1>2. \A i : Had(new, after, p, i) <=> Had(box, before, p, i)
  <2> TAKE i
  <2>1. ~About(m, i) => (after[i] = Absent <=> before[i] = Absent)
    OBVIOUS
  <2> QED BY <1>1, <2>1, HadAppend
<1>3. \A i : Lacked(new, after, p, i) <=> Lacked(box, before, p, i)
  <2> TAKE i
  <2>1. new \in Seq(Messages) /\ p \in Nat
    BY Appended
  <2> HIDE DEF new
  <2> QED BY <1>2, <2>1, HadOrLacked
<1>4. \A i : NoneAfter(new, p, i) => NoneAfter(box, p, i) /\ after[i] = before[i]
  BY <1>1, AppendFollows
<1>5. HadAt(new, after, p) = HadAt(box, before, p)
  BY <1>2 DEF HadAt
<1> HIDE DEF new
<1>6. Accurate(new, after, p)
  <2>1. /\ new[p].type \in {"new", "change"} =>
             /\ Had(new, after, p, new[p].id)
             /\ NoneAfter(new, p, new[p].id) => after[new[p].id] = new[p].version
        /\ new[p].type = "delete" => Lacked(new, after, p, new[p].id)
    BY <1>1, <1>2, <1>3, <1>4 DEF Accurate
  <2>2. new[p].type = "page" =>
          /\ new[p].count = Cardinality(HadAt(new, after, p))
          /\ DOMAIN new[p].items = PageOf(HadAt(new, after, p), new[p].request.page)
          /\ \A i \in DOMAIN new[p].items : NoneAfter(new, p, i) => after[i] = new[p].items[i]
    BY <1>1, <1>4, <1>5 DEF Accurate
  <2> QED BY <2>1, <2>2 DEF Accurate
<1> QED BY <1>5, <1>6 DEF new

LEMMA InSyncAppend ==
  ASSUME NEW box \in Seq(Messages), NEW m \in Messages, NEW i, NEW before, NEW after, NEW shown,
         InSync(box, before, shown, i),
         About(m, i) /\ m.type = "change" => before[i] # Absent,
         ~About(m, i) => after[i] = before[i]
  PROVE  InSync(Append(box, m), after, shown, i)
<1> DEFINE new == Append(box, m)
           n == Len(box)
<1>1. /\ n \in Nat /\ DOMAIN box = 1..n /\ DOMAIN new = 1..(n + 1) /\ 0 \in 0..n
      /\ \A q \in 1..n : new[q] = box[q]
      /\ new[n + 1] = m
      /\ \A q \in 1..(n + 1) : q \in 1..n \/ q = n + 1
  BY Appended
<1>2. /\ NoneAfter(new, 0, i) <=> NoneAfter(box, 0, i) /\ ~About(m, i)
      /\ \A q \in 1..n : FirstAfter(new, 0, q, i) <=> FirstAfter(box, 0, q, i)
      /\ FirstAfter(new, 0, n + 1, i) <=> NoneAfter(box, 0, i) /\ About(m, i)
  BY <1>1, AppendFollows
<1> HIDE DEF new, n
<1>3. NoneAfter(new, 0, i) => shown[i] = after[i]
  BY <1>2 DEF InSync
<1>4. ASSUME NEW q \in 1..(n + 1), FirstAfter(new, 0, q, i), new[q].type = "change"
      PROVE  shown[i] # Absent
  <2>1. CASE q \in 1..n
    BY <1>1, <1>2, <1>4, <2>1 DEF InSync
  <2>2. CASE q = n + 1
    BY <1>1, <1>2, <1>4, <2>2 DEF InSync
  <2> QED BY <1>1, <2>1, <2>2
<1> QED BY <1>1, <1>3, <1>4 DEF InSync, new

-----------------------------------------------------------------------------
(* Accurate messages, and entities in step, when a message is received     *)

LEMMA AccurateTail ==
  ASSUME NEW box \in Seq(Messages), box # <<>>, NEW p \in 1..(Len(box) - 1), NEW table,
         Accurate(box, table, p + 1)
  PROVE  Accurate(Tail(box), table, p) /\ HadAt(Tail(box), table, p) = HadAt(box, table, p + 1)
<1> DEFINE rest == Tail(box)
<1>1. rest[p] = box[p + 1] /\ p \in Nat /\ p + 1 \in Nat /\ rest \in Seq(Messages)
  BY Taken
<1>2. \A i : Had(rest, table, p, i) <=> Had(box, table, p + 1, i)
  BY <1>1, HadTail
<1>3. \A i : Lacked(rest, table, p, i) <=> Lacked(box, table, p + 1, i)
  <2> HIDE DEF rest
  <2> QED BY <1>1, <1>2, HadOrLacked
<1>4. \A i : NoneAfter(rest, p, i) <=> NoneAfter(box, p + 1, i)
  BY <1>1, TailFollows
<1>5. HadAt(rest, table, p) = HadAt(box, table, p + 1)
  BY <1>2 DEF HadAt
<1> HIDE DEF rest
<1>6. Accurate(rest, table, p)
  BY <1>1, <1>2, <1>3, <1>4, <1>5 DEF Accurate
<1> QED BY <1>5, <1>6 DEF rest

LEMMA InSyncTail ==
  ASSUME NEW box \in Seq(Messages), box # <<>>, NEW i, NEW table, NEW shown,
         NoneAfter(box, 1, i) => shown[i] = table[i],
         \A q \in DOMAIN box :
           FirstAfter(box, 1, q, i) /\ box[q].type = "change" => shown[i] # Absent
  PROVE  InSync(Tail(box), table, shown, i)
<1> DEFINE rest == Tail(box)
           n == Len(box) - 1
<1>1. /\ n \in Nat /\ DOMAIN box = 1..(n + 1) /\ DOMAIN rest = 1..n
      /\ \A q \in 1..n : rest[q] = box[q + 1] /\ q + 1 \in 1..(n + 1)
  BY Taken
<1>2. /\ NoneAfter(rest, 0, i) <=> NoneAfter(box, 1, i)
      /\ \A q \in 1..n : FirstAfter(rest, 0, q, i) <=> FirstAfter(box, 1, q + 1, i)
  BY TailFollows
<1> HIDE DEF rest, n
<1>3. ASSUME NEW q \in 1..n, FirstAfter(rest, 0, q, i), rest[q].type = "change"
      PROVE  shown[i] # Absent
  BY <1>1, <1>2, <1>3
<1> QED BY <1>1, <1>2, <1>3 DEF InSync, rest

LEMMA InSyncSkip ==
  ASSUME NEW box \in Seq(Messages), box # <<>>, NEW i, NEW table, NEW shown, NEW showing,
         ~About(Head(box), i), InSync(box, table, shown, i), showing[i] = shown[i]
  PROVE  InSync(Tail(box), table, showing, i)
<1>1. /\ NoneAfter(box, 1, i) => showing[i] = table[i]
      /\ \A q \in DOMAIN box :
           FirstAfter(box, 1, q, i) /\ box[q].type = "change" => showing[i] # Absent
  BY HeadSkipped DEF InSync
<1> QED BY <1>1, InSyncTail

LEMMA NotOutdatedTail ==
  ASSUME NEW box \in Seq(Messages), box # <<>>, NEW i, NEW table, NEW shown,
         NoneAfter(box, 1, i) => shown[i] \in {table[i], Absent}
  PROVE  NotOutdated(Tail(box), table, shown, i)
<1>1. NoneAfter(Tail(box), 0, i) <=> NoneAfter(box, 1, i)
  BY TailFollows
<1> QED BY <1>1 DEF NotOutdated

LEMMA NotOutdatedSkip ==
  ASSUME NEW box \in Seq(Messages), box # <<>>, NEW i, NEW table, NEW shown, NEW showing,
         ~About(Head(box), i), NotOutdated(box, table, shown, i), showing[i] \in {shown[i], Absent}
  PROVE  NotOutdated(Tail(box), table, showing, i)
<1>1. NoneAfter(box, 1, i) => showing[i] \in {table[i], Absent}
  BY HeadSkipped DEF NotOutdated
<1> QED BY <1>1, NotOutdatedTail

\* What is gone stays away until the core tells of it as new.
LEMMA InSyncGone ==
  ASSUME NEW box \in Seq(Messages), box # <<>>, NEW i, NEW table, NEW showing,
         Lacked(box, table, 1, i), showing[i] = Absent
  PROVE  InSync(Tail(box), table, showing, i)
<1>1. NoneAfter(box, 1, i) => table[i] = Absent
  BY NoneOrFirst DEF Lacked
<1>2. ASSUME NEW q \in DOMAIN box, FirstAfter(box, 1, q, i), box[q].type = "change"
      PROVE  FALSE
  BY <1>2, NoneOrFirst DEF Lacked
<1> QED BY <1>1, <1>2, InSyncTail

-----------------------------------------------------------------------------
(* Messages and lists                                                      *)

LEMMA MessageType ==
  ASSUME NEW m \in Messages
  PROVE  /\ m.type = "page" =>
              m \in Pages /\ m.request \in Request /\ m.count \in Nat /\ m.items \in Items
         /\ m.type = "error" => m \in Errors /\ m.request \in Request
         /\ m.type \in {"new", "change"} => m \in Updates /\ m.id \in Ids /\ m.version \in Versions
         /\ m.type = "delete" => m \in Deletions /\ m.id \in Ids
         /\ m.type \in {"page", "error", "new", "change", "delete", "reload"}
<1>1. CASE m \in Pages
  BY <1>1 DEF Pages
<1>2. CASE m \in Errors
  BY <1>2 DEF Errors
<1>3. CASE m \in Updates
  BY <1>3 DEF Updates
<1>4. CASE m \in Deletions
  BY <1>4 DEF Deletions
<1>5. CASE m \in [type : {"reload"}]
  BY <1>5
<1> QED BY <1>1, <1>2, <1>3, <1>4, <1>5 DEF Messages

LEMMA ItemsType ==
  ASSUME NEW f \in Items
  PROVE  DOMAIN f \subseteq Ids /\ \A i \in DOMAIN f : f[i] \in Versions /\ f[i] # Absent
  BY DEF Items, Versions, Absent

\* Every list of entities is finite.
LEMMA ListsAreFinite ==
  ASSUME NEW S \in SUBSET Ids
  PROVE  /\ S \in SUBSET Nat /\ IsFiniteSet(S) /\ Cardinality(S) \in Nat
         /\ \A i \in S : Rank(S, i) \in 1..Cardinality(S)
<1>1. Ids \subseteq Nat /\ IsFiniteSet(Ids)
  BY EntityStoreAssumption, FS_Interval DEF Ids
<1>2. S \in SUBSET Nat /\ IsFiniteSet(S) /\ Cardinality(S) \in Nat
  BY <1>1, FS_Subset, FS_CardinalityType
<1> QED BY <1>2, RankBounds

LEMMA PresentIsList ==
  ASSUME NEW table
  PROVE  Present(table) \in SUBSET Ids
  BY DEF Present

LEMMA HadAtIsList ==
  ASSUME NEW box, NEW table, NEW p
  PROVE  HadAt(box, table, p) \in SUBSET Ids
  BY DEF HadAt

\* With its next page a load has got what is in front of that, and with the last one everything.
LEMMA PageCovers ==
  ASSUME NEW P \in SUBSET Ids, NEW done \in Nat, NEW got, NEW gone,
         \A i \in P \ gone : Rank(P, i) <= done * PageSize => i \in got
  PROVE  /\ \A i \in P \ gone :
              Rank(P, i) <= (done + 1) * PageSize => i \in got \cup PageOf(P, done + 1)
         /\ PageOf(P, done + 1) = {} \/ done + 1 >= PageCount(Cardinality(P)) =>
              P \ gone \subseteq got \cup PageOf(P, done + 1)
<1>1. /\ P \in SUBSET Nat /\ IsFiniteSet(P)
      /\ \A i \in P : Rank(P, i) \in Nat
      /\ done * PageSize \in Nat /\ (done + 1) * PageSize \in Nat /\ done + 1 \in Nat
  <2>1. /\ P \in SUBSET Nat /\ IsFiniteSet(P)
        /\ \A i \in P : Rank(P, i) \in 1..Cardinality(P)
    BY ListsAreFinite
  <2> QED BY <2>1, PageSizeAssumption
<1>2. ASSUME NEW i \in P \ gone, i \notin got \cup PageOf(P, done + 1)
      PROVE  Rank(P, i) > done * PageSize /\ Rank(P, i) > (done + 1) * PageSize
  <2>1. Rank(P, i) > done * PageSize
    BY <1>1, <1>2
  <2> QED BY <1>1, <1>2, <2>1, NextPage
<1>3. ASSUME NEW i \in P \ gone, Rank(P, i) <= (done + 1) * PageSize
      PROVE  i \in got \cup PageOf(P, done + 1)
  BY <1>1, <1>2, <1>3
<1>4. ASSUME NEW i \in P \ gone, PageOf(P, done + 1) = {}
      PROVE  i \in got \cup PageOf(P, done + 1)
  <2>1. Rank(P, i) <= done * PageSize
    BY <1>1, <1>4, EmptyPageIsLast
  <2> QED BY <1>1, <1>2, <2>1
<1>5. ASSUME NEW i \in P \ gone, done + 1 >= PageCount(Cardinality(P))
      PROVE  i \in got \cup PageOf(P, done + 1)
  <2>1. Rank(P, i) <= (done + 1) * PageSize
    BY <1>1, <1>5, LastPageEnds
  <2> QED BY <1>3, <2>1
<1> QED BY <1>3, <1>4, <1>5

LEMMA TypeFacts ==
  ASSUME IInv
  PROVE  /\ inbox \in Seq(Messages) /\ DOMAIN inbox = 1..Len(inbox) /\ Len(inbox) \in Nat
         /\ entities \in [Ids -> {Absent, Unavailable} \cup Versions]
         /\ core \in [Ids -> {Absent} \cup Versions]
         /\ generation \in Nat /\ generation \in 0..MaxGeneration
         /\ announced \in Nat /\ announced \in 0..MaxGeneration
         /\ MaxGeneration \in Nat
         /\ requests \subseteq Request /\ waiting \subseteq Request
         /\ loaded \in [Generations -> SUBSET Ids]
         /\ \A r \in Request : /\ r.generation \in Generations /\ r.generation \in Nat
                               /\ r.page \in Nat \ {0}
  BY LenProperties, EntityStoreAssumption DEF IInv, TypeInv, TypeOK, Request, Generations

-----------------------------------------------------------------------------
(* Initial states                                                          *)

LEMMA InitIInv == Init => IInv
<1> SUFFICES ASSUME Init PROVE IInv
  OBVIOUS
<1> USE DEF Init
<1>1. inbox = <<>> /\ inbox \in Seq(Messages) /\ \A p \in DOMAIN inbox : FALSE
  <2>1. <<>> \in Seq(Messages) /\ Len(<<>>) = 0
    BY EmptySeq
  <2>2. \A p \in DOMAIN inbox : FALSE
    OBVIOUS
  <2> QED BY <2>1, <2>2
<1>2. TypeOK
  <2>1. core \in [Ids -> {Absent} \cup Versions]
    <3>1. 1 \in Versions
      BY EntityStoreAssumption DEF Versions
    <3> QED BY <3>1
  <2>2. /\ version \in 0..MaxVersion
        /\ generation \in 0..MaxGeneration /\ announced \in 0..MaxGeneration
    BY EntityStoreAssumption
  <2>3. entities \in [Ids -> {Absent, Unavailable} \cup Versions]
    OBVIOUS
  <2>4. loaded \in [Generations -> SUBSET Ids]
    OBVIOUS
  <2> QED BY <2>1, <2>2, <2>3, <2>4 DEF TypeOK
<1>3. LinkInv /\ InboxInv /\ SyncInv
  BY <1>1 DEF LinkInv, InboxInv, SyncInv
<1>4. RequestsInv /\ CoverInv
  BY <1>1 DEF RequestsInv, CoverInv, Generations
<1> QED BY <1>1, <1>2, <1>3, <1>4 DEF IInv, TypeInv

-----------------------------------------------------------------------------
(* Steps of the core                                                       *)

\* What the messages on their way say stays true when the core sends one that is.
LEMMA InboxSent ==
  ASSUME TypeInv, InboxInv, LinkInv, NEW m \in Messages,
         connected => Accurate(Append(inbox, m), core', Len(inbox) + 1),
         Deliver(m),
         \A i : About(m, i) => (m.type = "new" <=> core[i] = Absent),
         \A i : ~About(m, i) => core'[i] = core[i]
  PROVE  /\ InboxInv' /\ inbox' \in Seq(Messages) /\ (~connected => inbox' = <<>>)
         /\ \A p \in DOMAIN inbox : p \in DOMAIN inbox' /\ inbox'[p] = inbox[p]
                                    /\ HadAt(inbox', core', p) = HadAt(inbox, core, p)
         /\ \A p \in DOMAIN inbox' : p \in DOMAIN inbox \/ (connected /\ p = Len(inbox) + 1
                                                             /\ inbox'[p] = m)
<1>0. inbox \in Seq(Messages)
  BY DEF TypeInv
<1>1. CASE ~connected
  <2>1. inbox = <<>> /\ inbox' = inbox /\ \A p \in DOMAIN inbox : FALSE
    BY <1>1 DEF LinkInv, Deliver
  <2> QED BY <1>0, <1>1, <2>1 DEF InboxInv
<1>2. CASE connected
  <2> DEFINE n == Len(inbox)
  <2>1. /\ inbox' = Append(inbox, m) /\ n \in Nat
        /\ DOMAIN inbox = 1..n /\ DOMAIN inbox' = 1..(n + 1)
        /\ inbox' \in Seq(Messages) /\ inbox'[n + 1] = m
        /\ \A p \in 1..n : inbox'[p] = inbox[p]
    BY <1>0, <1>2, Appended DEF Deliver
  <2>2. ASSUME NEW p \in 1..n
        PROVE  Accurate(inbox', core', p) /\ HadAt(inbox', core', p) = HadAt(inbox, core, p)
    <3>1. Accurate(inbox, core, p)
      BY <2>1 DEF InboxInv
    <3>2. p \in 1..Len(inbox)
      OBVIOUS
    <3> HIDE DEF n
    <3> QED BY <1>0, <2>1, <3>1, <3>2, AccurateAppend
  <2>3. Accurate(inbox', core', n + 1)
    BY <1>2, <2>1
  <2> HIDE DEF n
  <2>4. \A p \in 1..(n + 1) : p \in 1..n \/ p = n + 1
    BY <2>1
  <2>5. InboxInv'
    BY <2>1, <2>2, <2>3, <2>4 DEF InboxInv
  <2>6. 1..n \subseteq 1..(n + 1)
    BY <2>1
  <2> QED BY <1>2, <2>1, <2>2, <2>4, <2>5, <2>6 DEF n
<1> QED BY <1>1, <1>2

(***************************************************************************)
(* A message of the core: an event of a change, or the answer to a request *)
(* that is as it was for the UI.                                           *)
(***************************************************************************)
Sends(m) ==
  /\ Deliver(m)
  /\ requests' \subseteq requests
  /\ m.type = "page" => m.request \in requests \ requests' /\ core' = core
  /\ \A i : About(m, i) => (m.type = "new" <=> core[i] = Absent)
  /\ \A i : ~About(m, i) => core'[i] = core[i]
  /\ displaced \subseteq displaced'
  /\ UNCHANGED <<connected, entities, generation, loaded, waiting, announced, failed>>

\* No page of the load is handed out, and what gets in front of those that are is noted.
HandsOutNothing(m) ==
  /\ handedOut' = handedOut
  /\ \A i \in Ids \ displaced' : InFront(core, i)' => InFront(core, i)
  /\ m.type = "page" => ~(m.request \in waiting /\ Current(m.request))

\* The messages that were on their way, and the one that was sent.
LEMMA BoxSent ==
  ASSUME IInv, NEW m \in Messages, Sends(m),
         connected => Accurate(Append(inbox, m), core', Len(inbox) + 1)
  PROVE  \A p \in DOMAIN inbox' :
           \/ /\ p \in DOMAIN inbox /\ inbox'[p] = inbox[p]
              /\ HadAt(inbox', core', p) = HadAt(inbox, core, p)
           \/ connected /\ p = Len(inbox) + 1 /\ inbox'[p] = m
<1>1. InboxInv /\ LinkInv /\ TypeInv /\ Deliver(m)
  BY DEF IInv, Sends
<1> QED BY <1>1, InboxSent DEF Sends

LEMMA CoverSent ==
  ASSUME IInv, NEW m \in Messages, Sends(m), HandsOutNothing(m),
         connected => Accurate(Append(inbox, m), core', Len(inbox) + 1)
  PROVE  CoverInv'
<1>1. /\ waiting' = waiting /\ generation' = generation /\ loaded' = loaded
      /\ requests' \subseteq requests /\ handedOut' = handedOut
      /\ displaced \subseteq displaced'
      /\ m.type = "page" => m.request \in requests \ requests'
      /\ m.type = "page" => ~(m.request \in waiting /\ Current(m.request))
  BY DEF Sends, HandsOutNothing
<1>2. \A p \in DOMAIN inbox' :
        \/ /\ p \in DOMAIN inbox /\ inbox'[p] = inbox[p]
           /\ HadAt(inbox', core', p) = HadAt(inbox, core, p)
        \/ inbox'[p] = m
  BY BoxSent
<1>3. \A got : Covered(got) =>
        \A i \in Ids \ displaced' : InFront(core, i)' => i \in got
  BY <1>1 DEF Covered, HandsOutNothing
<1>4. \A r \in requests' : r.generation = generation =>
        \A p \in DOMAIN inbox' : inbox'[p].type = "page" => inbox'[p].request # r
  BY <1>1, <1>2 DEF IInv, CoverInv, Current
<1>5. \A r \in requests' \cap waiting : r.generation = generation =>
        r.page = handedOut + 1 /\ Covered(loaded[generation])
  BY <1>1 DEF IInv, CoverInv, Current
<1>6. ASSUME NEW p \in DOMAIN inbox', inbox'[p].type = "page", inbox'[p].request \in waiting,
             inbox'[p].request.generation = generation
      PROVE  /\ HasNext(inbox'[p]) =>
                  /\ handedOut = inbox'[p].request.page
                  /\ Covered(loaded[generation] \cup DOMAIN inbox'[p].items)
             /\ ~HasNext(inbox'[p]) =>
                  HadAt(inbox', core', p) \ displaced
                    \subseteq loaded[generation] \cup DOMAIN inbox'[p].items
  <2>1. /\ p \in DOMAIN inbox /\ inbox'[p] = inbox[p]
        /\ HadAt(inbox', core', p) = HadAt(inbox, core, p)
    BY <1>1, <1>2, <1>6 DEF Current
  <2> QED BY <1>6, <2>1 DEF IInv, CoverInv, Current
<1>7. \A p \in DOMAIN inbox' :
        inbox'[p].type = "page" /\ inbox'[p].request \in waiting
        /\ inbox'[p].request.generation = generation =>
          HadAt(inbox', core', p) \ displaced' \subseteq HadAt(inbox', core', p) \ displaced
  BY <1>1
<1> QED BY <1>1, <1>3, <1>4, <1>5, <1>6, <1>7 DEF CoverInv, Covered, Current, HasNext

LEMMA RequestsSent ==
  ASSUME IInv, NEW m \in Messages, Sends(m),
         connected => Accurate(Append(inbox, m), core', Len(inbox) + 1)
  PROVE  RequestsInv'
<1>1. /\ waiting' = waiting /\ generation' = generation /\ loaded' = loaded
      /\ announced' = announced /\ requests' \subseteq requests
      /\ m.type = "page" => m.request \in requests
  BY DEF Sends
<1>2. \A p \in DOMAIN inbox' : (p \in DOMAIN inbox /\ inbox'[p] = inbox[p]) \/ inbox'[p] = m
  <2>1. InboxInv /\ LinkInv /\ TypeInv /\ Deliver(m)
    BY DEF IInv, Sends
  <2> QED BY <2>1, InboxSent DEF Sends
<1>3. /\ \A r \in requests \cup waiting : r.generation <= generation
      /\ \A p \in DOMAIN inbox :
           inbox[p].type = "page" => inbox[p].request.generation <= generation
      /\ announced <= generation
      /\ \A g \in Generations : g > generation => loaded[g] = {}
  BY DEF IInv, RequestsInv
<1>4. \A r \in waiting : Current(r) =>
        /\ \A s \in requests \cup waiting : Current(s) => s.page <= r.page
        /\ \A p \in DOMAIN inbox :
             inbox[p].type = "page" /\ Current(inbox[p].request) => inbox[p].request.page <= r.page
  BY DEF IInv, RequestsInv
<1>5. \A p \in DOMAIN inbox' :
        inbox'[p].type = "page" => inbox'[p].request.generation <= generation
  BY <1>1, <1>2, <1>3
<1>6. ASSUME NEW r \in waiting, r.generation = generation
      PROVE  /\ \A s \in requests' \cup waiting : s.generation = generation => s.page <= r.page
             /\ \A p \in DOMAIN inbox' :
                  inbox'[p].type = "page" /\ inbox'[p].request.generation = generation =>
                    inbox'[p].request.page <= r.page
  <2>1. \A s \in requests' \cup waiting : s.generation = generation => s.page <= r.page
    BY <1>1, <1>4, <1>6 DEF Current
  <2>2. ASSUME NEW p \in DOMAIN inbox', inbox'[p].type = "page",
               inbox'[p].request.generation = generation
        PROVE  inbox'[p].request.page <= r.page
    <3>1. CASE p \in DOMAIN inbox /\ inbox'[p] = inbox[p]
      BY <1>4, <1>6, <2>2, <3>1 DEF Current
    <3>2. CASE inbox'[p] = m
      BY <1>1, <1>4, <1>6, <2>2, <3>2 DEF Current
    <3> QED BY <1>2, <3>1, <3>2
  <2> QED BY <2>1, <2>2
<1> QED BY <1>1, <1>3, <1>5, <1>6 DEF RequestsInv, Current

LEMMA SyncSent ==
  ASSUME IInv, NEW m \in Messages, Sends(m)
  PROVE  SyncInv'
<1>1. /\ connected' = connected /\ entities' = entities /\ generation' = generation
      /\ loaded' = loaded /\ announced' = announced /\ failed' = failed
      /\ displaced \subseteq displaced'
  BY DEF Sends
<1>2. CASE ~connected
  BY <1>1, <1>2 DEF SyncInv
<1>3. CASE connected
  <2>1. inbox \in Seq(Messages) /\ inbox' = Append(inbox, m)
    BY <1>3 DEF IInv, TypeInv, Sends, Deliver
  <2>2. ASSUME NEW i, InSync(inbox, core, entities, i)
        PROVE  InSync(inbox', core', entities, i)
    <3>1. About(m, i) /\ m.type = "change" => core[i] # Absent
      BY DEF Sends
    <3>2. ~About(m, i) => core'[i] = core[i]
      BY DEF Sends
    <3> QED BY <2>1, <2>2, <3>1, <3>2, InSyncAppend
  <2>3. ASSUME NEW i, NotOutdated(inbox, core, entities, i)
        PROVE  NotOutdated(inbox', core', entities, i)
    <3>1. NoneAfter(inbox', 0, i) => NoneAfter(inbox, 0, i) /\ ~About(m, i)
      <4>1. 0 \in 0..Len(inbox)
        BY <2>1, LenProperties
      <4> QED BY <2>1, <4>1, AppendFollows
    <3>2. ~About(m, i) => core'[i] = core[i]
      BY DEF Sends
    <3> QED BY <2>3, <3>1, <3>2 DEF NotOutdated
  <2>4. /\ \A i \in loaded[generation] : InSync(inbox, core, entities, i)
        /\ announced = generation /\ ~failed =>
             /\ \A i \in Ids \ displaced : InSync(inbox, core, entities, i)
             /\ \A i \in Ids : NotOutdated(inbox, core, entities, i)
    BY <1>3 DEF IInv, SyncInv
  <2> QED BY <1>1, <2>2, <2>3, <2>4 DEF SyncInv
<1> QED BY <1>2, <1>3

LEMMA Sent ==
  ASSUME IInv, NEW m \in Messages, Sends(m), CoverInv',
         connected => Accurate(Append(inbox, m), core', Len(inbox) + 1),
         core' \in [Ids -> {Absent} \cup Versions], version' \in 0..MaxVersion,
         handedOut' \in Nat, displaced' \subseteq Ids
  PROVE  IInv'
<1>1. InboxInv /\ LinkInv /\ TypeInv /\ Deliver(m)
  BY DEF IInv, Sends
<1>2. InboxInv' /\ inbox' \in Seq(Messages) /\ (~connected => inbox' = <<>>)
  BY <1>1, InboxSent DEF Sends
<1>3. TypeInv'
  BY <1>1, <1>2 DEF TypeInv, TypeOK, Sends
<1>4. LinkInv'
  BY <1>1, <1>2 DEF LinkInv, Sends
<1> QED BY <1>2, <1>3, <1>4, RequestsSent, SyncSent DEF IInv

\* A message at the end says what the core has now.
LEMMA AccurateAtEnd ==
  ASSUME NEW box \in Seq(Messages), NEW m \in Messages, NEW table,
         m.type \in {"new", "change"} => table[m.id] = m.version /\ table[m.id] # Absent,
         m.type = "delete" => table[m.id] = Absent,
         m.type = "page" =>
           /\ m.count = Cardinality(Present(table))
           /\ DOMAIN m.items = PageOf(Present(table), m.request.page)
           /\ \A i \in DOMAIN m.items : table[i] = m.items[i]
  PROVE  Accurate(Append(box, m), table, Len(box) + 1)
<1> DEFINE new == Append(box, m)
           n == Len(box) + 1
<1>1. new \in Seq(Messages) /\ Len(new) = n /\ new[n] = m /\ n \in Nat
  BY Appended
<1> HIDE DEF new, n
<1>2. \A i : Had(new, table, n, i) <=> table[i] # Absent
  BY <1>1, HadAtEnd
<1>3. \A i : Lacked(new, table, n, i) <=> table[i] = Absent
  BY <1>1, <1>2, HadOrLacked
<1>4. HadAt(new, table, n) = Present(table)
  BY <1>2 DEF HadAt, Present
<1>5. Accurate(new, table, n)
  <2>1. /\ m.type \in {"new", "change"} => Had(new, table, n, m.id) /\ table[m.id] = m.version
        /\ m.type = "delete" => Lacked(new, table, n, m.id)
    BY <1>2, <1>3
  <2>2. m.type = "page" =>
          /\ m.count = Cardinality(HadAt(new, table, n))
          /\ DOMAIN m.items = PageOf(HadAt(new, table, n), m.request.page)
          /\ \A i \in DOMAIN m.items : table[i] = m.items[i]
    BY <1>4
  <2> QED BY <1>1, <2>1, <2>2 DEF Accurate
<1> QED BY <1>5 DEF new, n

\* A change notes what gets in front of the pages handed out.
LEMMA DisplacedNoted ==
  ASSUME NoteDisplaced, UNCHANGED handedOut
  PROVE  \A i \in Ids \ displaced' : InFront(core, i)' => InFront(core, i)
<1>1. \A i : InFront(core, i)' <=> InFront(core', i)
  BY DEF InFront, Present, Rank
<1> QED BY <1>1 DEF NoteDisplaced

LEMMA StepCoreSetsEntity ==
  ASSUME IInv, NEW i \in Ids, CoreSetsEntity(i)
  PROVE  IInv'
<1> DEFINE m == [type |-> IF core[i] = Absent THEN "new" ELSE "change", id |-> i,
                 version |-> version + 1]
<1>1. /\ inbox \in Seq(Messages) /\ core \in [Ids -> {Absent} \cup Versions]
      /\ version \in 0..MaxVersion /\ MaxVersion \in Nat
      /\ handedOut \in Nat /\ displaced \subseteq Ids
  BY EntityStoreAssumption DEF IInv, TypeInv, TypeOK
<1>2. /\ version + 1 \in Versions /\ version' = version + 1 /\ version' \in 0..MaxVersion
      /\ version + 1 # Absent
  BY <1>1 DEF CoreSetsEntity, Versions, Absent
<1>3. /\ core' = [core EXCEPT ![i] = version + 1] /\ core'[i] = version + 1
      /\ core' \in [Ids -> {Absent} \cup Versions]
      /\ \A j : j # i => core'[j] = core[j]
  BY <1>1, <1>2 DEF CoreSetsEntity
<1>4. /\ m.type \in {"new", "change"} /\ m.id = i /\ m.version = version + 1
      /\ m.type = "new" <=> core[i] = Absent
      /\ \A j : About(m, j) <=> j = i
  BY DEF About
<1>5. m \in Messages
  BY <1>2 DEF Messages, Updates
<1>6. /\ Deliver(m) /\ NoteDisplaced
      /\ UNCHANGED <<connected, requests, entities, generation, loaded, waiting, announced, failed,
                     handedOut>>
  BY DEF CoreSetsEntity
<1> HIDE DEF m
<1>7. displaced \subseteq displaced' /\ displaced' \subseteq Ids /\ handedOut' \in Nat
  BY <1>1, <1>6 DEF NoteDisplaced
<1>8. Sends(m)
  BY <1>3, <1>4, <1>6, <1>7 DEF Sends
<1>9. HandsOutNothing(m)
  BY <1>4, <1>6, DisplacedNoted DEF HandsOutNothing
<1>10. Accurate(Append(inbox, m), core', Len(inbox) + 1)
  BY <1>1, <1>2, <1>3, <1>4, <1>5, AccurateAtEnd
<1> QED BY <1>2, <1>3, <1>5, <1>7, <1>8, <1>9, <1>10, CoverSent, Sent

LEMMA StepCoreDeletesEntity ==
  ASSUME IInv, NEW i \in Ids, CoreDeletesEntity(i)
  PROVE  IInv'
<1> DEFINE m == [type |-> "delete", id |-> i]
<1>1. /\ inbox \in Seq(Messages) /\ core \in [Ids -> {Absent} \cup Versions]
      /\ version \in 0..MaxVersion /\ MaxVersion \in Nat
      /\ handedOut \in Nat /\ displaced \subseteq Ids
  BY EntityStoreAssumption DEF IInv, TypeInv, TypeOK
<1>2. version' \in 0..MaxVersion /\ core[i] # Absent
  BY <1>1 DEF CoreDeletesEntity
<1>3. /\ core' = [core EXCEPT ![i] = Absent] /\ core'[i] = Absent
      /\ core' \in [Ids -> {Absent} \cup Versions]
      /\ \A j : j # i => core'[j] = core[j]
  BY <1>1 DEF CoreDeletesEntity
<1>4. m.type = "delete" /\ m.id = i /\ (\A j : About(m, j) <=> j = i) /\ m \in Messages
  BY DEF About, Messages, Deletions
<1>5. /\ Deliver(m) /\ NoteDisplaced
      /\ UNCHANGED <<connected, requests, entities, generation, loaded, waiting, announced, failed,
                     handedOut>>
  BY DEF CoreDeletesEntity
<1> HIDE DEF m
<1>6. displaced \subseteq displaced' /\ displaced' \subseteq Ids /\ handedOut' \in Nat
  BY <1>1, <1>5 DEF NoteDisplaced
<1>7. Sends(m)
  BY <1>2, <1>3, <1>4, <1>5, <1>6 DEF Sends
<1>8. HandsOutNothing(m)
  BY <1>4, <1>5, DisplacedNoted DEF HandsOutNothing
<1>9. Accurate(Append(inbox, m), core', Len(inbox) + 1)
  BY <1>1, <1>3, <1>4, AccurateAtEnd
<1> QED BY <1>2, <1>3, <1>4, <1>6, <1>7, <1>8, <1>9, CoverSent, Sent

LEMMA StepCoreAsksReload ==
  ASSUME IInv, CoreAsksReload
  PROVE  IInv'
<1> DEFINE m == [type |-> "reload"]
<1>1. /\ inbox \in Seq(Messages) /\ core' \in [Ids -> {Absent} \cup Versions]
      /\ version \in 0..MaxVersion /\ MaxVersion \in Nat
      /\ handedOut' \in Nat /\ displaced' \subseteq Ids
      /\ UNCHANGED <<core, handedOut, displaced>>
  BY EntityStoreAssumption DEF IInv, TypeInv, TypeOK, CoreAsksReload
<1>2. version' \in 0..MaxVersion
  BY <1>1 DEF CoreAsksReload
<1>3. m.type = "reload" /\ (\A j : ~About(m, j)) /\ m \in Messages
  BY DEF About, Messages
<1>4. Deliver(m)
  BY DEF CoreAsksReload
<1> HIDE DEF m
<1>5. Sends(m)
  BY <1>3, <1>4 DEF Sends, CoreAsksReload
<1>6. Accurate(Append(inbox, m), core', Len(inbox) + 1)
  BY <1>1, <1>3, AccurateAtEnd
<1>7. HandsOutNothing(m)
  <2>1. \A i : InFront(core, i)' <=> InFront(core, i)
    BY <1>1 DEF InFront, Present, Rank
  <2> QED BY <1>1, <1>3, <2>1 DEF HandsOutNothing
<1> QED BY <1>1, <1>2, <1>3, <1>5, <1>6, <1>7, CoverSent, Sent

\* The page of a load is the one behind those handed out, and keeps what is in front covered.
LEMMA CoverHandedOut ==
  ASSUME IInv, NEW r \in requests, r \in waiting, Current(r), connected,
         CoreSendsPage(r), core' = core, displaced' = displaced, requests' = requests \ {r},
         PageAnswer(r) \in Messages, Sends(PageAnswer(r)),
         Accurate(Append(inbox, PageAnswer(r)), core', Len(inbox) + 1)
  PROVE  CoverInv'
<1> DEFINE m == PageAnswer(r)
           P == Present(core)
           got == loaded[generation] \cup DOMAIN m.items
<1>1. /\ waiting' = waiting /\ generation' = generation /\ loaded' = loaded
      /\ core' = core /\ displaced' = displaced /\ requests' = requests \ {r}
      /\ inbox' = Append(inbox, m) /\ r.generation = generation
      /\ handedOut' = IF HasNext(m) THEN r.page ELSE 0
  BY DEF Sends, CoreSendsPage, Current
<1>2. /\ m.type = "page" /\ m.request = r /\ m.count = Cardinality(P)
      /\ DOMAIN m.items = PageOf(P, r.page)
  BY DEF PageAnswer
<1>3. /\ r \in Request /\ r.page \in Nat \ {0} /\ handedOut \in Nat /\ r.page = handedOut + 1
      /\ Covered(loaded[generation])
  BY TypeFacts DEF IInv, TypeInv, TypeOK, CoverInv
<1>4. P \in SUBSET Ids /\ PageCount(Cardinality(P)) \in Nat
  BY PresentIsList, ListsAreFinite, PagesSuffice
<1> HIDE DEF m
<1>5. HasNext(m) <=> ~(PageOf(P, r.page) = {} \/ r.page >= PageCount(Cardinality(P)))
  BY <1>2, <1>3, <1>4 DEF HasNext
<1>6. \A i \in P \ displaced : Rank(P, i) <= handedOut * PageSize => i \in loaded[generation]
  BY <1>3 DEF Covered, InFront, Present
<1>7. /\ \A i \in P \ displaced : Rank(P, i) <= r.page * PageSize => i \in got
      /\ ~HasNext(m) => P \ displaced \subseteq got
  <2> HIDE DEF P
  <2>1. /\ \A i \in P \ displaced : Rank(P, i) <= (handedOut + 1) * PageSize =>
             i \in loaded[generation] \cup PageOf(P, handedOut + 1)
        /\ PageOf(P, handedOut + 1) = {} \/ handedOut + 1 >= PageCount(Cardinality(P)) =>
             P \ displaced \subseteq loaded[generation] \cup PageOf(P, handedOut + 1)
    BY <1>3, <1>4, <1>6, PageCovers
  <2> QED BY <1>2, <1>3, <1>5, <2>1
<1>8. \A s \in waiting : s.generation = generation => s = r
  <2>1. ASSUME NEW s \in waiting, s.generation = generation
        PROVE  s = r
    <3>1. s.page <= r.page /\ r.page <= s.page
      BY <1>1, <2>1 DEF IInv, RequestsInv, Current
    <3>2. s \in Request /\ s.page \in Nat
      BY TypeFacts
    <3> QED BY <1>1, <1>3, <2>1, <3>1, <3>2 DEF Request
  <2> QED BY <2>1
<1>9. \A p \in DOMAIN inbox : inbox[p].type = "page" => inbox[p].request # r
  BY DEF IInv, CoverInv
<1>10. \A p \in DOMAIN inbox' :
         \/ p \in DOMAIN inbox /\ inbox'[p] = inbox[p]
         \/ p = Len(inbox) + 1 /\ inbox'[p] = m
  BY BoxSent DEF m
<1>11. \A s \in requests' : s.generation = generation =>
         \A p \in DOMAIN inbox' : inbox'[p].type = "page" => inbox'[p].request # s
  BY <1>1, <1>2, <1>10 DEF IInv, CoverInv, Current
<1>12. ~\E s \in requests' \cap waiting : s.generation = generation
  BY <1>1, <1>8
<1>13. ASSUME NEW p \in DOMAIN inbox', inbox'[p].type = "page", inbox'[p].request \in waiting,
              inbox'[p].request.generation = generation
       PROVE  /\ inbox'[p] = m
              /\ HadAt(inbox', core', p) = P
  <2>1. p = Len(inbox) + 1 /\ inbox'[p] = m
    BY <1>8, <1>9, <1>10, <1>13
  <2>2. inbox' \in Seq(Messages) /\ Len(inbox') = p
    BY <1>1, <2>1, Appended, TypeFacts DEF m
  <2>3. \A i : Had(inbox', core', p, i) <=> core'[i] # Absent
    BY <2>2, HadAtEnd
  <2> QED BY <1>1, <2>1, <2>3 DEF HadAt, Present, P
<1>14. HasNext(m) => \A i \in Ids \ displaced : InFront(core, i)' => i \in got
  <2>1. \A i : InFront(core, i)' <=> i \in P /\ Rank(P, i) <= handedOut' * PageSize
    BY <1>1 DEF InFront, Present, Rank, P
  <2> QED BY <1>1, <1>7, <2>1
<1> HIDE DEF got, P
<1>15. \A p \in DOMAIN inbox' :
         inbox'[p].type = "page" /\ inbox'[p].request \in waiting
         /\ inbox'[p].request.generation = generation =>
           /\ HasNext(inbox'[p]) =>
                /\ handedOut' = inbox'[p].request.page
                /\ \A i \in Ids \ displaced : InFront(core, i)' =>
                     i \in loaded[generation] \cup DOMAIN inbox'[p].items
           /\ ~HasNext(inbox'[p]) =>
                HadAt(inbox', core', p) \ displaced
                  \subseteq loaded[generation] \cup DOMAIN inbox'[p].items
  BY <1>1, <1>2, <1>7, <1>13, <1>14 DEF got
<1> QED BY <1>1, <1>11, <1>12, <1>15 DEF CoverInv, Covered, Current, HasNext

LEMMA StepCoreAnswers ==
  ASSUME IInv, NEW r \in requests, CoreAnswers(r)
  PROVE  IInv'
<1>1. /\ inbox \in Seq(Messages) /\ core \in [Ids -> {Absent} \cup Versions]
      /\ version' \in 0..MaxVersion /\ handedOut \in Nat /\ displaced' \subseteq Ids
      /\ r \in Request /\ r.page \in Nat /\ connected
  BY DEF IInv, TypeInv, TypeOK, LinkInv, CoreAnswers, Request
<1>2. /\ UNCHANGED <<core, version, connected, entities, generation, loaded, waiting, announced,
                     failed, displaced>>
      /\ requests' = requests \ {r}
  BY DEF CoreAnswers
<1>3. \A i : handedOut' = handedOut => (InFront(core, i)' <=> InFront(core, i))
  BY <1>2 DEF InFront, Present, Rank
<1>4. CASE CoreSendsPage(r)
  <2> DEFINE m == PageAnswer(r)
             P == Present(core)
  <2>1. m.type = "page" /\ m.request = r /\ m.count = Cardinality(P) /\ \A j : ~About(m, j)
    BY DEF PageAnswer, About
  <2>2. DOMAIN m.items = PageOf(P, r.page) /\ \A j \in DOMAIN m.items : m.items[j] = core[j]
    BY DEF PageAnswer
  <2>3. m \in Messages
    <3>1. P \in SUBSET Ids /\ Cardinality(P) \in Nat
      BY PresentIsList, ListsAreFinite
    <3>2. PageOf(P, r.page) \in SUBSET Ids
      BY <3>1 DEF PageOf
    <3>3. \A j \in PageOf(P, r.page) : core[j] \in Versions
      BY <1>1 DEF PageOf, Present
    <3>4. [j \in PageOf(P, r.page) |-> core[j]] \in Items
      BY <3>2, <3>3 DEF Items
    <3>5. m \in Pages
      BY <1>1, <3>1, <3>4 DEF PageAnswer, Pages
    <3> QED BY <3>5 DEF Messages
  <2>4. Deliver(m) /\ handedOut' \in Nat
    BY <1>1, <1>4 DEF Deliver, CoreSendsPage
  <2> HIDE DEF m
  <2>5. Sends(m)
    BY <1>2, <2>1, <2>4 DEF Sends
  <2>6. Accurate(Append(inbox, m), core', Len(inbox) + 1)
    BY <1>1, <1>2, <2>1, <2>2, <2>3, AccurateAtEnd
  <2>7. CASE r \in waiting /\ Current(r)
    <3>1. CoverInv'
      BY <1>1, <1>2, <1>4, <2>3, <2>5, <2>6, <2>7, CoverHandedOut DEF m
    <3> QED BY <1>1, <1>2, <2>3, <2>4, <2>5, <2>6, <3>1, Sent
  <2>8. CASE ~(r \in waiting /\ Current(r))
    <3>1. handedOut' = handedOut
      BY <1>4, <2>8 DEF CoreSendsPage, Current
    <3>2. HandsOutNothing(m)
      BY <1>2, <1>3, <2>1, <2>8, <3>1 DEF HandsOutNothing
    <3> QED BY <1>1, <1>2, <2>3, <2>4, <2>5, <2>6, <3>2, CoverSent, Sent
  <2> QED BY <2>7, <2>8
<1>5. CASE CoreFailsPage(r)
  <2> DEFINE m == [type |-> "error", request |-> r]
  <2>1. m.type = "error" /\ (\A j : ~About(m, j)) /\ m \in Messages
    BY <1>1 DEF About, Messages, Errors
  <2>2. Deliver(m) /\ handedOut' = handedOut
    BY <1>1, <1>5 DEF Deliver, CoreFailsPage
  <2> HIDE DEF m
  <2>3. Sends(m)
    BY <1>2, <2>1, <2>2 DEF Sends
  <2>4. Accurate(Append(inbox, m), core', Len(inbox) + 1)
    BY <1>1, <2>1, AccurateAtEnd
  <2>5. HandsOutNothing(m)
    BY <1>2, <1>3, <2>1, <2>2 DEF HandsOutNothing
  <2> QED BY <1>1, <1>2, <2>1, <2>2, <2>3, <2>4, <2>5, CoverSent, Sent
<1> QED BY <1>4, <1>5 DEF CoreAnswers

-----------------------------------------------------------------------------
(* Loads are started and cut short                                         *)

\* A new load leaves no request of another one current.
LEMMA LoadStarted ==
  ASSUME IInv, StartLoad, generation < MaxGeneration,
         UNCHANGED <<core, version, entities, loaded, announced>>, connected' = TRUE,
         InboxInv', inbox' \in Seq(Messages),
         \A p \in DOMAIN inbox' : \E q \in DOMAIN inbox : inbox'[p] = inbox[q]
  PROVE  IInv'
<1> DEFINE g == generation + 1
           new == [page |-> 1, generation |-> g]
<1>1. /\ generation' = g /\ requests' = requests \cup {new} /\ waiting' = waiting \cup {new}
      /\ failed' = FALSE /\ handedOut' = 0 /\ displaced' = {}
      /\ core' = core /\ loaded' = loaded /\ announced' = announced /\ entities' = entities
      /\ version' = version
  BY DEF StartLoad, LoadPage
<1>2. /\ generation \in Nat /\ g \in Generations /\ g \in 0..MaxGeneration /\ g > generation
      /\ announced \in 0..MaxGeneration /\ announced <= generation
      /\ requests \subseteq Request /\ waiting \subseteq Request
      /\ loaded \in [Generations -> SUBSET Ids]
      /\ \A r \in requests \cup waiting : r.generation <= generation /\ r.generation \in Nat
      /\ \A p \in DOMAIN inbox :
           inbox[p].type = "page" =>
             inbox[p].request.generation <= generation /\ inbox[p].request.generation \in Nat
  <2>1. \A p \in DOMAIN inbox : inbox[p].type = "page" => inbox[p].request \in Request
    <3> TAKE p \in DOMAIN inbox
    <3>1. inbox[p] \in Messages
      BY TypeFacts, ElementOfSeq
    <3> QED BY <3>1, MessageType
  <2> QED BY <2>1, TypeFacts DEF IInv, RequestsInv, Generations
<1>3. /\ new \in Request /\ new.generation = g /\ new.page = 1
  BY <1>2 DEF Request
<1>4. \A r \in waiting' : r.generation = g <=> r = new
  BY <1>1, <1>2, <1>3
<1>5. \A p \in DOMAIN inbox' :
        inbox'[p].type = "page" =>
          inbox'[p].request.generation <= generation /\ inbox'[p].request.generation # g
          /\ inbox'[p].request.generation <= g
  BY <1>2
<1> HIDE DEF new, g
<1>6. TypeInv'
  BY <1>1, <1>2, <1>3 DEF IInv, TypeInv, TypeOK
<1>7. LinkInv'
  BY <1>1, <1>2 DEF LinkInv
<1>8. RequestsInv'
  <2>1. \A r \in requests' \cup waiting' : r.generation <= g
    BY <1>1, <1>2, <1>3
  <2>2. announced <= g
    BY <1>2
  <2>3. \A h \in Generations : h > g => loaded[h] = {}
    <3>1. \A h \in Generations : h > generation => loaded[h] = {}
      BY DEF IInv, RequestsInv
    <3> QED BY <1>2, <3>1 DEF Generations
  <2>4. \A s \in requests' \cup waiting' : s.generation = g => s = new
    BY <1>1, <1>2, <1>3
  <2>5. ASSUME NEW r \in waiting', r.generation = g
        PROVE  /\ \A s \in requests' \cup waiting' : s.generation = g => s.page <= r.page
               /\ \A p \in DOMAIN inbox' :
                    inbox'[p].type = "page" /\ inbox'[p].request.generation = g =>
                      inbox'[p].request.page <= r.page
    BY <1>3, <1>4, <1>5, <2>4, <2>5
  <2> QED BY <1>1, <1>5, <2>1, <2>2, <2>3, <2>5 DEF RequestsInv, Current
<1>9. CoverInv'
  <2>1. \A r \in requests' \cup waiting' : r.generation = g => r.page = handedOut' + 1
    BY <1>1, <1>2, <1>3
  <2>2. \A i : ~InFront(core, i)'
    <3>1. \A i \in Present(core) : Rank(Present(core), i) \in Nat \ {0}
      <4>1. \A i \in Present(core) : Rank(Present(core), i) \in 1..Cardinality(Present(core))
        BY PresentIsList, ListsAreFinite
      <4>2. Cardinality(Present(core)) \in Nat
        BY PresentIsList, ListsAreFinite
      <4> QED BY <4>1, <4>2
    <3>2. \A i : InFront(core, i)' => i \in Present(core) /\ Rank(Present(core), i) <= 0 * PageSize
      BY <1>1 DEF InFront, Present, Rank
    <3> QED BY <3>1, <3>2, PageSizeAssumption
  <2>3. \A p \in DOMAIN inbox' :
          ~(inbox'[p].type = "page" /\ inbox'[p].request.generation = g)
    BY <1>5
  <2> QED BY <1>1, <2>1, <2>2, <2>3 DEF CoverInv, Covered, Current
<1>10. SyncInv'
  <2>1. loaded[g] = {}
    BY <1>2 DEF IInv, RequestsInv
  <2>2. announced # g
    BY <1>2
  <2> QED BY <1>1, <2>1, <2>2 DEF SyncInv
<1> QED BY <1>6, <1>7, <1>8, <1>9, <1>10 DEF IInv

LEMMA StepCoreConnected ==
  ASSUME IInv, CoreConnected
  PROVE  IInv'
<1>1. inbox' = inbox /\ core' = core /\ ~connected
  BY DEF CoreConnected
<1>2. inbox \in Seq(Messages) /\ InboxInv'
  BY <1>1 DEF IInv, TypeInv, InboxInv
<1> QED BY <1>1, <1>2, LoadStarted DEF CoreConnected

LEMMA StepCoreDisconnected ==
  ASSUME IInv, CoreDisconnected
  PROVE  IInv'
<1> DEFINE g == generation + 1
<1>1. /\ generation' = g /\ connected' = FALSE /\ requests' = {} /\ inbox' = <<>>
      /\ UNCHANGED <<core, version, loaded, waiting, announced, failed, handedOut, displaced>>
      /\ generation < MaxGeneration
  BY DEF CoreDisconnected, Supersede
<1>2. /\ generation \in Nat /\ g \in Generations /\ g \in 0..MaxGeneration /\ g > generation
      /\ announced \in Nat /\ announced <= g
      /\ \A r \in waiting : r.generation <= generation /\ r.generation \in Nat
  BY <1>1, TypeFacts DEF IInv, RequestsInv, Generations
<1>3. \A r \in waiting : r.generation # g /\ r.generation <= g
  BY <1>2
<1> HIDE DEF g
<1>4. inbox' \in Seq(Messages) /\ \A p \in DOMAIN inbox' : FALSE
  <2>1. <<>> \in Seq(Messages)
    BY EmptySeq
  <2>2. \A p \in DOMAIN inbox' : FALSE
    BY <1>1
  <2> QED BY <1>1, <2>1, <2>2
<1>5. TypeInv'
  <2>1. entities' \in [Ids -> {Absent, Unavailable} \cup Versions]
    BY TypeFacts DEF CoreDisconnected
  <2> QED BY <1>1, <1>2, <1>4, <2>1 DEF IInv, TypeInv, TypeOK
<1>6. InboxInv' /\ LinkInv' /\ SyncInv'
  BY <1>1, <1>4 DEF InboxInv, LinkInv, SyncInv
<1>7. RequestsInv'
  <2>1. \A h \in Generations : h > g => loaded[h] = {}
    <3>1. \A h \in Generations : h > generation => loaded[h] = {}
      BY DEF IInv, RequestsInv
    <3> QED BY <1>2, <3>1 DEF Generations
  <2> QED BY <1>1, <1>2, <1>3, <1>4, <2>1 DEF RequestsInv, Current
<1>8. CoverInv'
  BY <1>1, <1>3, <1>4 DEF CoverInv, Current
<1> QED BY <1>5, <1>6, <1>7, <1>8 DEF IInv

-----------------------------------------------------------------------------
(* Messages are received                                                   *)

\* The message at p of box is one that is on its way now, and stands for the same time.
Behind(box, p) ==
  \E q \in DOMAIN inbox : box[p] = inbox[q] /\ HadAt(box, core, p) = HadAt(inbox, core, q)

\* The first message is taken; the others stay as accurate as they were.
LEMMA InboxReceived ==
  ASSUME IInv, inbox # <<>>, inbox' = Tail(inbox), core' = core
  PROVE  /\ InboxInv' /\ inbox' \in Seq(Messages)
         /\ \A p \in DOMAIN inbox' : Behind(inbox', p)
<1>1. /\ inbox \in Seq(Messages) /\ inbox' \in Seq(Messages)
      /\ Len(inbox) \in Nat \ {0}
      /\ DOMAIN inbox = 1..Len(inbox) /\ DOMAIN inbox' = 1..(Len(inbox) - 1)
      /\ \A p \in 1..(Len(inbox) - 1) : inbox'[p] = inbox[p + 1] /\ p + 1 \in 1..Len(inbox)
  BY Taken DEF IInv, TypeInv
<1>2. ASSUME NEW p \in 1..(Len(inbox) - 1)
      PROVE  /\ Accurate(inbox', core, p)
             /\ HadAt(inbox', core, p) = HadAt(inbox, core, p + 1)
  <2>1. Accurate(inbox, core, p + 1)
    BY <1>1 DEF IInv, InboxInv
  <2> QED BY <1>1, <2>1, AccurateTail
<1>3. InboxInv'
  BY <1>1, <1>2 DEF InboxInv
<1> QED BY <1>1, <1>2, <1>3 DEF Behind

(***************************************************************************)
(* A step that requests nothing, and after which fewer answers are awaited *)
(* and fewer messages are on their way, leaves the load where it is.       *)
(***************************************************************************)
LEMMA LoadKept ==
  ASSUME IInv, UNCHANGED <<core, version, connected, generation, requests, loaded>>,
         UNCHANGED <<handedOut, displaced>>,
         waiting' \subseteq waiting, inbox' \in Seq(Messages), InboxInv',
         inbox = <<>> => inbox' = <<>>,
         \A p \in DOMAIN inbox' : Behind(inbox', p),
         announced' \in 0..MaxGeneration, announced' <= generation, failed' \in BOOLEAN,
         entities' \in [Ids -> {Absent, Unavailable} \cup Versions],
         SyncInv'
  PROVE  IInv'
<1>1. TypeInv'
  BY DEF IInv, TypeInv, TypeOK
<1>2. LinkInv'
  BY DEF IInv, LinkInv
<1>3. RequestsInv'
  <2>1. /\ \A r \in requests \cup waiting : r.generation <= generation
        /\ \A p \in DOMAIN inbox :
             inbox[p].type = "page" => inbox[p].request.generation <= generation
        /\ \A g \in Generations : g > generation => loaded[g] = {}
        /\ \A r \in waiting : r.generation = generation =>
             /\ \A s \in requests \cup waiting : s.generation = generation => s.page <= r.page
             /\ \A p \in DOMAIN inbox :
                  inbox[p].type = "page" /\ inbox[p].request.generation = generation =>
                    inbox[p].request.page <= r.page
    BY DEF IInv, RequestsInv, Current
  <2>2. \A p \in DOMAIN inbox' : \E q \in DOMAIN inbox : inbox'[p] = inbox[q]
    BY DEF Behind
  <2>3. \A p \in DOMAIN inbox' :
          inbox'[p].type = "page" => inbox'[p].request.generation <= generation
    BY <2>1, <2>2
  <2>4. \A r \in waiting' : r.generation = generation =>
          /\ \A s \in requests \cup waiting' : s.generation = generation => s.page <= r.page
          /\ \A p \in DOMAIN inbox' :
               inbox'[p].type = "page" /\ inbox'[p].request.generation = generation =>
                 inbox'[p].request.page <= r.page
    BY <2>1, <2>2
  <2>5. \A r \in requests \cup waiting' : r.generation <= generation
    BY <2>1
  <2> QED BY <2>1, <2>3, <2>4, <2>5 DEF RequestsInv, Current
<1>4. CoverInv'
  <2>1. \A got : Covered(got) => \A i \in Ids \ displaced : InFront(core, i)' => i \in got
    <3>1. \A i : InFront(core, i)' <=> InFront(core, i)
      BY DEF InFront, Present, Rank
    <3> QED BY <3>1 DEF Covered
  <2>2. \A r \in requests : r.generation = generation =>
          \A p \in DOMAIN inbox' : inbox'[p].type = "page" => inbox'[p].request # r
    BY DEF IInv, CoverInv, Current, Behind
  <2>3. \A r \in requests \cap waiting' : r.generation = generation =>
          r.page = handedOut + 1 /\ Covered(loaded[generation])
    BY DEF IInv, CoverInv, Current
  <2>4. ASSUME NEW p \in DOMAIN inbox', inbox'[p].type = "page",
               inbox'[p].request \in waiting', inbox'[p].request.generation = generation
        PROVE  /\ HasNext(inbox'[p]) =>
                    /\ handedOut = inbox'[p].request.page
                    /\ Covered(loaded[generation] \cup DOMAIN inbox'[p].items)
               /\ ~HasNext(inbox'[p]) =>
                    HadAt(inbox', core, p) \ displaced
                      \subseteq loaded[generation] \cup DOMAIN inbox'[p].items
    <3>1. PICK q \in DOMAIN inbox :
            inbox'[p] = inbox[q] /\ HadAt(inbox', core, p) = HadAt(inbox, core, q)
      BY DEF Behind
    <3> QED BY <2>4, <3>1 DEF IInv, CoverInv, Current
  <2> QED BY <2>1, <2>2, <2>3, <2>4 DEF CoverInv, Covered, Current, HasNext
<1> QED BY <1>1, <1>2, <1>3, <1>4 DEF IInv

\* A load that fails is not one after which everything is in step.
LEMMA LoadFails ==
  ASSUME IInv, NEW r \in Request, PageFails(r), UNCHANGED <<core, version, connected>>,
         inbox' \in Seq(Messages), InboxInv', inbox = <<>> => inbox' = <<>>,
         \A p \in DOMAIN inbox' : Behind(inbox', p),
         \A i : InSync(inbox, core, entities, i) => InSync(inbox', core, entities, i),
         \A i : NotOutdated(inbox, core, entities, i) => NotOutdated(inbox', core, entities, i)
  PROVE  IInv'
<1>1. /\ UNCHANGED <<generation, loaded, requests, handedOut, displaced, entities>>
      /\ waiting' \subseteq waiting
      /\ \/ announced' = r.generation /\ failed' = TRUE /\ r.generation = generation
         \/ UNCHANGED <<announced, failed>>
  BY DEF PageFails, LoadFailed, IsCurrent
<1>2. /\ announced' \in 0..MaxGeneration /\ announced' <= generation /\ failed' \in BOOLEAN
      /\ entities' \in [Ids -> {Absent, Unavailable} \cup Versions]
  <2>1. announced <= generation /\ failed \in BOOLEAN
    BY DEF IInv, RequestsInv, TypeInv, TypeOK
  <2>2. CASE announced' = r.generation /\ failed' = TRUE /\ r.generation = generation
    <3>1. announced' \in 0..MaxGeneration /\ announced' <= generation
      BY <2>2, TypeFacts
    <3> QED BY <1>1, <2>2, <3>1, TypeFacts
  <2>3. CASE UNCHANGED <<announced, failed>>
    BY <1>1, <2>1, <2>3, TypeFacts
  <2> QED BY <1>1, <2>2, <2>3
<1>3. SyncInv'
  <2>1. connected =>
          /\ \A i \in loaded[generation] : InSync(inbox, core, entities, i)
          /\ announced = generation /\ ~failed =>
               /\ \A i \in Ids \ displaced : InSync(inbox, core, entities, i)
               /\ \A i \in Ids : NotOutdated(inbox, core, entities, i)
    BY DEF IInv, SyncInv
  <2> QED BY <1>1, <2>1 DEF SyncInv
<1> QED BY <1>1, <1>2, <1>3, LoadKept

LEMMA StepRequestTimesOut ==
  ASSUME IInv, NEW r \in waiting, RequestTimesOut(r)
  PROVE  IInv'
<1>1. /\ PageFails(r) /\ inbox' = inbox /\ core' = core /\ UNCHANGED <<core, version, connected>>
      /\ r \in Request
  BY TypeFacts DEF RequestTimesOut
<1>2. inbox' \in Seq(Messages) /\ InboxInv' /\ \A p \in DOMAIN inbox' : Behind(inbox', p)
  BY <1>1, TypeFacts DEF IInv, InboxInv, Behind
<1> QED BY <1>1, <1>2, LoadFails

LEMMA ReceiveError ==
  ASSUME IInv, inbox # <<>>, Head(inbox).type = "error", PageFails(Head(inbox).request),
         inbox' = Tail(inbox), UNCHANGED <<core, version, connected>>
  PROVE  IInv'
<1>1. inbox \in Seq(Messages) /\ Head(inbox) \in Messages
  BY TypeFacts, Taken
<1>2. Head(inbox).request \in Request /\ \A i : ~About(Head(inbox), i)
  BY <1>1, MessageType DEF About
<1>3. InboxInv' /\ inbox' \in Seq(Messages) /\ \A p \in DOMAIN inbox' : Behind(inbox', p)
  BY InboxReceived
<1>4. /\ \A i : InSync(inbox, core, entities, i) => InSync(inbox', core, entities, i)
      /\ \A i : NotOutdated(inbox, core, entities, i) => NotOutdated(inbox', core, entities, i)
  BY <1>1, <1>2, InSyncSkip, NotOutdatedSkip
<1> QED BY <1>2, <1>3, <1>4, LoadFails

\* The core lacks what it told was deleted, and shows what it told was set.
LEMMA HeadIsAccurate ==
  ASSUME IInv, inbox # <<>>
  PROVE  /\ inbox \in Seq(Messages) /\ Head(inbox) = inbox[1] /\ Head(inbox) \in Messages
         /\ 1 \in DOMAIN inbox /\ Accurate(inbox, core, 1)
<1>1. inbox \in Seq(Messages) /\ Head(inbox) = inbox[1] /\ Head(inbox) \in Messages
      /\ 1 \in DOMAIN inbox
  BY TypeFacts, Taken
<1> QED BY <1>1 DEF IInv, InboxInv

\* An event brings the entity it is about in step, if it was; the others stay as they are.
LEMMA EventKeepsInSync ==
  ASSUME IInv, inbox # <<>>, Head(inbox).type \in {"new", "change", "delete"},
         EventArrives(Head(inbox)), inbox' = Tail(inbox),
         NEW i \in Ids, InSync(inbox, core, entities, i)
  PROVE  InSync(inbox', core, entities', i)
<1> DEFINE m == Head(inbox)
<1>1. /\ inbox \in Seq(Messages) /\ m = inbox[1] /\ m \in Messages /\ 1 \in DOMAIN inbox
      /\ Accurate(inbox, core, 1)
  BY HeadIsAccurate
<1>2. m.id \in Ids /\ (m.type \in {"new", "change"} => m.version # Absent)
  BY <1>1, MessageType DEF Versions, Absent
<1>3. entities \in [Ids -> {Absent, Unavailable} \cup Versions]
  BY TypeFacts
<1>4. /\ m.type = "new" => entities' = [entities EXCEPT ![m.id] = m.version]
      /\ m.type = "change" =>
           entities' = IF entities[m.id] = Absent THEN entities
                       ELSE [entities EXCEPT ![m.id] = m.version]
      /\ m.type = "delete" => entities' = [entities EXCEPT ![m.id] = Absent]
  BY DEF EventArrives, EntityAdded, EntityChanged, EntityDeleted
<1> HIDE DEF m
<1>5. CASE ~About(m, i)
  <2>1. i # m.id
    BY <1>5 DEF About, m
  <2>2. entities'[i] = entities[i]
    BY <1>2, <1>3, <1>4, <2>1 DEF m
  <2> QED BY <1>1, <1>5, <2>2, InSyncSkip DEF m
<1>6. CASE About(m, i)
  <2>1. i = m.id /\ FirstAfter(inbox, 0, 1, i)
    BY <1>1, <1>6, HeadIsFirst DEF About, m
  <2>2. CASE m.type = "delete"
    <3>1. Lacked(inbox, core, 1, i) /\ entities'[i] = Absent
      BY <1>1, <1>2, <1>3, <1>4, <2>1, <2>2 DEF Accurate
    <3> QED BY <1>1, <3>1, InSyncGone
  <2>3. CASE m.type \in {"new", "change"}
    <3>1. m.type = "change" => entities[i] # Absent
      BY <1>1, <2>1 DEF InSync
    <3>2. entities'[i] = m.version
      BY <1>2, <1>3, <1>4, <2>1, <2>3, <3>1
    <3>3. NoneAfter(inbox, 1, i) => entities'[i] = core[i]
      BY <1>1, <2>1, <2>3, <3>2 DEF Accurate
    <3>4. entities'[i] # Absent
      BY <1>2, <2>3, <3>2
    <3> QED BY <1>1, <3>3, <3>4, InSyncTail
  <2> QED BY <2>2, <2>3 DEF m
<1> QED BY <1>5, <1>6

\* Nor does an event bring back what was, of any entity.
LEMMA EventKeepsNotOutdated ==
  ASSUME IInv, inbox # <<>>, Head(inbox).type \in {"new", "change", "delete"},
         EventArrives(Head(inbox)), inbox' = Tail(inbox),
         NEW i \in Ids, NotOutdated(inbox, core, entities, i)
  PROVE  NotOutdated(inbox', core, entities', i)
<1> DEFINE m == Head(inbox)
<1>1. /\ inbox \in Seq(Messages) /\ m = inbox[1] /\ m \in Messages /\ 1 \in DOMAIN inbox
      /\ Accurate(inbox, core, 1)
  BY HeadIsAccurate
<1>2. m.id \in Ids /\ entities \in [Ids -> {Absent, Unavailable} \cup Versions]
  BY <1>1, MessageType, TypeFacts
<1>3. /\ m.type = "new" => entities' = [entities EXCEPT ![m.id] = m.version]
      /\ m.type = "change" =>
           entities' = IF entities[m.id] = Absent THEN entities
                       ELSE [entities EXCEPT ![m.id] = m.version]
      /\ m.type = "delete" => entities' = [entities EXCEPT ![m.id] = Absent]
  BY DEF EventArrives, EntityAdded, EntityChanged, EntityDeleted
<1> HIDE DEF m
<1>4. CASE ~About(m, i)
  <2>1. i # m.id
    BY <1>4 DEF About, m
  <2>2. entities'[i] = entities[i]
    BY <1>2, <1>3, <2>1 DEF m
  <2> QED BY <1>1, <1>4, <2>2, NotOutdatedSkip DEF m
<1>5. CASE About(m, i)
  <2>1. i = m.id
    BY <1>5 DEF About
  <2>2. m.type \in {"new", "change"} /\ NoneAfter(inbox, 1, i) => core[i] = m.version
    BY <1>1, <2>1 DEF Accurate
  <2>3. \/ m.type = "delete" /\ entities'[i] = Absent
        \/ m.type \in {"new", "change"} /\ entities'[i] \in {m.version, Absent}
    BY <1>2, <1>3, <2>1 DEF m
  <2>4. NoneAfter(inbox, 1, i) => entities'[i] \in {core[i], Absent}
    BY <2>2, <2>3
  <2> QED BY <1>1, <2>4, NotOutdatedTail
<1> QED BY <1>4, <1>5

LEMMA ReceiveEvent ==
  ASSUME IInv, inbox # <<>>, Head(inbox).type \in {"new", "change", "delete"},
         EventArrives(Head(inbox)), inbox' = Tail(inbox), UNCHANGED <<core, version, connected>>
  PROVE  IInv'
<1>1. UNCHANGED <<generation, loaded, requests, waiting, announced, failed, handedOut, displaced>>
  BY DEF EventArrives
<1>2. InboxInv' /\ inbox' \in Seq(Messages) /\ \A p \in DOMAIN inbox' : Behind(inbox', p)
  BY InboxReceived
<1>3. entities' \in [Ids -> {Absent, Unavailable} \cup Versions]
  <2>1. Head(inbox) \in Messages
    BY HeadIsAccurate
  <2>2. Head(inbox).type \in {"new", "change"} => Head(inbox).version \in Versions
    BY <2>1, MessageType
  <2> QED BY <2>2, TypeFacts DEF EventArrives, EntityAdded, EntityChanged, EntityDeleted
<1>4. SyncInv'
  <2>1. \A i \in Ids :
          /\ InSync(inbox, core, entities, i) => InSync(inbox', core, entities', i)
          /\ NotOutdated(inbox, core, entities, i) => NotOutdated(inbox', core, entities', i)
    BY EventKeepsInSync, EventKeepsNotOutdated
  <2>3. connected => loaded[generation] \subseteq Ids
    BY TypeFacts DEF IInv, LinkInv
  <2>2. connected =>
          /\ \A i \in loaded[generation] : InSync(inbox, core, entities, i)
          /\ announced = generation /\ ~failed =>
               /\ \A i \in Ids \ displaced : InSync(inbox, core, entities, i)
               /\ \A i \in Ids : NotOutdated(inbox, core, entities, i)
    BY DEF IInv, SyncInv
  <2> QED BY <1>1, <2>1, <2>2, <2>3 DEF SyncInv
<1>5. announced \in 0..MaxGeneration /\ announced <= generation /\ failed \in BOOLEAN
  BY DEF IInv, RequestsInv, TypeInv, TypeOK
<1> QED BY <1>1, <1>2, <1>3, <1>4, <1>5, LoadKept

LEMMA ReceiveReload ==
  ASSUME IInv, inbox # <<>>, Head(inbox).type = "reload", generation < MaxGeneration, StartLoad,
         UNCHANGED <<entities, loaded, announced>>, inbox' = Tail(inbox),
         UNCHANGED <<core, version, connected>>
  PROVE  IInv'
<1>1. InboxInv' /\ inbox' \in Seq(Messages) /\ \A p \in DOMAIN inbox' : Behind(inbox', p)
  BY InboxReceived
<1>2. connected = TRUE
  BY DEF IInv, LinkInv, TypeInv, TypeOK
<1> QED BY <1>1, <1>2, LoadStarted DEF Behind

LEMMA ReceiveStalePage ==
  ASSUME IInv, inbox # <<>>, Head(inbox).type = "page", PageArrives(Head(inbox)),
         ~(Head(inbox).request \in waiting /\ IsCurrent(Head(inbox).request.generation)),
         inbox' = Tail(inbox), UNCHANGED <<core, version, connected>>
  PROVE  IInv'
<1>1. /\ UNCHANGED <<generation, loaded, requests, announced, failed, entities>>
      /\ UNCHANGED <<handedOut, displaced>>
      /\ waiting' \subseteq waiting
  BY DEF PageArrives
<1>2. InboxInv' /\ inbox' \in Seq(Messages) /\ \A p \in DOMAIN inbox' : Behind(inbox', p)
  BY InboxReceived
<1>3. SyncInv'
  <2>1. inbox \in Seq(Messages) /\ \A i : ~About(Head(inbox), i)
    BY HeadIsAccurate DEF About
  <2>2. /\ \A i : InSync(inbox, core, entities, i) => InSync(inbox', core, entities, i)
        /\ \A i : NotOutdated(inbox, core, entities, i) => NotOutdated(inbox', core, entities, i)
    BY <2>1, InSyncSkip, NotOutdatedSkip
  <2>3. connected =>
          /\ \A i \in loaded[generation] : InSync(inbox, core, entities, i)
          /\ announced = generation /\ ~failed =>
               /\ \A i \in Ids \ displaced : InSync(inbox, core, entities, i)
               /\ \A i \in Ids : NotOutdated(inbox, core, entities, i)
    BY DEF IInv, SyncInv
  <2> QED BY <1>1, <2>2, <2>3 DEF SyncInv
<1>4. /\ announced \in 0..MaxGeneration /\ announced <= generation /\ failed \in BOOLEAN
      /\ entities' \in [Ids -> {Absent, Unavailable} \cup Versions]
  BY <1>1, TypeFacts DEF IInv, RequestsInv, TypeInv, TypeOK
<1> QED BY <1>1, <1>2, <1>3, <1>4, LoadKept

-----------------------------------------------------------------------------
(* The page of the load arrives                                            *)

\* What a last page leaves out is gone from the core, unless it was displaced.
LEMMA LeftOutIsLacked ==
  ASSUME IInv, inbox # <<>>, Head(inbox).type = "page",
         Head(inbox).request \in waiting, IsCurrent(Head(inbox).request.generation),
         ~HasNext(Head(inbox)),
         NEW i \in Ids \ displaced, i \notin loaded[generation] \cup DOMAIN Head(inbox).items
  PROVE  Lacked(inbox, core, 1, i)
<1>1. inbox \in Seq(Messages) /\ Head(inbox) = inbox[1] /\ 1 \in DOMAIN inbox
  BY HeadIsAccurate
<1>2. HadAt(inbox, core, 1) \ displaced \subseteq loaded[generation] \cup DOMAIN inbox[1].items
  BY <1>1 DEF IInv, CoverInv, Current, IsCurrent
<1> QED BY <1>1, <1>2, HadOrLacked DEF HadAt

\* The entities of the page and of the pages before it are in step, and no other gets out of it.
LEMMA PageKeepsInSync ==
  ASSUME IInv, inbox # <<>>, Head(inbox).type = "page", inbox' = Tail(inbox),
         NEW i \in Ids,
         \/ i \in DOMAIN Head(inbox).items /\ entities'[i] = Head(inbox).items[i]
         \/ InSync(inbox, core, entities, i) /\ entities'[i] = entities[i]
         \/ Lacked(inbox, core, 1, i) /\ entities'[i] = Absent
  PROVE  InSync(inbox', core, entities', i)
<1> DEFINE m == Head(inbox)
<1>1. /\ inbox \in Seq(Messages) /\ m = inbox[1] /\ m \in Messages /\ 1 \in DOMAIN inbox
      /\ Accurate(inbox, core, 1) /\ m.type = "page"
  BY HeadIsAccurate
<1>2. ~About(m, i)
  BY <1>1 DEF About
<1>3. CASE i \in DOMAIN m.items /\ entities'[i] = m.items[i]
  <2>1. NoneAfter(inbox, 1, i) => entities'[i] = core[i]
    BY <1>1, <1>3 DEF Accurate
  <2>2. m.items \in Items
    BY <1>1, MessageType
  <2>3. entities'[i] # Absent
    BY <1>3, <2>2, ItemsType
  <2> QED BY <1>1, <2>1, <2>3, InSyncTail
<1>4. CASE InSync(inbox, core, entities, i) /\ entities'[i] = entities[i]
  BY <1>1, <1>2, <1>4, InSyncSkip
<1>5. CASE Lacked(inbox, core, 1, i) /\ entities'[i] = Absent
  BY <1>1, <1>5, InSyncGone
<1> QED BY <1>3, <1>4, <1>5

LEMMA ReceivePage ==
  ASSUME IInv, inbox # <<>>, Head(inbox).type = "page", PageArrives(Head(inbox)),
         Head(inbox).request \in waiting, IsCurrent(Head(inbox).request.generation),
         inbox' = Tail(inbox), UNCHANGED <<core, version, connected>>
  PROVE  IInv'
<1> DEFINE m == Head(inbox)
           r == m.request
           ids == loaded[generation] \cup DOMAIN m.items
           next == [page |-> r.page + 1, generation |-> generation]
<1>1. /\ inbox \in Seq(Messages) /\ m = inbox[1] /\ m \in Messages /\ 1 \in DOMAIN inbox
      /\ m.type = "page" /\ m.items \in Items
  BY HeadIsAccurate, MessageType
<1>2. /\ r \in waiting /\ r \in Request /\ r.generation = generation /\ r.page \in Nat \ {0}
      /\ generation \in Generations /\ generation \in Nat
  BY TypeFacts DEF IsCurrent
<1>3. DOMAIN m.items \subseteq Ids /\ \A i \in DOMAIN m.items : m.items[i] \in Versions
  BY <1>1, ItemsType
<1>4. /\ loaded' = [loaded EXCEPT ![generation] = ids]
      /\ UNCHANGED <<generation, failed, handedOut, displaced, core, version, connected>>
      /\ \/ /\ HasNext(m)
            /\ entities' = WithPage(m)
            /\ requests' = requests \cup {next} /\ waiting' = (waiting \ {r}) \cup {next}
            /\ announced' = announced
         \/ /\ ~HasNext(m)
            /\ entities' = WithoutMissing(WithPage(m), ids)
            /\ announced' = generation /\ waiting' = waiting \ {r} /\ requests' = requests
  BY <1>2 DEF PageArrives, ApplyPage, LoadPage
<1>5. InboxInv' /\ inbox' \in Seq(Messages) /\ \A p \in DOMAIN inbox' : Behind(inbox', p)
  BY InboxReceived
<1>6. next \in Request /\ next.page = r.page + 1 /\ next.generation = generation
  BY <1>2 DEF Request
<1>7. /\ ids \in SUBSET Ids
      /\ loaded' \in [Generations -> SUBSET Ids] /\ loaded'[generation] = ids
      /\ \A g \in Generations : g # generation => loaded'[g] = loaded[g]
  BY <1>2, <1>3, <1>4, TypeFacts
<1>8. \A i \in Ids :
        /\ HasNext(m) =>
             entities'[i] = IF i \in DOMAIN m.items THEN m.items[i] ELSE entities[i]
        /\ ~HasNext(m) =>
             entities'[i] = IF i \in ids
                            THEN IF i \in DOMAIN m.items THEN m.items[i] ELSE entities[i]
                            ELSE Absent
  BY <1>4 DEF WithPage, WithoutMissing
<1>9. entities' \in [Ids -> {Absent, Unavailable} \cup Versions]
  <2>1. entities \in [Ids -> {Absent, Unavailable} \cup Versions]
    BY TypeFacts
  <2>2. WithPage(m) \in [Ids -> {Absent, Unavailable} \cup Versions]
    BY <1>3, <2>1 DEF WithPage
  <2>3. WithoutMissing(WithPage(m), ids) \in [Ids -> {Absent, Unavailable} \cup Versions]
    BY <2>2 DEF WithoutMissing
  <2> QED BY <1>4, <2>2, <2>3
\* The requests of the load that are awaited are the one that is answered.
<1>10. /\ \A s \in waiting : s.generation = generation => s = r
       /\ \A s \in requests \cup waiting : s.generation = generation => s.page <= r.page
       /\ \A s \in requests \cup waiting : s.generation <= generation /\ s.page \in Nat
       /\ \A p \in DOMAIN inbox : inbox[p].type = "page" =>
            /\ inbox[p].request.generation <= generation
            /\ inbox[p].request.generation = generation => inbox[p].request.page <= r.page
  <2>1. /\ \A s \in waiting : s.generation = generation =>
             \A t \in requests \cup waiting : t.generation = generation => t.page <= s.page
        /\ \A s \in waiting : s.generation = generation =>
             \A p \in DOMAIN inbox :
               inbox[p].type = "page" /\ inbox[p].request.generation = generation =>
                 inbox[p].request.page <= s.page
        /\ \A s \in requests \cup waiting : s.generation <= generation
        /\ \A p \in DOMAIN inbox :
             inbox[p].type = "page" => inbox[p].request.generation <= generation
    BY DEF IInv, RequestsInv, Current
  <2>2. \A s \in requests \cup waiting : s \in Request /\ s.page \in Nat
    BY TypeFacts
  <2> HIDE DEF r
  <2>3. ASSUME NEW s \in waiting, s.generation = generation
        PROVE  s = r
    <3>1. s.page <= r.page /\ r.page <= s.page
      BY <1>2, <2>1, <2>3
    <3>2. s \in Request /\ s.page = r.page
      BY <1>2, <2>2, <3>1
    <3> QED BY <1>2, <2>3, <3>2 DEF Request
  <2> QED BY <1>2, <2>1, <2>2, <2>3
<1>11. \A p \in DOMAIN inbox' : \E q \in DOMAIN inbox :
         inbox'[p] = inbox[q] /\ HadAt(inbox', core, p) = HadAt(inbox, core, q)
  BY <1>5 DEF Behind
<1>12. /\ waiting' \subseteq (waiting \ {r}) \cup {next} /\ requests' \subseteq requests \cup {next}
       /\ waiting' \subseteq Request /\ requests' \subseteq Request
       /\ \A s \in waiting' : s.generation = generation => s = next /\ HasNext(m)
       /\ announced' \in 0..MaxGeneration /\ announced' <= generation
  <2>1. /\ waiting' \subseteq (waiting \ {r}) \cup {next}
        /\ requests' \subseteq requests \cup {next}
    BY <1>4
  <2>2. waiting' \subseteq Request /\ requests' \subseteq Request
    BY <1>6, <2>1, TypeFacts
  <2>3. announced' \in 0..MaxGeneration /\ announced' <= generation
    BY <1>4, TypeFacts DEF IInv, RequestsInv
  <2> HIDE DEF m, r, next
  <2>4. \A s \in waiting' : s.generation = generation => s = next /\ HasNext(m)
    BY <1>4, <1>10
  <2> QED BY <2>1, <2>2, <2>3, <2>4
<1>13. TypeInv'
  BY <1>4, <1>5, <1>7, <1>9, <1>12 DEF IInv, TypeInv, TypeOK
<1>14. LinkInv'
  <2>1. connected
    BY DEF IInv, LinkInv
  <2> QED BY <1>2, <1>4, <2>1 DEF LinkInv
<1>15. RequestsInv'
  <2> HIDE DEF m, r, next, ids
  <2>1. \A s \in requests' \cup waiting' : s.generation <= generation
    BY <1>2, <1>6, <1>10, <1>12
  <2>2. \A p \in DOMAIN inbox' :
          inbox'[p].type = "page" => inbox'[p].request.generation <= generation
    BY <1>10, <1>11
  <2>3. \A g \in Generations : g > generation => loaded'[g] = {}
    <3>1. \A g \in Generations : g > generation => loaded[g] = {}
      BY DEF IInv, RequestsInv
    <3>2. \A g \in Generations : g > generation => g # generation
      BY <1>2 DEF Generations
    <3>3. \A g \in Generations : g # generation => loaded'[g] = loaded[g]
      BY <1>7
    <3> QED BY <3>1, <3>2, <3>3
  <2>4. ASSUME NEW s \in waiting', s.generation = generation
        PROVE  /\ \A t \in requests' \cup waiting' : t.generation = generation => t.page <= s.page
               /\ \A p \in DOMAIN inbox' :
                    inbox'[p].type = "page" /\ inbox'[p].request.generation = generation =>
                      inbox'[p].request.page <= s.page
    <3>1. s = next /\ s.page = r.page + 1
      BY <1>6, <1>12, <2>4
    <3>2. \A t \in requests' \cup waiting' : t.generation = generation => t.page <= s.page
      <4>1. \A t \in requests \cup waiting : t.generation = generation => t.page <= r.page + 1
        BY <1>2, <1>10
      <4> QED BY <1>2, <1>12, <3>1, <4>1
    <3>3. ASSUME NEW p \in DOMAIN inbox', inbox'[p].type = "page",
                 inbox'[p].request.generation = generation
          PROVE  inbox'[p].request.page <= s.page
      <4>1. PICK q \in DOMAIN inbox : inbox'[p] = inbox[q]
        BY <1>11
      <4>2. inbox[q] \in Messages
        BY <1>1, ElementOfSeq
      <4>3. inbox[q].request \in Request /\ inbox[q].request.page \in Nat
        BY <3>3, <4>1, <4>2, MessageType, TypeFacts
      <4> QED BY <1>2, <1>10, <3>1, <3>3, <4>1, <4>3
    <3> QED BY <3>2, <3>3
  <2> QED BY <1>4, <1>12, <2>1, <2>2, <2>3, <2>4 DEF RequestsInv, Current
<1>16. CoverInv'
  <2>1. HasNext(m) => handedOut = r.page /\ Covered(ids)
    BY <1>1, <1>2 DEF IInv, CoverInv, Current
  <2>2. \A i : InFront(core, i)' <=> InFront(core, i)
    BY <1>4 DEF InFront, Present, Rank
  <2> HIDE DEF next
  <2>3. ASSUME NEW s \in requests', s.generation = generation,
               NEW p \in DOMAIN inbox', inbox'[p].type = "page", inbox'[p].request = s
        PROVE  FALSE
    <3>1. PICK q \in DOMAIN inbox : inbox'[p] = inbox[q]
      BY <1>11
    <3>2. s \in requests \/ s = next
      BY <1>12
    <3>3. s # next
      <4>1. s.page <= r.page
        BY <1>10, <2>3, <3>1
      <4> QED BY <1>2, <1>6, <4>1
    <3> QED BY <2>3, <3>1, <3>2, <3>3 DEF IInv, CoverInv, Current
  <2>4. ASSUME NEW s \in requests' \cap waiting', s.generation = generation
        PROVE  /\ s.page = handedOut + 1
               /\ \A i \in Ids \ displaced : InFront(core, i)' => i \in ids
    <3>1. s.page = r.page + 1 /\ HasNext(m)
      BY <1>6, <1>12, <2>4
    <3> QED BY <2>1, <2>2, <3>1 DEF Covered
  <2>5. ASSUME NEW p \in DOMAIN inbox', inbox'[p].type = "page", inbox'[p].request \in waiting',
               inbox'[p].request.generation = generation
        PROVE  FALSE
    <3>1. inbox'[p].request.page = r.page + 1
      BY <1>6, <1>12, <2>5
    <3>2. inbox'[p].request.page <= r.page
      BY <1>10, <1>11, <2>5
    <3> QED BY <1>2, <3>1, <3>2
  <2> HIDE DEF m, r, ids
  <2> QED BY <1>4, <1>7, <2>3, <2>4, <2>5 DEF CoverInv, Covered, Current
<1>17. SyncInv'
  <2>1. /\ \A i \in loaded[generation] : InSync(inbox, core, entities, i)
        /\ announced = generation /\ ~failed =>
             /\ \A i \in Ids \ displaced : InSync(inbox, core, entities, i)
             /\ \A i \in Ids : NotOutdated(inbox, core, entities, i)
    BY DEF IInv, SyncInv, LinkInv
  <2>2. ASSUME NEW i \in ids
        PROVE  InSync(inbox', core, entities', i)
    <3>1. i \in Ids
      BY <1>7
    <3>2. \/ i \in DOMAIN m.items /\ entities'[i] = m.items[i]
          \/ InSync(inbox, core, entities, i) /\ entities'[i] = entities[i]
      BY <1>8, <2>1, <3>1
    <3> QED BY <1>1, <3>1, <3>2, PageKeepsInSync
  <2>3. ASSUME announced' = generation, ~failed, NEW i \in Ids
        PROVE  /\ i \notin displaced => InSync(inbox', core, entities', i)
               /\ NotOutdated(inbox', core, entities', i)
    <3>1. CASE i \in ids
      BY <2>2, <3>1 DEF InSync, NotOutdated
    <3>2. CASE i \notin ids /\ HasNext(m)
      <4>1. announced = generation /\ entities'[i] = entities[i]
        BY <1>4, <1>8, <2>3, <3>2
      <4>2. i \notin displaced => InSync(inbox', core, entities', i)
        BY <1>1, <2>1, <2>3, <4>1, PageKeepsInSync
      <4>3. ~About(m, i)
        BY <1>1 DEF About
      <4>4. NotOutdated(inbox', core, entities', i)
        BY <1>1, <2>1, <2>3, <4>1, <4>3, NotOutdatedSkip
      <4> QED BY <4>2, <4>4
    <3>3. CASE i \notin ids /\ ~HasNext(m)
      <4>1. entities'[i] = Absent
        BY <1>8, <2>3, <3>3
      <4>2. NotOutdated(inbox', core, entities', i)
        BY <4>1 DEF NotOutdated
      <4>3. ASSUME i \notin displaced
            PROVE  InSync(inbox', core, entities', i)
        <5>1. Lacked(inbox, core, 1, i)
          BY <2>3, <3>3, <4>3, LeftOutIsLacked
        <5> QED BY <1>1, <4>1, <5>1, PageKeepsInSync
      <4> QED BY <4>2, <4>3
    <3> QED BY <3>1, <3>2, <3>3
  <2> HIDE DEF m, ids
  <2> QED BY <1>4, <1>7, <2>2, <2>3 DEF SyncInv
<1> QED BY <1>5, <1>13, <1>14, <1>15, <1>16, <1>17 DEF IInv

LEMMA StepReceive ==
  ASSUME IInv, Receive
  PROVE  IInv'
<1>1. inbox # <<>> /\ inbox' = Tail(inbox) /\ UNCHANGED <<core, version, connected>>
  BY DEF Receive
<1>2. CASE Head(inbox).type = "page" /\ PageArrives(Head(inbox))
  BY <1>1, <1>2, ReceivePage, ReceiveStalePage
<1>3. CASE Head(inbox).type = "error" /\ PageFails(Head(inbox).request)
  BY <1>1, <1>3, ReceiveError
<1>4. CASE Head(inbox).type \in {"new", "change", "delete"} /\ EventArrives(Head(inbox))
  BY <1>1, <1>4, ReceiveEvent
<1>5. CASE /\ Head(inbox).type = "reload" /\ generation < MaxGeneration /\ StartLoad
           /\ UNCHANGED <<entities, loaded, announced>>
  BY <1>1, <1>5, ReceiveReload
<1> QED BY <1>2, <1>3, <1>4, <1>5 DEF Receive

LEMMA Step == IInv /\ [Next]_vars => IInv'
<1> SUFFICES ASSUME IInv, [Next]_vars PROVE IInv'
  OBVIOUS
<1>1. ASSUME NEW i \in Ids, CoreSetsEntity(i) PROVE IInv'
  BY <1>1, StepCoreSetsEntity
<1>2. ASSUME NEW i \in Ids, CoreDeletesEntity(i) PROVE IInv'
  BY <1>2, StepCoreDeletesEntity
<1>3. CASE CoreAsksReload
  BY <1>3, StepCoreAsksReload
<1>4. ASSUME NEW r \in requests, CoreAnswers(r) PROVE IInv'
  BY <1>4, StepCoreAnswers
<1>5. CASE CoreConnected
  BY <1>5, StepCoreConnected
<1>6. CASE CoreDisconnected
  BY <1>6, StepCoreDisconnected
<1>7. ASSUME NEW r \in waiting, RequestTimesOut(r) PROVE IInv'
  BY <1>7, StepRequestTimesOut
<1>8. CASE Receive
  BY <1>8, StepReceive
<1>9. CASE UNCHANGED vars
  <2>1. UNCHANGED <<core, version, connected, requests, inbox, entities, generation, loaded,
                    waiting, announced, failed, handedOut, displaced>>
    BY <1>9 DEF vars
  <2>2. TypeInv' /\ LinkInv'
    BY <2>1 DEF IInv, TypeInv, TypeOK, LinkInv
  <2>3. InboxInv'
    BY <2>1 DEF IInv, InboxInv
  <2>4. RequestsInv'
    BY <2>1 DEF IInv, RequestsInv, Current
  <2>5. CoverInv'
    BY <2>1 DEF IInv, CoverInv, Covered, InFront, Current
  <2>6. SyncInv'
    BY <2>1 DEF IInv, SyncInv
  <2> QED BY <2>2, <2>3, <2>4, <2>5, <2>6 DEF IInv
<1> QED BY <1>1, <1>2, <1>3, <1>4, <1>5, <1>6, <1>7, <1>8, <1>9 DEF Next

(***************************************************************************)
(* Every variable keeps its type: in particular an update of entities      *)
(* leaves no entity without a state, and no load counts past its bound.    *)
(***************************************************************************)
THEOREM TypeCorrect == Spec => []TypeOK
<1>1. IInv => TypeOK
  BY DEF IInv, TypeInv
<1> QED BY <1>1, InitIInv, Step, PTL DEF Spec

-----------------------------------------------------------------------------
(* The properties                                                          *)

(***************************************************************************)
(* When a load is through and everything sent was received, the UI shows   *)
(* the entities of the core, none more, none less and none out of date,    *)
(* except those that a change displaced between the pages of the load: of  *)
(* them none is out of date, but the code may have dropped one.  For every *)
(* number of entities, page size, interleaving of events with the pages,   *)
(* and loads superseded or cut short before.                               *)
(***************************************************************************)
THEOREM LoadsMatch == Spec => []LoadedMatchesCore
<1>1. IInv => LoadedMatchesCore
  <2> SUFFICES ASSUME IInv, Settled, NEW i \in Ids
               PROVE  entities[i] = core[i] \/ (i \in displaced /\ entities[i] = Absent)
    BY DEF LoadedMatchesCore
  <2>1. inbox = <<>> /\ \A p \in DOMAIN inbox : FALSE
    BY DEF Settled
  <2>2. /\ i \notin displaced => InSync(inbox, core, entities, i)
        /\ NotOutdated(inbox, core, entities, i)
    BY DEF IInv, SyncInv, Settled
  <2>3. NoneAfter(inbox, 0, i)
    BY <2>1 DEF NoneAfter
  <2> QED BY <2>2, <2>3 DEF InSync, NotOutdated
<1> QED BY <1>1, InitIInv, Step, PTL DEF Spec

\* An entity that is lacked behind the first message, but there, is told of as new.
LEMMA LackedIsToldOf ==
  ASSUME IInv, inbox # <<>>, inbox' = Tail(inbox), NEW i, Lacked(inbox, core, 1, i),
         core[i] # Absent
  PROVE  \E n \in DOMAIN inbox' : inbox'[n].type = "new" /\ inbox'[n].id = i
<1>1. /\ inbox \in Seq(Messages) /\ Len(inbox) \in Nat
      /\ DOMAIN inbox = 1..Len(inbox) /\ DOMAIN inbox' = 1..(Len(inbox) - 1)
      /\ \A q \in 1..(Len(inbox) - 1) : inbox'[q] = inbox[q + 1]
  BY TypeFacts, Taken
<1>2. PICK q \in DOMAIN inbox : FirstAfter(inbox, 1, q, i) /\ inbox[q].type = "new"
  BY DEF Lacked
<1>3. q > 1 /\ inbox[q].id = i
  BY <1>2 DEF FirstAfter, About
<1>4. q - 1 \in DOMAIN inbox' /\ (q - 1) + 1 = q /\ q - 1 \in 1..(Len(inbox) - 1)
  BY <1>1, <1>3
<1>5. inbox'[q - 1] = inbox[q]
  BY <1>1, <1>4
<1> QED BY <1>2, <1>3, <1>4, <1>5

(***************************************************************************)
(* No step drops an entity that the core has and does not tell of again,   *)
(* unless a change displaced it between the pages of the load: what        *)
(* removes it is its own deletion, or the last page of a load without it.  *)
(* A load that failed or was superseded removes nothing.                   *)
(***************************************************************************)
THEOREM RemovedIsDeleted == Spec => OnlyDeletedIsRemoved
<1> DEFINE Drops(i) == entities[i] # Absent /\ entities'[i] = Absent /\ core[i] # Absent
           ToldOf(i) == \E n \in DOMAIN inbox' : inbox'[n].type = "new" /\ inbox'[n].id = i
<1>1. ASSUME IInv, [Next]_vars, NEW i \in Ids \ displaced, Drops(i)
      PROVE  ToldOf(i)
  <2>1. CASE UNCHANGED entities
    BY <1>1, <2>1
  <2>2. CASE CoreDisconnected
    <3>1. entities'[i] = Unavailable
      BY <1>1, <2>2 DEF CoreDisconnected
    <3> QED BY <1>1, <3>1 DEF Absent, Unavailable
  <2>3. CASE Receive
    <3> DEFINE m == Head(inbox)
    <3>1. inbox # <<>> /\ inbox' = Tail(inbox)
      BY <2>3 DEF Receive
    <3>2. /\ inbox \in Seq(Messages) /\ m = inbox[1] /\ m \in Messages /\ 1 \in DOMAIN inbox
          /\ Accurate(inbox, core, 1)
      BY <1>1, <3>1, HeadIsAccurate
    <3>3. entities \in [Ids -> {Absent, Unavailable} \cup Versions]
      BY <1>1, TypeFacts
    <3>4. CASE m.type = "page" /\ PageArrives(m)
      <4>1. m.items \in Items /\ \A j \in DOMAIN m.items : m.items[j] # Absent
        BY <3>2, <3>4, MessageType, ItemsType
      <4>2. m.request \in waiting /\ IsCurrent(m.request.generation)
        BY <1>1, <3>4 DEF PageArrives
      <4>3. m.request.generation = generation
        BY <4>2 DEF IsCurrent
      <4>4. CASE HasNext(m)
        <5>1. entities' = WithPage(m)
          BY <3>4, <4>2, <4>4 DEF PageArrives, ApplyPage
        <5> QED BY <1>1, <4>1, <5>1 DEF WithPage
      <4>5. CASE ~HasNext(m)
        <5>1. entities' = WithoutMissing(WithPage(m), loaded[generation] \cup DOMAIN m.items)
          BY <3>4, <4>2, <4>3, <4>5 DEF PageArrives, ApplyPage
        <5>2. i \notin loaded[generation] \cup DOMAIN m.items
          BY <1>1, <4>1, <5>1 DEF WithPage, WithoutMissing
        <5>3. Lacked(inbox, core, 1, i)
          BY <1>1, <3>1, <3>4, <4>2, <4>5, <5>2, LeftOutIsLacked
        <5> QED BY <1>1, <3>1, <5>3, LackedIsToldOf
      <4> QED BY <4>4, <4>5
    <3>5. CASE m.type = "delete" /\ EventArrives(m)
      <4>1. entities' = [entities EXCEPT ![m.id] = Absent]
        BY <3>5 DEF EventArrives, EntityDeleted
      <4>2. m.id = i
        BY <1>1, <3>3, <4>1
      <4>3. Lacked(inbox, core, 1, i)
        BY <3>2, <3>5, <4>2 DEF Accurate
      <4> QED BY <1>1, <3>1, <4>3, LackedIsToldOf
    <3>6. CASE m.type \in {"new", "change"} /\ EventArrives(m)
      <4>1. m.version # Absent
        BY <3>2, <3>6, MessageType DEF Versions, Absent
      <4>2. \/ entities' = [entities EXCEPT ![m.id] = m.version]
            \/ entities' = entities
        BY <3>6 DEF EventArrives, EntityAdded, EntityChanged
      <4> QED BY <1>1, <3>3, <4>1, <4>2
    <3>7. CASE m.type = "error" /\ PageFails(m.request)
      BY <1>1, <3>7 DEF PageFails, LoadFailed
    <3>8. CASE UNCHANGED entities
      BY <1>1, <3>8
    <3> QED BY <2>3, <3>4, <3>5, <3>6, <3>7, <3>8 DEF Receive
  <2> HIDE DEF Drops, ToldOf
  <2>4. ASSUME ~CoreDisconnected, ~Receive
        PROVE  UNCHANGED entities
    BY <1>1, <2>4 DEF Next, CoreSetsEntity, CoreDeletesEntity, CoreAsksReload, CoreAnswers,
                      CoreConnected, RequestTimesOut, PageFails, LoadFailed, vars
  <2> QED BY <2>1, <2>2, <2>3, <2>4
<1>2. IInv /\ [Next]_vars =>
        [\A i \in Ids \ displaced :
           entities[i] # Absent /\ entities'[i] = Absent /\ core[i] # Absent =>
             \E n \in DOMAIN inbox' : inbox'[n].type = "new" /\ inbox'[n].id = i]_vars
  BY <1>1
<1> QED BY <1>2, InitIInv, Step, PTL DEF Spec, OnlyDeletedIsRemoved
=============================================================================
