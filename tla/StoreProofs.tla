----------------------------- MODULE StoreProofs ------------------------------
(***************************************************************************)
(* What Store promises of every payload it keeps, and that it implements   *)
(* ExpiringMap, for all keys, data blocks and lifetimes.                   *)
(***************************************************************************)
EXTENDS Store, SequenceTheorems, TLAPS

StorePayload == [data : Seq(Nat), ttl : Nat, bytes : Nat, created_at : Nat]

StoreInv ==
  /\ now \in Nat
  /\ db \in [Keys -> StorePayload \cup {Absent}]
  /\ BytesCountData

\* Append and Prepend: the byte counts add up as the lengths do.
LEMMA ExtendedCounts ==
  ASSUME NEW old \in StorePayload, NEW sp \in StorePayload, NEW data \in Seq(Nat),
         old.bytes = Len(old.data), sp.bytes = Len(sp.data),
         Len(data) = Len(old.data) + Len(sp.data)
  PROVE  /\ Extended(old, sp, data) \in StorePayload
         /\ Extended(old, sp, data).bytes = Len(Extended(old, sp, data).data)
<1>1. old.bytes + sp.bytes \in Nat /\ sp.ttl \in Nat /\ sp.created_at \in Nat /\ old.bytes \in Nat
  BY DEF StorePayload
<1> DEFINE sum == old.bytes + sp.bytes
<1>2. Extended(old, sp, data) =
        [old EXCEPT !.data = data, !.ttl = sp.ttl, !.created_at = sp.created_at, !.bytes = sum]
  BY DEF Extended, StorePayload
<1>3. sum \in Nat /\ sum = Len(data)
  BY Zenon, <1>1
<1> HIDE DEF sum
<1>4. Extended(old, sp, data) \in StorePayload
  BY Zenon, <1>1, <1>2, <1>3 DEF StorePayload
<1>5. Extended(old, sp, data).bytes = sum /\ Extended(old, sp, data).data = data
  BY <1>2 DEF StorePayload
<1> QED
  BY Zenon, <1>3, <1>4, <1>5

\* Whatever a setter inserts has the right byte count.
LEMMA InsertedCounts ==
  ASSUME NEW old \in StorePayload \cup {Absent}, NEW sp \in StorePayload, sp.bytes = Len(sp.data),
         old # Absent => old.bytes = Len(old.data),
         NEW setter \in {"set", "add", "replace", "append", "prepend"}, Stores(setter, old)
  PROVE  /\ Inserted(setter, old, sp) \in StorePayload
         /\ Inserted(setter, old, sp).bytes = Len(Inserted(setter, old, sp).data)
<1>1. CASE setter \in {"append", "prepend"}
  <2>1. old \in StorePayload /\ old.bytes = Len(old.data)
    BY <1>1 DEF Stores
  <2> DEFINE after  == old.data \o sp.data
             before == sp.data \o old.data
  <2>2. old.data \in Seq(Nat) /\ sp.data \in Seq(Nat)
    BY <2>1 DEF StorePayload
  <2>3. after \in Seq(Nat) /\ before \in Seq(Nat)
    BY <2>2
  <2>4. Len(after) = Len(old.data) + Len(sp.data) /\ Len(before) = Len(old.data) + Len(sp.data)
    <3>1. Len(after) = Len(old.data) + Len(sp.data) /\ Len(before) = Len(sp.data) + Len(old.data)
      BY <2>2, ConcatProperties
    <3>2. Len(old.data) \in Nat /\ Len(sp.data) \in Nat
      BY <2>2, LenProperties
    <3>a. \A a, b \in Nat : a + b = b + a
      OBVIOUS
    <3>3. Len(sp.data) + Len(old.data) = Len(old.data) + Len(sp.data)
      BY Zenon, <3>2, <3>a
    <3> HIDE DEF after, before
    <3> QED
      BY Zenon, <3>1, <3>3
  <2>5. /\ setter = "append" => Inserted(setter, old, sp) = Extended(old, sp, after)
        /\ setter = "prepend" => Inserted(setter, old, sp) = Extended(old, sp, before)
    BY DEF Inserted
  <2> HIDE DEF after, before
  <2>6. CASE setter = "append"
    <3>1. Inserted(setter, old, sp) = Extended(old, sp, after)
      BY <2>5, <2>6
    <3>2. /\ Extended(old, sp, after) \in StorePayload
          /\ Extended(old, sp, after).bytes = Len(Extended(old, sp, after).data)
      BY Zenon, <2>1, <2>3, <2>4, ExtendedCounts
    <3> QED
      BY <3>1, <3>2
  <2>7. CASE setter = "prepend"
    <3>1. Inserted(setter, old, sp) = Extended(old, sp, before)
      BY <2>5, <2>7
    <3>2. /\ Extended(old, sp, before) \in StorePayload
          /\ Extended(old, sp, before).bytes = Len(Extended(old, sp, before).data)
      BY Zenon, <2>1, <2>3, <2>4, ExtendedCounts
    <3> QED
      BY <3>1, <3>2
  <2> QED
    BY <1>1, <2>6, <2>7
<1>2. CASE setter \in {"set", "add", "replace"}
  BY <1>2 DEF Inserted
<1> QED
  BY <1>1, <1>2

\* Every step of apply and of the clock keeps StoreInv.
LEMMA StoreStep == StoreInv /\ [Next]_vars => StoreInv'
<1> SUFFICES ASSUME StoreInv, [Next]_vars PROVE StoreInv'
  OBVIOUS
<1>1. ASSUME NEW setter \in {"set", "add", "replace", "append", "prepend"}, NEW k \in Keys,
             NEW data \in Payloads, NEW ttl \in TTLs, Setter(setter, k, data, ttl)
      PROVE  StoreInv'
  <2> DEFINE sp == [data |-> data, ttl |-> ttl, bytes |-> Len(data), created_at |-> now]
             new == Inserted(setter, db[k], sp)
  <2>1. sp \in StorePayload /\ sp.bytes = Len(sp.data)
    BY StoreAssumption DEF StoreInv, StorePayload
  <2>2. db[k] \in StorePayload \cup {Absent} /\ (db[k] # Absent => db[k].bytes = Len(db[k].data))
    BY DEF StoreInv, BytesCountData
  <2>3. now' = now /\ (db' = db \/ (Stores(setter, db[k]) /\ db' = [db EXCEPT ![k] = new]))
    BY <1>1 DEF Setter
  <2> HIDE DEF sp
  <2>4. Stores(setter, db[k]) => new \in StorePayload /\ new.bytes = Len(new.data)
    BY <2>1, <2>2, InsertedCounts
  <2> HIDE DEF new
  <2> QED
    BY <2>3, <2>4 DEF StoreInv, BytesCountData
<1>2. ASSUME NEW k \in Keys, Deleter(k) PROVE StoreInv'
  BY <1>2 DEF Deleter, StoreInv, BytesCountData
<1>3. ASSUME Tick \/ GetterNext \/ BadDataChunk \/ OtherRequest \/ UNCHANGED vars PROVE StoreInv'
  <2>1. db' = db /\ now' \in Nat
    BY <1>3 DEF Tick, GetterNext, BadDataChunk, OtherRequest, vars, StoreInv
  <2> QED
    BY <2>1 DEF StoreInv, BytesCountData
<1>4. ASSUME NEW keys \in KeyLists, Getter(keys) PROVE StoreInv'
  BY <1>4 DEF Getter, StoreInv, BytesCountData
<1> QED
  BY <1>1, <1>2, <1>3, <1>4 DEF Next

(***************************************************************************)
(* Each stored payload's bytes is the length of its data, for data blocks  *)
(* of any length and any sequence of set, add, replace, append, prepend    *)
(* and delete, whether or not they meet expired payloads (Store::apply).   *)
(***************************************************************************)
THEOREM ByteCounts == Spec => []BytesCountData
<1>1. Init => StoreInv
  BY DEF Init, StoreInv, BytesCountData
<1>2. StoreInv => BytesCountData
  BY DEF StoreInv
<1> QED
  BY <1>1, <1>2, StoreStep, PTL DEF Spec
------------------------------------------------------------------------------
(***************************************************************************)
(* The refinement of ExpiringMap.  A get's todo and v are sequences, and   *)
(* what a client can see of a payload at a time is ItemAt.                 *)
(***************************************************************************)
GetRespItem == [key : Keys, data : Seq(Nat), bytes : Nat]

GetInv == todo \in Seq(Keys) /\ v \in Seq(GetRespItem)

OverAt(p, t) == p # Absent /\ p.ttl # 0 /\ p.created_at + p.ttl =< t

ItemAt(p, t) == IF p = Absent \/ OverAt(p, t) THEN Absent ELSE ItemOf(p)

LapsedAt(p, t) == IF p # Absent /\ OverAt(p, t) THEN ItemOf(p) ELSE Absent

Item == [data : Seq(Nat), deadline : Nat \cup {Forever}]

\* What a client sees of the store: the items that have not expired, and,
\* in the answers to requests that are no get, those that have.
LEMMA VisibleItems ==
  /\ Visible = [k \in Keys |-> ItemAt(db[k], now)]
  /\ Lapsed = [k \in Keys |-> LapsedAt(db[k], now)]
BY Zenon DEF Visible, Lapsed, ItemAt, LapsedAt, OverAt, IsExpired

\* The same of the next state.
LEMMA VisibleNext ==
  /\ Visible' = [k \in Keys |-> ItemAt(db'[k], now')]
  /\ Lapsed' = [k \in Keys |-> LapsedAt(db'[k], now')]
BY Zenon DEF Visible, Lapsed, ItemAt, LapsedAt, OverAt, IsExpired

\* A step that changes neither payloads nor the time changes no item.
LEMMA SameItems ==
  ASSUME db' = db, now' = now
  PROVE  Visible' = Visible /\ Lapsed' = Lapsed
BY Zenon DEF Visible, Lapsed, IsExpired

\* The item of a payload is a record with its data and its deadline.
LEMMA ItemOfPayload ==
  ASSUME NEW p \in StorePayload
  PROVE  /\ p # Absent /\ ItemOf(p) # Absent
         /\ ItemOf(p).data = p.data
         /\ ItemOf(p).deadline = IF p.ttl = 0 THEN Forever ELSE p.created_at + p.ttl
<1> DEFINE d == IF p.ttl = 0 THEN Forever ELSE p.created_at + p.ttl
<1>1. p # Absent
  BY Zenon, AbsentAssumption DEF StorePayload
<1>2. ItemOf(p) = [data |-> p.data, deadline |-> d]
  BY Zenon DEF ItemOf
<1>3. d \in Nat \cup {Forever} /\ p.data \in Seq(Nat)
  BY DEF StorePayload
<1> HIDE DEF d
<1>4. [data |-> p.data, deadline |-> d] \in Item
  BY Zenon, <1>3 DEF Item
<1>5. ItemOf(p) # Absent
  BY Zenon, <1>2, <1>4, AbsentAssumption DEF Item
<1>6. ItemOf(p).data = p.data /\ ItemOf(p).deadline = d
  BY <1>2
<1> QED
  BY Zenon, <1>1, <1>5, <1>6 DEF d

\* A second later, exactly the items whose deadline it is have lapsed.
LEMMA TickItem ==
  ASSUME NEW p \in StorePayload \cup {Absent}, NEW t \in Nat
  PROVE  /\ ItemAt(p, t + 1) = IF EM!Ended(ItemAt(p, t), t + 1) THEN Absent ELSE ItemAt(p, t)
         /\ LapsedAt(p, t + 1) = IF EM!Ended(ItemAt(p, t), t + 1) THEN ItemAt(p, t) ELSE LapsedAt(p, t)
<1>1. CASE p = Absent
  BY Zenon, <1>1 DEF ItemAt, LapsedAt, EM!Ended
<1>2. CASE p \in StorePayload /\ OverAt(p, t)
  <2>1. OverAt(p, t + 1)
    BY <1>2 DEF StorePayload, OverAt
  <2>2. p # Absent
    BY Zenon, <1>2, ItemOfPayload
  <2> QED
    BY Zenon, <1>2, <2>1, <2>2 DEF ItemAt, LapsedAt, EM!Ended
<1>3. CASE p \in StorePayload /\ ~OverAt(p, t)
  <2> DEFINE i == ItemOf(p)
             d == IF p.ttl = 0 THEN Forever ELSE p.created_at + p.ttl
  <2>1. p # Absent /\ i # Absent /\ i.deadline = d
    BY Zenon, <1>3, ItemOfPayload
  <2>2. ItemAt(p, t) = i /\ LapsedAt(p, t) = Absent
    BY Zenon, <1>3, <2>1 DEF ItemAt, LapsedAt
  <2>3. EM!Ended(i, t + 1) <=> d # Forever /\ d =< t + 1
    BY Zenon, <2>1 DEF EM!Ended
  <2>4. d # Forever /\ d =< t + 1 <=> OverAt(p, t + 1)
    <3>1. p.created_at + p.ttl \in Nat
      BY <1>3 DEF StorePayload
    <3> QED
      BY Zenon, <2>1, <3>1, AbsentAssumption DEF OverAt
  <2>5. EM!Ended(i, t + 1) <=> OverAt(p, t + 1)
    BY Zenon, <2>3, <2>4
  <2> HIDE DEF i, d
  <2>6. /\ ItemAt(p, t + 1) = IF OverAt(p, t + 1) THEN Absent ELSE i
        /\ LapsedAt(p, t + 1) = IF OverAt(p, t + 1) THEN i ELSE Absent
    BY Zenon, <2>1 DEF ItemAt, LapsedAt, i
  <2> QED
    BY Zenon, <2>2, <2>5, <2>6
<1> QED
  BY Zenon, <1>1, <1>2, <1>3

\* What a setter inserts has the lifetime of the request.
LEMMA InsertedFields ==
  ASSUME NEW old \in StorePayload \cup {Absent}, NEW sp \in StorePayload,
         NEW setter \in {"set", "add", "replace", "append", "prepend"}, Stores(setter, old)
  PROVE  /\ Inserted(setter, old, sp).ttl = sp.ttl
         /\ Inserted(setter, old, sp).created_at = sp.created_at
         /\ Inserted(setter, old, sp).data = EM!NewData(setter, old, sp.data)
<1>1. CASE setter \in {"append", "prepend"}
  <2>1. old \in StorePayload
    BY <1>1 DEF Stores
  <2>2. ASSUME NEW data
        PROVE  /\ Extended(old, sp, data).ttl = sp.ttl /\ Extended(old, sp, data).data = data
               /\ Extended(old, sp, data).created_at = sp.created_at
    BY <2>1 DEF Extended, StorePayload
  <2> DEFINE data == EM!NewData(setter, old, sp.data)
  <2>3. Inserted(setter, old, sp) = Extended(old, sp, data)
    BY <1>1 DEF Inserted, EM!NewData
  <2> HIDE DEF data
  <2>4. /\ Inserted(setter, old, sp).ttl = sp.ttl /\ Inserted(setter, old, sp).data = data
        /\ Inserted(setter, old, sp).created_at = sp.created_at
    BY Zenon, <2>2, <2>3
  <2> QED
    BY Zenon, <2>4 DEF data
<1>2. CASE setter \in {"set", "add", "replace"}
  <2>1. Inserted(setter, old, sp) = sp /\ EM!NewData(setter, old, sp.data) = sp.data
    BY <1>2 DEF Inserted, EM!NewData
  <2> QED
    BY Zenon, <2>1
<1> QED
  BY <1>1, <1>2

\* What a setter or a deleter finds in the abstract map is the item of the
\* payload, expired or not.
LEMMA FoundItem ==
  ASSUME StoreInv, NEW k \in Keys
  PROVE  EM!At(k) = IF db[k] = Absent THEN Absent ELSE ItemOf(db[k])
<1> DEFINE p == db[k]
<1>1. p \in StorePayload \cup {Absent}
  BY DEF StoreInv
<1>2. Visible[k] = ItemAt(p, now) /\ Lapsed[k] = LapsedAt(p, now)
  BY Zenon, VisibleItems
<1>3. EM!At(k) = IF ItemAt(p, now) # Absent THEN ItemAt(p, now) ELSE LapsedAt(p, now)
  BY Zenon, <1>2 DEF EM!At
<1> HIDE DEF p
<1>4. p # Absent => ItemOf(p) # Absent
  BY Zenon, <1>1, ItemOfPayload
<1>5. EM!At(k) = IF p = Absent THEN Absent ELSE ItemOf(p)
  BY Zenon, <1>3, <1>4 DEF ItemAt, LapsedAt
<1> QED
  BY Zenon, <1>5 DEF p

\* A setter does what it would do to that item.
LEMMA SameAnswer ==
  ASSUME NEW p \in StorePayload \cup {Absent}, NEW i, NEW data,
         i = IF p = Absent THEN Absent ELSE ItemOf(p),
         NEW setter \in {"set", "add", "replace", "append", "prepend"}
  PROVE  /\ EM!Allowed(setter, i) <=> Stores(setter, p)
         /\ Stores(setter, p) => EM!NewData(setter, i, data) = EM!NewData(setter, p, data)
<1>1. /\ i = Absent <=> p = Absent
      /\ p # Absent => i.data = p.data
  BY Zenon, ItemOfPayload
<1>2. EM!Allowed(setter, i) <=> Stores(setter, p)
  BY Zenon, <1>1 DEF EM!Allowed, Stores
<1>3. Stores(setter, p) => EM!NewData(setter, i, data) = EM!NewData(setter, p, data)
  BY <1>1 DEF EM!NewData, Stores
<1> QED
  BY Zenon, <1>2, <1>3

\* What was stored this second has not lapsed.
LEMMA NewItem ==
  ASSUME NEW p \in StorePayload, NEW t \in Nat, p.created_at = t
  PROVE  /\ ItemAt(p, t) = [data |-> p.data, deadline |-> IF p.ttl = 0 THEN Forever ELSE t + p.ttl]
         /\ LapsedAt(p, t) = Absent
<1>1. ~OverAt(p, t)
  BY DEF StorePayload, OverAt
<1>2. p # Absent
  BY Zenon, AbsentAssumption DEF StorePayload
<1> QED
  BY Zenon, <1>1, <1>2 DEF ItemAt, LapsedAt, ItemOf

\* Replacing one payload replaces what can be seen of it and nothing else.
LEMMA VisibleExcept ==
  ASSUME NEW k \in Keys, NEW p, db \in [Keys -> StorePayload \cup {Absent}],
         db' = [db EXCEPT ![k] = p], now' = now
  PROVE  /\ Visible' = [Visible EXCEPT ![k] = ItemAt(p, now)]
         /\ Lapsed' = [Lapsed EXCEPT ![k] = LapsedAt(p, now)]
<1>1. ASSUME NEW l \in Keys
      PROVE  /\ ItemAt(db'[l], now') = IF l = k THEN ItemAt(p, now) ELSE ItemAt(db[l], now)
             /\ LapsedAt(db'[l], now') = IF l = k THEN LapsedAt(p, now) ELSE LapsedAt(db[l], now)
  BY Zenon
<1>2. Visible' = [Visible EXCEPT ![k] = ItemAt(p, now)]
  BY Zenon, <1>1, VisibleItems, VisibleNext
<1>3. Lapsed' = [Lapsed EXCEPT ![k] = LapsedAt(p, now)]
  BY Zenon, <1>1, VisibleItems, VisibleNext
<1> QED
  BY Zenon, <1>2, <1>3

\* Each of the five setters is a write of the abstract map.
LEMMA SetterWrites ==
  ASSUME StoreInv,
         NEW setter \in {"set", "add", "replace", "append", "prepend"}, NEW k \in Keys,
         NEW data \in Payloads, NEW ttl \in TTLs, Setter(setter, k, data, ttl)
  PROVE  EM!Write(setter, k, data, ttl)
<1> DEFINE p   == db[k]
           sp  == [data |-> data, ttl |-> ttl, bytes |-> Len(data), created_at |-> now]
           new == Inserted(setter, p, sp)
           i   == EM!At(k)
<1>1. /\ now \in Nat /\ p \in StorePayload \cup {Absent} /\ (p # Absent => p.bytes = Len(p.data))
      /\ db \in [Keys -> StorePayload \cup {Absent}]
  BY DEF StoreInv, BytesCountData
<1>2. sp \in StorePayload /\ sp.bytes = Len(sp.data)
  BY StoreAssumption, <1>1 DEF StorePayload
<1>3. sp.data = data /\ sp.ttl = ttl /\ sp.created_at = now
  OBVIOUS
<1>4. i = IF p = Absent THEN Absent ELSE ItemOf(p)
  BY Zenon, FoundItem
<1>5. /\ EM!Allowed(setter, i) <=> Stores(setter, p)
      /\ Stores(setter, p) => EM!NewData(setter, i, data) = EM!NewData(setter, p, data)
  <2> HIDE DEF p, i
  <2> QED
    BY Zenon, <1>1, <1>4, SameAnswer
<1>6. /\ todo = <<>> /\ UNCHANGED <<now, todo, v>>
      /\ Stores(setter, p) => db' = [db EXCEPT ![k] = new] /\ resp' = Response("Stored")
      /\ ~Stores(setter, p) => resp' = Response("NotStored") /\ UNCHANGED db
  BY Zenon DEF Setter
<1>7. CASE Stores(setter, p)
  <2> DEFINE item == [data |-> EM!NewData(setter, i, data), deadline |-> EM!Deadline(ttl)]
  <2>1. new \in StorePayload
    <3> HIDE DEF p, sp
    <3> QED
      BY Zenon, <1>1, <1>2, <1>7, InsertedCounts
  <2>2. new.ttl = ttl /\ new.created_at = now /\ new.data = EM!NewData(setter, p, data)
    <3> HIDE DEF p, sp
    <3> QED
      BY Zenon, <1>1, <1>2, <1>3, <1>7, InsertedFields
  <2>3. ItemAt(new, now) = item /\ LapsedAt(new, now) = Absent
    <3> HIDE DEF new, p, i
    <3> QED
      BY Zenon, <1>1, <1>5, <1>7, <2>1, <2>2, NewItem DEF EM!Deadline
  <2>4. Visible' = [Visible EXCEPT ![k] = item] /\ Lapsed' = [Lapsed EXCEPT ![k] = Absent]
    <3> HIDE DEF new
    <3>1. /\ Visible' = [Visible EXCEPT ![k] = ItemAt(new, now)]
          /\ Lapsed' = [Lapsed EXCEPT ![k] = LapsedAt(new, now)]
      BY Zenon, <1>1, <1>6, <1>7, VisibleExcept
    <3> QED
      BY Zenon, <2>3, <3>1
  <2> QED
    BY Zenon, <1>5, <1>6, <1>7, <2>4 DEF EM!Write, EM!Reply, Response
<1>8. CASE ~Stores(setter, p)
  <2>1. Visible' = Visible /\ Lapsed' = Lapsed
    BY Zenon, <1>6, <1>8, SameItems
  <2> QED
    BY Zenon, <1>5, <1>6, <1>8, <2>1 DEF EM!Write, EM!Reply, Response
<1> QED
  BY Zenon, <1>7, <1>8

\* So is a deleter a delete.
LEMMA DeleterDeletes ==
  ASSUME StoreInv, NEW k \in Keys, Deleter(k)
  PROVE  EM!Delete(k)
<1> DEFINE p == db[k]
<1>1. p \in StorePayload \cup {Absent} /\ db \in [Keys -> StorePayload \cup {Absent}]
  BY DEF StoreInv
<1>2. EM!At(k) = IF p = Absent THEN Absent ELSE ItemOf(p)
  BY Zenon, FoundItem
<1>3. /\ todo = <<>> /\ UNCHANGED <<now, todo, v>>
      /\ resp' = Response(IF p = Absent THEN "NotFound" ELSE "Deleted")
      /\ db' = [db EXCEPT ![k] = Absent]
  BY Zenon DEF Deleter
<1>4. Visible' = [Visible EXCEPT ![k] = Absent] /\ Lapsed' = [Lapsed EXCEPT ![k] = Absent]
  <2>1. /\ Visible' = [Visible EXCEPT ![k] = ItemAt(Absent, now)]
        /\ Lapsed' = [Lapsed EXCEPT ![k] = LapsedAt(Absent, now)]
    BY Zenon, <1>1, <1>3, VisibleExcept
  <2>2. ItemAt(Absent, now) = Absent /\ LapsedAt(Absent, now) = Absent
    BY Zenon DEF ItemAt, LapsedAt
  <2> QED
    BY Zenon, <2>1, <2>2
<1> HIDE DEF p
<1>5. EM!At(k) = Absent <=> p = Absent
  BY Zenon, <1>1, <1>2, ItemOfPayload
<1> QED
  BY Zenon, <1>3, <1>4, <1>5 DEF EM!Delete, EM!Reply, Response

\* Time passes in both.
LEMMA TickTicks ==
  ASSUME StoreInv, Tick
  PROVE  EM!Tick
<1>1. now \in Nat /\ now' = now + 1 /\ db' = db /\ UNCHANGED <<todo, v, resp>>
  BY DEF StoreInv, Tick
<1>2. ASSUME NEW k \in Keys
      PROVE  /\ ItemAt(db'[k], now') = IF EM!Ended(Visible[k], now') THEN Absent ELSE Visible[k]
             /\ LapsedAt(db'[k], now') = IF EM!Ended(Visible[k], now') THEN Visible[k] ELSE Lapsed[k]
  <2> DEFINE p == db[k]
  <2>1. p \in StorePayload \cup {Absent}
    BY DEF StoreInv
  <2>2. Visible[k] = ItemAt(p, now) /\ Lapsed[k] = LapsedAt(p, now)
    BY Zenon, VisibleItems
  <2>3. db'[k] = p
    BY Zenon, <1>1
  <2> HIDE DEF p
  <2>4. /\ ItemAt(p, now + 1) = IF EM!Ended(ItemAt(p, now), now + 1) THEN Absent ELSE ItemAt(p, now)
        /\ LapsedAt(p, now + 1) = IF EM!Ended(ItemAt(p, now), now + 1) THEN ItemAt(p, now) ELSE LapsedAt(p, now)
    BY Zenon, <1>1, <2>1, TickItem
  <2> QED
    BY Zenon, <1>1, <2>2, <2>3, <2>4
<1>3. /\ Visible' = [k \in Keys |-> IF EM!Ended(Visible[k], now') THEN Absent ELSE Visible[k]]
      /\ Lapsed' = [k \in Keys |-> IF EM!Ended(Visible[k], now') THEN Visible[k] ELSE Lapsed[k]]
  BY Zenon, <1>2, VisibleNext
<1> QED
  BY Zenon, <1>1, <1>3 DEF EM!Tick

\* A round of get adds the item that the map has at the key, with its length.
LEMMA GetterLooksUp ==
  ASSUME StoreInv, GetInv, GetterNext
  PROVE  EM!Lookup
<1> DEFINE k    == Head(todo)
           p    == db[k]
           hit  == IF Visible[k] = Absent THEN <<>>
                   ELSE <<[key |-> k, data |-> Visible[k].data, bytes |-> Len(Visible[k].data)]>>
           items == IF p # Absent /\ ~IsExpired(p)
                    THEN Append(v, [key |-> k, data |-> p.data, bytes |-> p.bytes]) ELSE v
<1>1. k \in Keys /\ todo # <<>>
  BY DEF GetInv, GetterNext
<1>2. /\ now \in Nat /\ p \in StorePayload \cup {Absent} /\ (p # Absent => p.bytes = Len(p.data))
      /\ v \in Seq(GetRespItem)
  BY <1>1 DEF StoreInv, GetInv, BytesCountData
<1>3. /\ todo' = Tail(todo) /\ UNCHANGED <<db, now>>
      /\ IF Tail(todo) = <<>> THEN resp' = [kind |-> "Get", items |-> items] /\ v' = <<>>
                              ELSE v' = items /\ UNCHANGED resp
  BY Zenon DEF GetterNext
<1>4. Visible' = Visible /\ Lapsed' = Lapsed
  BY Zenon, <1>3, SameItems
<1>5. Visible[k] = ItemAt(p, now)
  BY Zenon, <1>1, VisibleItems
<1>6. items = v \o hit
  <2> HIDE DEF k, p
  <2>1. CASE p = Absent \/ IsExpired(p)
    <3>1. ItemAt(p, now) = Absent
      BY Zenon, <2>1 DEF ItemAt, OverAt, IsExpired
    <3>2. hit = <<>> /\ items = v
      BY Zenon, <1>5, <2>1, <3>1
    <3>3. v \o <<>> = v
      BY <1>2
    <3> QED
      BY Zenon, <3>2, <3>3
  <2>2. CASE p # Absent /\ ~IsExpired(p)
    <3> DEFINE e == [key |-> k, data |-> p.data, bytes |-> p.bytes]
    <3>1. Visible[k] # Absent /\ Visible[k].data = p.data
      BY Zenon, <1>2, <1>5, <2>2, ItemOfPayload DEF ItemAt, OverAt, IsExpired
    <3>2. hit = <<e>> /\ items = Append(v, e)
      BY Zenon, <1>2, <2>2, <3>1
    <3>3. e \in GetRespItem
      BY <1>1, <1>2, <2>2 DEF GetRespItem, StorePayload
    <3> HIDE DEF e
    <3>4. Append(v, e) = v \o <<e>>
      BY <1>2, <3>3, AppendIsConcat
    <3> HIDE DEF hit, items
    <3> QED
      BY Zenon, <3>2, <3>4
  <2> QED
    BY Zenon, <2>1, <2>2
<1>7. IF Tail(todo) = <<>> THEN resp' = [kind |-> "Get", items |-> v \o hit] /\ v' = <<>>
                           ELSE v' = v \o hit /\ UNCHANGED resp
  <2> HIDE DEF items, hit
  <2> QED
    BY Zenon, <1>3, <1>6
<1> QED
  BY Zenon, <1>1, <1>3, <1>4, <1>7 DEF EM!Lookup

\* A get's lists stay sequences.
LEMMA GetStep == StoreInv /\ GetInv /\ [Next]_vars => GetInv'
<1> SUFFICES ASSUME StoreInv, GetInv, [Next]_vars PROVE GetInv'
  OBVIOUS
<1>1. CASE UNCHANGED <<todo, v>>
  BY <1>1 DEF GetInv
<1>2. ASSUME NEW keys \in KeyLists, Getter(keys) PROVE GetInv'
  BY <1>2, StoreAssumption DEF GetInv, Getter
<1>3. CASE GetterNext
  <2> DEFINE k == Head(todo)
             p == db[k]
             e == [key |-> k, data |-> p.data, bytes |-> p.bytes]
  <2>1. k \in Keys /\ Tail(todo) \in Seq(Keys)
    BY <1>3 DEF GetInv, GetterNext
  <2>2. p \in StorePayload \cup {Absent} /\ v \in Seq(GetRespItem)
    BY <2>1 DEF StoreInv, GetInv
  <2>3. p # Absent => e \in GetRespItem
    BY <2>1, <2>2 DEF GetRespItem, StorePayload
  <2>4. todo' = Tail(todo) /\ (v' \in {<<>>, v} \/ (p # Absent /\ v' = Append(v, e)))
    BY Zenon, <1>3 DEF GetterNext
  <2> HIDE DEF p, e
  <2>5. v' \in Seq(GetRespItem)
    <3>1. <<>> \in Seq(GetRespItem)
      OBVIOUS
    <3>2. ASSUME p # Absent PROVE Append(v, e) \in Seq(GetRespItem)
      BY <2>2, <2>3, <3>2, AppendProperties
    <3> QED
      BY Zenon, <2>2, <2>4, <3>1, <3>2
  <2> QED
    BY Zenon, <2>1, <2>4, <2>5 DEF GetInv
<1> QED
  BY Zenon, <1>1, <1>2, <1>3 DEF Next, vars, Tick, BadDataChunk, OtherRequest, Setter, Deleter

(***************************************************************************)
(* For all keys, data blocks and lifetimes, a client of Store::apply,      *)
(* which keeps expired payloads and compares them with the clock in get,   *)
(* is served as by a map that takes each item away in the second its       *)
(* lifetime ends: no get sees it from then on, and add, replace, append,   *)
(* prepend and delete still find it.                                       *)
(***************************************************************************)
THEOREM ExpiryRefinement == Spec => ImplementsExpiringMap
<1>1. Init => StoreInv /\ GetInv /\ EM!Init
  <2> SUFFICES ASSUME Init PROVE StoreInv /\ GetInv /\ EM!Init
    OBVIOUS
  <2>1. StoreInv
    BY DEF Init, StoreInv, BytesCountData
  <2>2. GetInv
    BY DEF Init, GetInv
  <2>3. EM!Init
    BY Zenon DEF Init, EM!Init, Visible, Lapsed, EM!Reply, Response
  <2> QED
    BY Zenon, <2>1, <2>2, <2>3
<1>2. StoreInv /\ GetInv /\ [Next]_vars => [EM!Next]_EM!vars
  <2> SUFFICES ASSUME StoreInv, GetInv, [Next]_vars PROVE [EM!Next]_EM!vars
    OBVIOUS
  <2>1. CASE UNCHANGED vars
    <3>1. Visible' = Visible /\ Lapsed' = Lapsed
      BY Zenon, <2>1, SameItems DEF vars
    <3> QED
      BY Zenon, <2>1, <3>1 DEF EM!vars, vars
  <2>2. CASE Tick
    BY Zenon, <2>2, TickTicks DEF EM!Next
  <2>3. CASE GetterNext
    BY Zenon, <2>3, GetterLooksUp DEF EM!Next
  <2>4. CASE BadDataChunk \/ OtherRequest
    <3>1. Visible' = Visible /\ Lapsed' = Lapsed
      BY Zenon, <2>4, SameItems DEF BadDataChunk, OtherRequest
    <3>2. EM!Other
      BY Zenon, <2>4, <3>1 DEF EM!Other, BadDataChunk, OtherRequest, EM!Reply, Response
    <3> QED
      BY Zenon, <3>2 DEF EM!Next
  <2>5. ASSUME NEW keys \in KeyLists, Getter(keys) PROVE EM!Next
    <3>1. Visible' = Visible /\ Lapsed' = Lapsed
      BY Zenon, <2>5, SameItems DEF Getter
    <3>2. EM!Get(keys)
      BY Zenon, <2>5, <3>1 DEF EM!Get, Getter, EM!Reply, Response
    <3> QED
      BY Zenon, <3>2 DEF EM!Next
  <2>6. ASSUME NEW setter \in {"set", "add", "replace", "append", "prepend"}, NEW k \in Keys,
               NEW data \in Payloads, NEW ttl \in TTLs, Setter(setter, k, data, ttl)
        PROVE  EM!Next
    <3>1. EM!Write(setter, k, data, ttl)
      BY Zenon, <2>6, SetterWrites
    <3> QED
      BY Zenon, <3>1 DEF EM!Next
  <2>7. ASSUME NEW k \in Keys, Deleter(k) PROVE EM!Next
    BY Zenon, <2>7, DeleterDeletes DEF EM!Next
  <2> QED
    BY Zenon, <2>1, <2>2, <2>3, <2>4, <2>5, <2>6, <2>7 DEF Next
<1> QED
  BY <1>1, <1>2, StoreStep, GetStep, PTL DEF Spec, ImplementsExpiringMap, EM!Spec
==============================================================================
