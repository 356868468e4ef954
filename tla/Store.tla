-------------------------------- MODULE Store --------------------------------
(***************************************************************************)
(* Store::apply: the memcached requests on top of DataManager, which is    *)
(* the map that KVStore specifies.  A payload carries its lifetime and the *)
(* second it was stored in; it is never removed when it expires, only left *)
(* out of the answers to get.  The server thread serves one request at a   *)
(* time, so a request that reads the clock once is one step; a get reads   *)
(* it once for every key.  Flags are left out: they are stored and         *)
(* returned like the data.                                                 *)
(***************************************************************************)
EXTENDS Integers, Sequences, FiniteSets

CONSTANTS
  Keys,          \* StoreKeys
  Payloads,      \* the data blocks of requests, sequences of bytes
  TTLs,          \* the lifetimes of requests, in seconds
  KeyLists,      \* the lists of keys a get may ask for
  Absent,        \* Option::None
  Forever,       \* no deadline
  MaxTime,       \* bound: seconds that pass
  MaxBytes       \* bound: length of the data append and prepend may build

ASSUME StoreAssumption ==
  /\ Payloads \subseteq Seq(Nat) /\ TTLs \subseteq Nat /\ KeyLists \subseteq Seq(Keys) \ {<<>>}
  /\ MaxTime \in Nat /\ MaxBytes \in Nat

\* No payload is None, and no second is "never".
ASSUME AbsentAssumption ==
  /\ Forever \notin Nat
  /\ Absent \notin [data : Seq(Nat), ttl : Nat, bytes : Nat, created_at : Nat]
  /\ Absent \notin [data : Seq(Nat), deadline : Nat \cup {Forever}]

VARIABLES
  db,    \* the contents of DataManager: key -> StorePayload or Absent
  now,   \* SystemTime::now(), in seconds
  todo,  \* the keys a get has still to look up
  v,     \* and the GetRespItems it has collected
  resp   \* the last Response

vars == <<db, now, todo, v, resp>>

Response(kind) == [kind |-> kind, items |-> <<>>]

\* Mutant of IsExpired: one second too late.
IsExpiredLate(p) == p.ttl # 0 /\ p.created_at + p.ttl < now

\* StorePayload::is_expired
IsExpired(p) == p.ttl # 0 /\ p.created_at + p.ttl =< now
------------------------------------------------------------------------------
Init ==
  /\ db = [k \in Keys |-> Absent] /\ now = 0
  /\ todo = <<>> /\ v = <<>> /\ resp = Response("none")

\* The clock goes on, between any two reads of it.  (SystemTime may also be
\* set back; that is not modelled.)
Tick ==
  /\ now < MaxTime /\ now' = now + 1
  /\ UNCHANGED <<db, todo, v, resp>>

\* Request::Getter
Getter(keys) ==
  /\ todo = <<>> /\ todo' = keys
  /\ v' = <<>> /\ resp' = Response("none")
  /\ UNCHANGED <<db, now>>

\* ... one round of its loop over the keys
GetterNext ==
  /\ todo # <<>>
  /\ LET k     == Head(todo)
         p     == db[k]
         items == IF p # Absent /\ ~IsExpired(p)
                  THEN Append(v, [key |-> k, data |-> p.data, bytes |-> p.bytes]) ELSE v
     IN  IF Tail(todo) = <<>> THEN resp' = [kind |-> "Get", items |-> items] /\ v' = <<>>
                              ELSE v' = items /\ UNCHANGED resp
  /\ todo' = Tail(todo)
  /\ UNCHANGED <<db, now>>

\* A data block longer than announced: the parser takes at least bytes bytes.
BadDataChunk ==
  /\ todo = <<>>
  /\ resp' = Response("ClientError")
  /\ UNCHANGED <<db, now, todo, v>>

\* Mutant of Extended: the item keeps the byte count it had.
ExtendedUncounted(old, sp, data) ==
  [old EXCEPT !.data = data, !.ttl = sp.ttl, !.created_at = sp.created_at]

\* Append and Prepend: a copy of the old payload with the new lifetime
Extended(old, sp, data) ==
  [old EXCEPT !.data = data, !.ttl = sp.ttl, !.created_at = sp.created_at, !.bytes = @ + sp.bytes]

\* Does the setter store, given what DataManager::get returned?
Stores(setter, old) ==
  CASE setter = "set" -> TRUE
    [] setter = "add" -> old = Absent
    [] OTHER          -> old # Absent

\* What it inserts.
Inserted(setter, old, sp) ==
  CASE setter = "append"  -> Extended(old, sp, old.data \o sp.data)
    [] setter = "prepend" -> Extended(old, sp, sp.data \o old.data)
    [] OTHER              -> sp

\* Request::Setter with a payload of the announced length.  None of its
\* branches looks at the lifetime of the payload it finds.
Setter(setter, k, data, ttl) ==
  /\ todo = <<>>
  /\ LET sp  == [data |-> data, ttl |-> ttl, bytes |-> Len(data), created_at |-> now]
         new == Inserted(setter, db[k], sp)
     IN  IF Stores(setter, db[k])
         THEN /\ Len(new.data) =< MaxBytes
              /\ db' = [db EXCEPT ![k] = new] /\ resp' = Response("Stored")
         ELSE resp' = Response("NotStored") /\ UNCHANGED db
  /\ UNCHANGED <<now, todo, v>>

\* Request::Deleter
Deleter(k) ==
  /\ todo = <<>>
  /\ resp' = Response(IF db[k] = Absent THEN "NotFound" ELSE "Deleted")
  /\ db' = [db EXCEPT ![k] = Absent]
  /\ UNCHANGED <<now, todo, v>>

\* Request::Info, Error and MajorCompaction, which moves data between files
\* and changes none (ImplementsKVStore of DataManager).
OtherRequest ==
  /\ todo = <<>>
  /\ \E kind \in {"Info", "Error", "Ok"} : resp' = Response(kind)
  /\ UNCHANGED <<db, now, todo, v>>

Next ==
  \/ Tick \/ GetterNext \/ BadDataChunk \/ OtherRequest
  \/ \E keys \in KeyLists : Getter(keys)
  \/ \E setter \in {"set", "add", "replace", "append", "prepend"},
        k \in Keys, data \in Payloads, ttl \in TTLs : Setter(setter, k, data, ttl)
  \/ \E k \in Keys : Deleter(k)

Spec == Init /\ [][Next]_vars

\* The clock goes on, and a get that has begun looks up its next key.
FairSpec == Spec /\ WF_vars(Tick) /\ WF_vars(GetterNext)
------------------------------------------------------------------------------
(* Properties *)

\* A payload as an item with a deadline.
ItemOf(p) ==
  [data |-> p.data, deadline |-> IF p.ttl = 0 THEN Forever ELSE p.created_at + p.ttl]

\* The items a get can see, and the payloads that have expired.
Visible == [k \in Keys |-> IF db[k] = Absent \/ IsExpired(db[k]) THEN Absent ELSE ItemOf(db[k])]

Lapsed == [k \in Keys |-> IF db[k] # Absent /\ IsExpired(db[k]) THEN ItemOf(db[k]) ELSE Absent]

EM == INSTANCE ExpiringMap WITH items <- Visible, lapsed <- Lapsed, found <- v, Data <- Payloads

(***************************************************************************)
(* Lazy expiry, with payloads that are compared with the clock in every    *)
(* get and never swept (apply, is_expired), gives every client the answers *)
(* of a map that takes each item away in the second its lifetime ends,     *)
(* byte counts included, also when the clock goes on in the middle of a    *)
(* get.  What was taken away is not seen by a get again, but decides the   *)
(* answer of add, replace, append, prepend and delete, and append and      *)
(* prepend bring its data back with the new lifetime.                      *)
(***************************************************************************)
ImplementsExpiringMap == EM!Spec

(***************************************************************************)
(* Each payload's bytes is the length of its data through any sequence of  *)
(* set, append and prepend.  Response::write announces bytes and then      *)
(* sends the data, so a client would lose the frame if they differed.      *)
(***************************************************************************)
BytesCountData == \A k \in Keys : db[k] # Absent => db[k].bytes = Len(db[k].data)
==============================================================================
