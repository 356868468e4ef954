----------------------------- MODULE ExpiringMap ------------------------------
(***************************************************************************)
(* What a client can rely on in Store: a map whose items lapse in the      *)
(* second their lifetime ends.  A lapsed item is never seen by a get       *)
(* again.  It still counts for the requests that ask whether the key is    *)
(* taken (add, replace, append, prepend and delete), until one of them, or *)
(* a set, puts an end to it.  Requests are served one after the other; a   *)
(* get looks its keys up one after the other.                              *)
(***************************************************************************)
EXTENDS Integers, Sequences

CONSTANTS Keys,
          KeyLists,  \* the lists of keys a get may ask for
          Data,      \* the data blocks of requests
          TTLs,      \* the lifetimes of requests
          Absent,    \* no item
          Forever    \* the deadline of an item that was stored with ttl 0

VARIABLES items,  \* key -> Absent or [data, deadline]
          lapsed, \* key -> Absent or the item that has lapsed there
          now,    \* the time, in seconds
          todo,   \* the keys a get has still to look up
          found,  \* and the items it has found
          resp    \* the last response

vars == <<items, lapsed, now, todo, found, resp>>

Reply(kind) == [kind |-> kind, items |-> <<>>]

Ended(item, t) == item # Absent /\ item.deadline # Forever /\ item.deadline =< t

Deadline(ttl) == IF ttl = 0 THEN Forever ELSE now + ttl

\* The item that a request which is no get finds at the key.
At(k) == IF items[k] # Absent THEN items[k] ELSE lapsed[k]

Init ==
  /\ items = [k \in Keys |-> Absent] /\ lapsed = items
  /\ now = 0 /\ todo = <<>> /\ found = <<>> /\ resp = Reply("none")

\* Time passes, and items lapse.
Tick ==
  /\ now' = now + 1
  /\ items' = [k \in Keys |-> IF Ended(items[k], now') THEN Absent ELSE items[k]]
  /\ lapsed' = [k \in Keys |-> IF Ended(items[k], now') THEN items[k] ELSE lapsed[k]]
  /\ UNCHANGED <<todo, found, resp>>

\* The data that the request leaves at its key, if it is carried out.
NewData(op, old, data) ==
  CASE op = "append"  -> old.data \o data
    [] op = "prepend" -> data \o old.data
    [] OTHER          -> data

Allowed(op, old) ==
  CASE op = "set" -> TRUE
    [] op = "add" -> old = Absent
    [] OTHER      -> old # Absent

Write(op, k, data, ttl) ==
  /\ todo = <<>>
  /\ IF Allowed(op, At(k))
     THEN /\ resp' = Reply("Stored")
          /\ items' = [items EXCEPT ![k] = [data |-> NewData(op, At(k), data), deadline |-> Deadline(ttl)]]
          /\ lapsed' = [lapsed EXCEPT ![k] = Absent]
     ELSE resp' = Reply("NotStored") /\ UNCHANGED <<items, lapsed>>
  /\ UNCHANGED <<now, todo, found>>

Delete(k) ==
  /\ todo = <<>>
  /\ resp' = Reply(IF At(k) = Absent THEN "NotFound" ELSE "Deleted")
  /\ items' = [items EXCEPT ![k] = Absent]
  /\ lapsed' = [lapsed EXCEPT ![k] = Absent]
  /\ UNCHANGED <<now, todo, found>>

\* A request that changes no item.
Other ==
  /\ todo = <<>>
  /\ resp' \in {Reply(kind) : kind \in {"ClientError", "Info", "Error", "Ok"}}
  /\ UNCHANGED <<items, lapsed, now, todo, found>>

Get(keys) ==
  /\ todo = <<>> /\ todo' = keys /\ found' = <<>>
  /\ resp' = Reply("none")
  /\ UNCHANGED <<items, lapsed, now>>

Lookup ==
  /\ todo # <<>>
  /\ LET k   == Head(todo)
         hit == IF items[k] = Absent THEN <<>>
                ELSE <<[key |-> k, data |-> items[k].data, bytes |-> Len(items[k].data)]>>
     IN  IF Tail(todo) = <<>> THEN resp' = [kind |-> "Get", items |-> found \o hit] /\ found' = <<>>
                              ELSE found' = found \o hit /\ UNCHANGED resp
  /\ todo' = Tail(todo)
  /\ UNCHANGED <<items, lapsed, now>>

Next ==
  \/ Tick \/ Other \/ Lookup
  \/ \E k \in Keys : Delete(k)
  \/ \E keys \in KeyLists : Get(keys)
  \/ \E op \in {"set", "add", "replace", "append", "prepend"}, k \in Keys, data \in Data, ttl \in TTLs :
       Write(op, k, data, ttl)

Spec == Init /\ [][Next]_vars
==============================================================================
