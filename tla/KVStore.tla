------------------------------- MODULE KVStore -------------------------------
(***************************************************************************)
(* What mirdb's storage engine promises to the memcached layer above it:   *)
(* one map from keys to values, one request at a time (there is a single   *)
(* server thread), each request taking effect at one instant, and a        *)
(* process crash that keeps every completed request and either keeps or    *)
(* drops the one in flight.  Memtables, WAL segments, levels, manifests    *)
(* and compactions are invisible at this level.                            *)
(***************************************************************************)

CONSTANTS Keys,     \* StoreKey
          Vals,     \* StorePayload
          Absent,   \* Option::None
          Nothing   \* no request in progress, no reply yet

VARIABLES db,       \* the map a client can observe
          req,      \* the request the server thread is working on
          reply     \* the result of the last request

vars == <<db, req, reply>>

\* DataManager's public operations: insert, get and remove.
Requests ==
  [op : {"get", "remove"}, key : Keys] \cup [op : {"insert"}, key : Keys, val : Vals]

Effect(r) ==
  CASE r.op = "insert" -> [db EXCEPT ![r.key] = r.val]
    [] r.op = "remove" -> [db EXCEPT ![r.key] = Absent]
    [] OTHER           -> db

\* get and remove return the payload found; insert's result is not used by
\* the callers (Store answers STORED whatever it is).
Result(r) == IF r.op = "insert" THEN Absent ELSE db[r.key]

Init == /\ db = [k \in Keys |-> Absent]
        /\ req = Nothing
        /\ reply = Nothing

\* A request whose result takes several steps is in progress ...
Invoke(r) == /\ req = Nothing
             /\ req' = r
             /\ reply' = Nothing
             /\ UNCHANGED db

\* ... until it takes effect.
Serve == /\ req # Nothing
         /\ req' = Nothing
         /\ reply' = Result(req)
         /\ db' = Effect(req)

InvokeAndServe(r) == /\ req = Nothing
                     /\ UNCHANGED req
                     /\ reply' = Result(r)
                     /\ db' = Effect(r)

\* The request in progress is all that a crash decides about.
Crash == /\ req' = Nothing
         /\ reply' = Nothing
         /\ \/ UNCHANGED db
            \/ req # Nothing /\ db' = Effect(req)

Next == \/ \E r \in Requests : Invoke(r) \/ InvokeAndServe(r)
        \/ Serve
        \/ Crash

Spec == Init /\ [][Next]_vars
==============================================================================
