----------------------------- MODULE MCProtocol -----------------------------
(***************************************************************************)
(* Requests for Protocol: every kind, one and two keys, a key that starts  *)
(* with a word of the protocol, payloads that are empty, contain an end of *)
(* line or end with half of one, and a size that is out of range.          *)
(***************************************************************************)
EXTENDS Protocol

MCSet(name, key, payload, quiet) ==
  [kind |-> "setter", setter |-> name, key |-> key, flags |-> 1, ttl |-> 0,
   bytes |-> Len(payload), payload |-> payload, no_reply |-> quiet]

MCGet(name, keys) == [kind |-> "getter", getter |-> name, keys |-> keys]

MCDelete(key, quiet) == [kind |-> "deleter", key |-> key, no_reply |-> quiet]

MCRequests ==
  {MCGet(get, <<<<"k">>>>), MCGet(gets, <<<<"k">>, <<"no", "k">>>>),
   MCSet(set, <<"k">>, <<>>, FALSE), MCSet(set, <<"no", "k">>, <<"CR", "LF">>, FALSE),
   MCSet(add, <<"k">>, <<"x">>, TRUE), MCSet(append, <<"k">>, <<"x", "CR">>, FALSE),
   MCSet(prepend, <<"k">>, <<"LF">>, TRUE), MCSet(replace, <<"k">>, <<"CR">>, FALSE),
   MCDelete(<<"k">>, FALSE), MCDelete(<<"no">>, TRUE),
   [kind |-> "info"], [kind |-> "major_compaction"],
   [MCSet(set, <<"k">>, <<"x">>, FALSE) EXCEPT !.bytes = 3]}
=============================================================================
