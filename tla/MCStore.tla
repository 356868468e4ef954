------------------------------- MODULE MCStore -------------------------------
(* Store for TLC: data blocks of no byte or one byte, gets of one or two keys. *)
EXTENDS Store, TLC

MCPayloads == {<<>>, <<1>>, <<2>>}
MCKeyLists == {<<k>> : k \in Keys} \cup {<<k, l>> : k, l \in Keys}

\* No request tells two keys apart.
KeySymmetry == Permutations(Keys)
==============================================================================
