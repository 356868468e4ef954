------------------------------ MODULE Protocol ------------------------------
(***************************************************************************)
(* A connection to the server: what the client sends, the reads that cut   *)
(* the byte stream anywhere, ServerCodec::decode and the parser combinators*)
(* under it.                                                               *)
(*                                                                         *)
(* The stream is a sequence of units, a unit being one or more bytes that  *)
(* the parser never tells apart: a word has two or three units, so that a  *)
(* read can end inside it and words can share a beginning; a number is a   *)
(* sequence of digits, the base is 2.  A grammar is a sequence of steps,   *)
(* as in the chain! macro.                                                 *)
(***************************************************************************)
EXTENDS Integers, Sequences, FiniteSets, FiniteSetsExt, SequencesExt, TLC

CONSTANTS Requests,     \* the requests that the client may send
          MaxRequests,  \* bound: requests on the connection
          MaxNumber,    \* the largest u32, usize
          AnyCut        \* may a read end between the name and the sizes of a request?

ASSUME ProtocolAssumption == MaxRequests \in Nat /\ MaxNumber \in Nat /\ AnyCut \in BOOLEAN

VARIABLES sent,      \* the requests that the client sent
          wire,      \* their units that were not read yet, in pieces that are read together
          buf,       \* the read buffer of the connection
          readable,  \* Framed: decode again before reading more
          got        \* the requests that decode returned

vars == <<sent, wire, buf, readable, got>>

CRLF == <<"CR", "LF">>
Digits == {"0", "1"}
Blank == {"sp", "CR", "LF"}   \* what is_not ends a key at: b" \t\r\n\0"

get == <<"ge", "t">>
gets == <<"ge", "t", "s">>
set == <<"se", "t">>
add == <<"a", "dd">>
replace == <<"rep", "lace">>
append == <<"a", "ppend">>
prepend == <<"prep", "end">>
delete == <<"del", "ete">>
info == <<"in", "fo">>
major_compaction == <<"major", "compaction">>
noreply == <<"no", "reply">>

-----------------------------------------------------------------------------
(***************************************************************************)
(* Parsers: from an input to Ok with the rest and an output, Err, or       *)
(* Incomplete                                                              *)
(***************************************************************************)
Ok(rest, out) == [is |-> "ok", rest |-> rest, out |-> out]
Err == [is |-> "err"]
Incomplete == [is |-> "incomplete"]

\* F of the value v; TLC evaluates v once, whatever F does with it.
Of(v, F(_)) == CHOOSE y \in {F(x) : x \in {v}} : TRUE

take_split(i, n) == Ok(SubSeq(i, n + 1, Len(i)), SubSeq(i, 1, n))

\* The number of units before the first one outside (inside) S.
SpanOf(i, S) == Min({n \in 1..Len(i) : i[n] \notin S} \cup {Len(i) + 1}) - 1
SpanNotOf(i, S) == Min({n \in 1..Len(i) : i[n] \in S} \cup {Len(i) + 1}) - 1

\* Mutant of compare: off by one, an input that is just the tag is too short.
compare_longer(i, t) ==
  LET n == Min({Len(i), Len(t)})
  IN  IF SubSeq(i, 1, n) # SubSeq(t, 1, n) THEN "err"
      ELSE IF Len(i) > Len(t) THEN "ok" ELSE "incomplete"

compare(i, t) ==
  LET n == Min({Len(i), Len(t)})
  IN  IF SubSeq(i, 1, n) # SubSeq(t, 1, n) THEN "err"
      ELSE IF Len(i) >= Len(t) THEN "ok" ELSE "incomplete"

tag(i, t) ==
  CASE compare(i, t) = "ok" -> take_split(i, Len(t))
    [] compare(i, t) = "err" -> Err
    [] compare(i, t) = "incomplete" -> Incomplete

\* key_parser: without a blank in sight, everything, even nothing.
is_not(i, S) == IF i # <<>> /\ SpanNotOf(i, S) = 0 THEN Err ELSE take_split(i, SpanNotOf(i, S))

space(i) == IF SpanOf(i, {"sp"}) = 0 THEN Err ELSE take_split(i, SpanOf(i, {"sp"}))

ValueOf(ds) == FoldLeft(LAMBDA v, d : 2 * v + (IF d = "1" THEN 1 ELSE 0), 0, ds)

digit(i) ==
  LET n == SpanOf(i, Digits)
  IN  IF n = 0 \/ ValueOf(SubSeq(i, 1, n)) > MaxNumber THEN Err
      ELSE [take_split(i, n) EXCEPT !.out = ValueOf(@)]

\* Mutant of take_at_least: the payload ends at the first end of line.
take_line(i, size, t) ==
  LET ends == {n \in 0..(Len(i) - Len(t)) : SubSeq(i, n + 1, n + Len(t)) = t}
  IN  IF Len(i) < size THEN Incomplete ELSE take_split(i, IF ends = {} THEN Len(i) ELSE Min(ends))

\* The input up to the first t that starts after size units, or all of it.
take_at_least(i, size, t) ==
  LET ends == {n \in size..(Len(i) - Len(t)) : SubSeq(i, n + 1, n + Len(t)) = t}
  IN  IF Len(i) < size THEN Incomplete
      ELSE take_split(i, IF ends = {} THEN Len(i) ELSE Min(ends))

opt(i, r) ==
  CASE r.is = "ok" -> Ok(r.rest, <<r.out>>)
    [] r.is = "err" -> Ok(i, <<>>)
    [] r.is = "incomplete" -> r

\* alt!: the first of the results that is not an error, Incomplete included
alt(rs) ==
  LET hits == {n \in 1..Len(rs) : rs[n].is # "err"}
  IN  IF hits = {} THEN Err ELSE rs[Min(hits)]

\* split!(space, key_parser): keys and spaces in turn, until one fails.
RECURSIVE split(_, _, _)
split(i, isKey, res) ==
  Of(IF isKey THEN is_not(i, Blank) ELSE space(i), LAMBDA r :
       CASE r.is = "ok" -> split(r.rest, ~isKey, IF isKey THEN Append(res, r.out) ELSE res)
         [] r.is = "incomplete" -> r
         [] r.is = "err" -> IF res = <<>> THEN Err ELSE Ok(i, res))

-----------------------------------------------------------------------------
(***************************************************************************)
(* The grammar (parser.rs).  A step has a parser, its argument and the     *)
(* field that keeps its output.                                            *)
(***************************************************************************)
Keep(field, p, arg) == [field |-> field, p |-> p, arg |-> arg]
Skip(p, arg) == Keep("", p, arg)
Space == Skip("space", <<>>)
EndOfLine == Skip("tag", CRLF)
OptNoReply == <<Skip("opt_space", <<>>), Keep("no_reply", "opt_tag", noreply), EndOfLine>>

getter == <<Keep("getter", "alt", <<gets, get>>), Space, Keep("keys", "split", <<>>), EndOfLine>>

setter ==
  <<Keep("setter", "alt", <<set, add, replace, append, prepend>>), Space, Keep("key", "key", <<>>),
    Space, Keep("flags", "digit", <<>>), Space, Keep("ttl", "digit", <<>>),
    Space, Keep("bytes", "digit", <<>>)>>
  \o OptNoReply \o <<Keep("payload", "take_at_least", CRLF), EndOfLine>>

deleter == <<Skip("tag", delete), Space, Keep("key", "key", <<>>)>> \o OptNoReply

Grammar ==
  <<[kind |-> "getter", steps |-> getter], [kind |-> "setter", steps |-> setter],
    [kind |-> "deleter", steps |-> deleter],
    [kind |-> "info", steps |-> <<Skip("tag", info), EndOfLine>>],
    [kind |-> "major_compaction", steps |-> <<Skip("tag", major_compaction), EndOfLine>>]>>

\* One step on the input i, with the fields f that are known
Parsed(step, i, f) ==
  CASE step.p = "tag" -> tag(i, step.arg)
    [] step.p = "alt" -> alt([n \in 1..Len(step.arg) |-> tag(i, step.arg[n])])
    [] step.p = "space" -> space(i)
    [] step.p = "key" -> is_not(i, Blank)
    [] step.p = "digit" -> digit(i)
    [] step.p = "split" -> split(i, TRUE, <<>>)
    [] step.p = "opt_space" -> opt(i, space(i))
    [] step.p = "opt_tag" -> LET r == opt(i, tag(i, step.arg))
                             IN  IF r.is = "ok" THEN [r EXCEPT !.out = @ # <<>>] ELSE r
    [] step.p = "take_at_least" -> take_at_least(i, f.bytes, step.arg)

\* chain!: the steps in order; the first that is not Ok is the result.
RECURSIVE chain(_, _, _)
chain(steps, i, f) ==
  IF steps = <<>> THEN Ok(i, f)
  ELSE Of(Parsed(Head(steps), i, f), LAMBDA r :
            IF r.is # "ok" THEN r
            ELSE chain(Tail(steps), r.rest,
                       IF Head(steps).field = "" THEN f ELSE f @@ (Head(steps).field :> r.out)))

parse(i) ==
  Of([n \in 1..Len(Grammar) |-> chain(Grammar[n].steps, i, "kind" :> Grammar[n].kind)], alt)

-----------------------------------------------------------------------------
(***************************************************************************)
(* What a client writes for a request.                                     *)
(***************************************************************************)
Number(n) == CASE n = 0 -> <<"0">> [] n = 1 -> <<"1">> [] n = 2 -> <<"1", "0">> [] n = 3 -> <<"1", "1">>

Spaced(words) == FoldLeft(LAMBDA line, w : line \o <<"sp">> \o w, Head(words), Tail(words))

NoReply(r) == IF r.no_reply THEN <<noreply>> ELSE <<>>

Encoded(r) ==
  CASE r.kind = "getter" -> Spaced(<<r.getter>> \o r.keys) \o CRLF
    [] r.kind = "setter" -> Spaced(<<r.setter, r.key, Number(r.flags), Number(r.ttl),
                                     Number(r.bytes)>> \o NoReply(r))
                              \o CRLF \o r.payload \o CRLF
    [] r.kind = "deleter" -> Spaced(<<delete, r.key>> \o NoReply(r)) \o CRLF
    [] r.kind = "info" -> info \o CRLF
    [] r.kind = "major_compaction" -> major_compaction \o CRLF

\* The units from the last one of the name up to the first digit of bytes,
\* or to the space after gets or delete.  space() and digit() fail at the end
\* of the input, so these must be read together.
HeadEnd(r) ==
  CASE r.kind = "setter" -> Len(Spaced(<<r.setter, r.key, Number(r.flags), Number(r.ttl)>>)) + 2
    [] r.kind = "getter" /\ r.getter = gets -> Len(gets) + 1
    [] r.kind = "deleter" -> Len(delete) + 1
    [] OTHER -> 1

HeadStart(r) ==
  CASE r.kind = "setter" -> Len(r.setter)
    [] r.kind = "getter" /\ r.getter = gets -> Len(gets)
    [] r.kind = "deleter" -> Len(delete)
    [] OTHER -> 1

Pieces(r) ==
  LET one(s) == [n \in 1..Len(s) |-> <<s[n]>>]
      e == Encoded(r)
  IN  IF AnyCut THEN one(e)
      ELSE one(SubSeq(e, 1, HeadStart(r) - 1)) \o <<SubSeq(e, HeadStart(r), HeadEnd(r))>>
             \o one(SubSeq(e, HeadEnd(r) + 1, Len(e)))

-----------------------------------------------------------------------------
Init == sent = <<>> /\ wire = <<>> /\ buf = <<>> /\ readable = FALSE /\ got = <<>>

\* The client writes its next request, whether or not the last one was answered.
Send(r) ==
  /\ Len(sent) < MaxRequests
  /\ sent' = Append(sent, r)
  /\ wire' = wire \o Pieces(r)
  /\ UNCHANGED <<buf, readable, got>>

\* Framed::poll reads into the buffer what has arrived.
Read(n) ==
  /\ ~readable
  /\ buf' = buf \o FlattenSeq(SubSeq(wire, 1, n))
  /\ wire' = SubSeq(wire, n + 1, Len(wire))
  /\ readable' = TRUE
  /\ UNCHANGED <<sent, got>>

\* ServerCodec::decode: Ok(None), nothing is consumed and Framed reads more.
DecodeIncomplete ==
  /\ readable /\ parse(buf).is = "incomplete"
  /\ readable' = FALSE
  /\ UNCHANGED <<sent, wire, buf, got>>

\* A request is taken off the buffer.
DecodeOk ==
  /\ readable /\ parse(buf).is = "ok"
  /\ got' = Append(got, parse(buf).out)
  /\ buf' = parse(buf).rest
  /\ UNCHANGED <<sent, wire, readable>>

\* Request::Error, and all of the buffer is consumed.
DecodeErr ==
  /\ readable /\ parse(buf).is = "err"
  /\ got' = Append(got, [kind |-> "error"])
  /\ buf' = <<>>
  /\ UNCHANGED <<sent, wire, readable>>

Next ==
  \/ \E r \in Requests : Send(r)
  \/ \E n \in 1..Len(wire) : Read(n)
  \/ DecodeIncomplete \/ DecodeOk \/ DecodeErr

Spec == Init /\ [][Next]_vars

\* What was sent arrives, and the reactor polls a connection that has input.
FairSpec ==
  /\ Spec
  /\ WF_vars(\E n \in 1..Len(wire) : Read(n))
  /\ WF_vars(DecodeIncomplete \/ DecodeOk \/ DecodeErr)

-----------------------------------------------------------------------------
\* A request that the parser must refuse: its size is no usize.
Malformed(r) == r.kind = "setter" /\ r.bytes > MaxNumber

\* The first n requests are well formed.
WellFormed(n) == \A m \in 1..n : ~Malformed(sent[m])

EncodedFrom(n) == FlattenSeq([m \in 1..(Len(sent) - n) |-> Encoded(sent[n + m])])

(***************************************************************************)
(* Through pipelined requests, payloads that contain an end of line and    *)
(* reads that end inside a payload, ServerCodec::decode returns the        *)
(* requests that were sent, in order, each once, with their keys and       *)
(* payloads, up to the first malformed one, which is an error.  It         *)
(* consumes the bytes of a request and no others: those of the requests    *)
(* that are not decoded yet are in the buffer or on the way.  Reads that   *)
(* end inside the head of a request are left out (AnyCut): see             *)
(* CutRequestIsIncomplete.                                                 *)
(***************************************************************************)
DecodesWhatWasSent ==
  /\ \A n \in 1..Len(got) : WellFormed(n) => got[n] = sent[n]
  /\ \A n \in 1..Len(got) :
       n <= Len(sent) /\ WellFormed(n - 1) /\ Malformed(sent[n]) => got[n].kind = "error"
  /\ WellFormed(Len(sent)) => /\ Len(got) <= Len(sent)
                              /\ buf \o FlattenSeq(wire) = EncodedFrom(Len(got))

(***************************************************************************)
(* Every request up to the first malformed one is decoded at last: decode  *)
(* never waits for bytes that the request does not have, and Framed does   *)
(* not read while a whole request is in the buffer.                        *)
(***************************************************************************)
EveryRequestIsDecoded ==
  \A n \in 1..MaxRequests : (Len(sent) >= n /\ WellFormed(n - 1)) ~> (Len(got) >= n)

(***************************************************************************)
(* A request whose rest has not been read is Incomplete, wherever the read *)
(* ended, as for the three beginnings of a set in the tests of parse.      *)
(***************************************************************************)
CutRequestIsIncomplete ==
  readable /\ WellFormed(Len(sent)) => parse(buf).is # "err"
=============================================================================
