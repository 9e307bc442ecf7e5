--------------------------- MODULE RequestTarget ---------------------------
(***************************************************************************)
(* How the target of a request is taken apart: the query behind the first  *)
(* '?', the segments of the path and the verb (gateway.rs, template.rs),   *)
(* and the pairs of the query (gateway.rs).  What is percent-encoded is    *)
(* decoded afterwards, piece by piece.                                     *)
(*                                                                         *)
(* A text on the wire consists of characters that stand for themselves and *)
(* of escapes `%XX`; an escape may be of a byte that is no UTF-8.          *)
(***************************************************************************)
EXTENDS Texts

CONSTANT NoQuery, NoVerb

Plain(c) == <<c>>
Escape(c) == <<"%", c>>
BadByte == Escape("invalid")

IsEscape(token) == Len(token) = 2

(* `decode`: all escapes of a piece, or none if the result is no UTF-8.    *)
decode(text) ==
  IF Contains(text, BadByte) THEN text
  ELSE [i \in DOMAIN text |-> IF IsEscape(text[i]) THEN Plain(text[i][2]) ELSE text[i]]

Spaced(text) == [i \in DOMAIN text |-> IF text[i] = Plain("+") THEN Plain(" ") ELSE text[i]]

BugPlusLast(text) == Spaced(decode(text))    \* mutant: '+' is replaced after decoding

(* `query_decode`: a '+' is a space, an escaped one is not. *)
query_decode(text) == decode(Spaced(text))

BugDecodeFirst(path) == split(decode(Tail(path)), Plain("/"))    \* mutant of RawSegments

(* The segments of `split_request_path`, the verb still in the last one.   *)
RawSegments(path) ==
  split(IF StartsWith(path, Plain("/")) THEN Tail(path) ELSE path, Plain("/"))

BugFirstColon(text) == SelectInSeq(text, LAMBDA c : c = Plain(":"))    \* mutant of rfind_colon

(* The last ':' of a segment, 0 if there is none. *)
rfind_colon(text) == SelectLastInSeq(text, LAMBDA c : c = Plain(":"))

(* `split_request_path`: the verb is what follows the last ':'.  Segments  *)
(* are decoded where they are matched or captured, the verb is not.        *)
split_request_path(path) ==
  LET raw   == RawSegments(path)
      last  == raw[Len(raw)]
      colon == rfind_colon(last)
      stem  == IF colon = 0 THEN last ELSE UpTo(last, colon - 1)
  IN [ segments |-> [k \in DOMAIN raw |-> decode(IF k = Len(raw) THEN stem ELSE raw[k])],
       verb     |-> IF colon = 0 THEN NoVerb ELSE From(last, colon + 1) ]

(* The pairs `bind_query` goes through: empty ones are skipped. *)
query_pair(pair) ==
  LET parts == split_once(pair, Plain("="), <<>>)
  IN IF pair = <<>> THEN <<>>
     ELSE <<<<query_decode(parts[1]), query_decode(parts[2])>>>>

query_pairs(query) ==
  LET pairs == split(query, Plain("&"))
  IN FlattenSeq([k \in DOMAIN pairs |-> query_pair(pairs[k])])

(* What `handle` makes of a target; a query is only looked at if there is  *)
(* one.                                                                    *)
request(target) ==
  LET parts == split_once(target, Plain("?"), NoQuery)
      path  == split_request_path(parts[1])
  IN [ segments |-> path.segments,
       verb     |-> path.verb,
       pairs    |-> IF parts[2] = NoQuery THEN <<>> ELSE query_pairs(parts[2]) ]

(***************************************************************************)
(* The client's side (external): it escapes what would delimit and no      *)
(* more, and writes a space of the query as '+'.  A ':' delimits only in   *)
(* the last segment of a path without a verb.                              *)
(***************************************************************************)
AsPath(text, delimiters) ==
  [i \in DOMAIN text |->
     IF text[i][1] \in delimiters \cup {"%"} THEN Escape(text[i][1]) ELSE text[i]]

AsQuery(text) ==
  [i \in DOMAIN text |->
     IF text[i] = Plain(" ") THEN Plain("+")
     ELSE IF text[i][1] \in {"&", "=", "+", "%"} THEN Escape(text[i][1]) ELSE text[i]]

PathText(segments, verb) ==
  <<Plain("/")>>
    \o Join([k \in DOMAIN segments |->
               AsPath(segments[k], IF k = Len(segments) /\ verb = NoVerb THEN {"/", "?", ":"}
                                                                      ELSE {"/", "?"})],
            Plain("/"))
    \o (IF verb = NoVerb THEN <<>> ELSE <<Plain(":")>> \o verb)

QueryText(pairs) ==
  Join([k \in DOMAIN pairs |-> AsQuery(pairs[k][1]) \o <<Plain("=")>> \o AsQuery(pairs[k][2])],
       Plain("&"))

TargetText(segments, verb, pairs) ==
  PathText(segments, verb)
    \o (IF pairs = <<>> THEN <<>> ELSE <<Plain("?")>> \o QueryText(pairs))
=============================================================================
