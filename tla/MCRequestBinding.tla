-------------------------- MODULE MCRequestBinding --------------------------
(***************************************************************************)
(* An input message with a field of every shape the code tells apart:      *)
(*                                                                         *)
(*   string name = 1; repeated string tags = 2; bytes raw = 3;             *)
(*   oneof choice { User user = 4; string alias = 5; }                     *)
(*   message User { string id = 1; }                                       *)
(***************************************************************************)
EXTENDS RequestBinding

CONSTANTS name, tags, raw, user, userId, alias, zero, one, choice

MCField == {name, tags, raw, user, userId, alias}
MCLineage == [f \in MCField |-> IF f = userId THEN {user, userId} ELSE {f}]
MCShape ==
  [f \in MCField |-> CASE f \in {name, userId, alias} -> "scalar"
                       [] f = tags -> "list"
                       [] f = user -> "message"
                       [] f = raw -> "opaque"]
MCPresence == {user, alias}
MCOneofOf == [f \in MCField |-> IF f \in {user, alias} THEN choice ELSE NoOneof]

At(f)    == [key |-> [at |-> f, more |-> FALSE], text |-> one]
Zero(f)  == [At(f) EXCEPT !.text = zero]
Below(f) == [key |-> [at |-> f, more |-> TRUE], text |-> one]
Wrong(f) == [At(f) EXCEPT !.text = Junk]

AllBinds ==
  {At(f) : f \in {name, userId, alias, tags}} \cup {Zero(f) : f \in {name, userId, alias}}
    \cup {Wrong(name), Wrong(tags), At(user), At(raw), Below(Root), Below(user), Below(name)}
Binds == {At(f) : f \in {name, userId, alias, tags}} \cup {Zero(name), Zero(userId)}

UpTo2 == {<<>>} \cup {<<a>> : a \in AllBinds}
Captures == UpTo2 \cup {<<a, b>> : a, b \in Binds}
Queries  == UpTo2 \cup {<<a, b>> : a \in AllBinds, b \in Binds}

Whole ==
  { Empty, Invalid,
    [f \in {name, tags} |-> IF f = name THEN <<zero>> ELSE <<zero, one>>],
    [f \in {name, alias} |-> <<zero>>],
    [f \in {user, userId} |-> IF f = userId THEN <<zero>> ELSE <<>>] }
Part == { Empty, Invalid, [f \in {user, userId} |-> IF f = userId THEN <<zero>> ELSE <<>>] }

Requests(selector, bodies) ==
  [selector : {selector}, body : bodies, captures : Captures, query : Queries]

MCInput ==
  Requests("wildcard", Whole) \cup Requests("field", Part) \cup Requests("none", {Empty})
    \cup [selector : {"missing"}, body : Part, captures : UpTo2, query : UpTo2]
=============================================================================
