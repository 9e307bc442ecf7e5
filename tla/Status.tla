------------------------------- MODULE Status -------------------------------
(***************************************************************************)
(* gRPC status codes and their HTTP statuses (crates/grpc-gw/src/          *)
(* status.rs).  A `Code` is its discriminant, 0..16.                       *)
(***************************************************************************)
EXTENDS Integers

Ok               == 0
Cancelled        == 1
Unknown          == 2
InvalidArgument  == 3
DeadlineExceeded == 4
NotFound         == 5
Unimplemented    == 12
Internal         == 13
Unavailable      == 14

Code == 0..16

(* `Code::from_i32`: a number outside the enum folds to Unknown. *)
from_i32(value) == IF value \in Code THEN value ELSE Unknown

(* `Code::http_status`, in the order of the enum. *)
HttpStatusTable ==
  << 200, 499, 500, 400, 504, 404, 409, 403, 429,
     400, 409, 400, 501, 500, 503, 500, 401 >>

http_status(code) == HttpStatusTable[code + 1]

(* A rendered reply, as far as its status goes: the HTTP status line and   *)
(* the numeric `code` of the JSON envelope.                                *)
Response == [http : 100..599, code : Code]

(* `error_response` / `ErrorEnvelope`: an envelope carries its own code    *)
(* and is served with the HTTP status of that code.                        *)
error_response(code) == [http |-> http_status(from_i32(code)), code |-> code]
=============================================================================
