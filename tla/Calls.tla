--------------------------------- MODULE Calls ---------------------------------
(***************************************************************************)
(* The outcome of one call to a backend: it has taken effect or not        *)
(* (applied) and it raises or not (raised).  An Upstash REST call or a     *)
(* commit whose answer is lost has done both.                              *)
(***************************************************************************)
CONSTANT RedisMode  \* "up", "flaky" (any call may fail) or "noop" (the stub)

ASSUME CallsAssumption == RedisMode \in {"up", "flaky", "noop"}

Ok      == [applied |-> TRUE,  raised |-> FALSE]
Refused == [applied |-> FALSE, raised |-> TRUE]
Unacked == [applied |-> TRUE,  raised |-> TRUE]
Ignored == [applied |-> FALSE, raised |-> FALSE]

Outcome == [applied : BOOLEAN, raised : BOOLEAN]

\* get_redis() gives the REST client, or the stub that answers every call with
\* an empty value and keeps nothing.
RedisOutcomes ==
    CASE RedisMode = "up"    -> {Ok}
      [] RedisMode = "flaky" -> {Ok, Refused, Unacked}
      [] RedisMode = "noop"  -> {Ignored}
=============================================================================
