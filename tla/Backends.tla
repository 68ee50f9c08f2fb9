------------------------------- MODULE Backends -------------------------------
(***************************************************************************)
(* What the trading code sees of its two backends: the outcomes of calls   *)
(* to PostgreSQL and to Redis, and the two Redis key spaces it keeps.      *)
(***************************************************************************)
EXTENDS Calls

CONSTANT DbFaults   \* may a statement or a commit fail?

ASSUME BackendsAssumption == DbFaults \in BOOLEAN

VARIABLES
    tradedToday,  \* the set traded_today:<date>, of symbols
    openCache     \* the numbers of the open_trade:<trade_id> hashes

redis == <<tradedToday, openCache>>

DbOutcomes == IF DbFaults THEN {Ok, Refused, Unacked} ELSE {Ok}

\* The state of a key set after adding or removing x with outcome o.
Added(keys, x, o) == IF o.applied THEN keys \cup {x} ELSE keys
Removed(keys, x, o) == IF o.applied THEN keys \ {x} ELSE keys

\* sismember as the webhook reads it: the stub, and a failed call that the
\* caller swallows, both say "not there".
Remembered(keys, x, o) == o = Ok /\ x \in keys
=============================================================================
