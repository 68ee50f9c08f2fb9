------------------------------ MODULE MCService ------------------------------
(***************************************************************************)
(* The service around the trades on a small instance: accounts, strategies *)
(* with their webhooks, and the WebSocket hub.  None reads another's       *)
(* tables, so each is a machine of its own and a behavior is one of `part` *)
(* with the others empty; their state spaces add up.                       *)
(***************************************************************************)
EXTENDS Accounts, Strategies, Hub, TLC

\* Three names for whatever has a key (an account, a strategy, a connection), a fourth
\* one for strategies, two for emails and tokens, and two calls.
CONSTANTS v1, v2, v3, v4, w1, w2, c1, c2, bot, plain, other

VARIABLE part

Parts == {"accounts", "strategies", "hub"}

Values == {v1, v2, v3}
Values4 == {v1, v2, v3, v4}
Words == {w1, w2}
AdminCalls == {c1, c2}
Names == {bot, plain, other}
Seeded == {bot, plain}

\* Only equality is ever asked of these values.
Symmetry == Permutations(Values) \cup Permutations(Words) \cup Permutations(AdminCalls)

Init ==
    /\ part \in Parts
    /\ HubInit /\ StrategiesInit
    /\ part # "strategies" => spent = {}
    /\ \/ part = "accounts" /\ AccountsInit
       \/ /\ part # "accounts"
          /\ users = [i \in {} |-> NoAccount] /\ used = {} /\ tokens = {}
          /\ calls = [c \in Call |-> IdleCall]

Next ==
    /\ \/ part = "accounts" /\ AccountsNext /\ UNCHANGED <<strategyVars, hubVars>>
       \/ part = "strategies" /\ StrategiesNext /\ UNCHANGED <<accountVars, hubVars>>
       \/ part = "hub" /\ HubNext /\ UNCHANGED <<accountVars, strategyVars>>
    /\ UNCHANGED part

Spec == Init /\ [][Next]_<<part, accountVars, strategyVars, hubVars>>
=============================================================================
