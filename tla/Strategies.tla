------------------------------ MODULE Strategies ------------------------------
(***************************************************************************)
(* Strategies, their webhook tokens and the start of the process           *)
(* (main.py, routers/strategies.py, routers/webhook.py).                   *)
(*                                                                         *)
(* A start migrates the table, then adds the default strategies that are   *)
(* missing, each in a transaction whose failure is logged and ignored.     *)
(* Admins and webhooks of the process that is being replaced go on         *)
(* meanwhile.  A webhook finds a strategy by its token and hands the name  *)
(* to receive_webhook, which finds the strategy by that name.              *)
(***************************************************************************)
EXTENDS Integers

CONSTANTS
    RowId,      \* primary keys; none is used twice
    Name,       \* names of strategies
    Default,    \* the names in DEFAULT_STRATEGIES
    Bot,        \* of those, the two that get a token and have a legacy route
    Token,      \* what gen_random_uuid may return; never the same twice
    Post        \* the webhooks, one at a time each

ASSUME StrategiesAssumption == Bot \subseteq Default /\ Default \subseteq Name

None == "none"

VARIABLES
    column,     \* whether strategies.webhook_token exists
    rows,       \* the table, for each key that is in it
    spent,      \* the keys that were ever in it
    issued,     \* history: the row each token was given to
    boot,       \* where the start of the process is
    missing,    \* the names the seeding found missing
    posts       \* the webhooks under way

strategyVars == <<column, rows, spent, issued, boot, missing, posts>>

Strategy == [name : Name, token : Token \cup {None}, active : BOOLEAN]
BootStage == {"migrate", "seed", "commit", "up"}
PostStage == {"idle", "named", "credited", "refused"}

\* `found` is the row a token led to, `credited` the one the signals are booked on;
\* `moved` says that the row found was renamed or deleted in between.
PostType ==
    [stage : PostStage, found : RowId \cup {None}, name : Name \cup {None},
     credited : RowId \cup {None}, moved : BOOLEAN]

Present == DOMAIN rows

StrategiesTypeOK ==
    /\ column \in BOOLEAN
    /\ Present \subseteq spent /\ spent \subseteq RowId
    /\ rows \in [Present -> Strategy]
    /\ DOMAIN issued \subseteq Token
    /\ issued \in [DOMAIN issued -> spent]
    /\ boot \in BootStage
    /\ missing \subseteq Name
    /\ posts \in [Post -> PostType]

-----------------------------------------------------------------------------
Named(n) == {i \in Present : rows[i].name = n}
Holding(t) == {i \in Present : rows[i].token = t}
FreeTokens == Token \ DOMAIN issued

\* The only row with a name or a token, if there is one: both columns are unique.
Sole(s) == IF s = {} THEN None ELSE CHOOSE i \in s : TRUE

NoPost ==
    [stage |-> "idle", found |-> None, name |-> None, credited |-> None, moved |-> FALSE]

\* Rows that are renamed or deleted under a webhook that found them.
Moved(i) ==
    posts' = [p \in Post |->
        IF posts[p].stage = "named" /\ posts[p].found = i
        THEN [posts[p] EXCEPT !.moved = TRUE] ELSE posts[p]]

-----------------------------------------------------------------------------
\* The start of the process.

GiveTokens(bots, given) ==
    /\ given \in [bots -> FreeTokens]
    /\ \A i, j \in bots : i # j => given[i] # given[j]
    /\ rows' = [i \in Present |->
           IF i \in bots THEN [rows[i] EXCEPT !.token = given[i]] ELSE rows[i]]
    /\ issued' = [t \in DOMAIN issued \cup {given[i] : i \in bots} |->
           IF t \in DOMAIN issued THEN issued[t] ELSE CHOOSE i \in bots : given[i] = t]

\* IF NOT EXISTS (... column_name='webhook_token'): the tokens are given together with
\* the column, later starts give none (nor does revision 0004, which does the same when
\* it is alembic that comes first).
Unmigrated == ~column

\* Auto-migrate, or nothing when the database fails.
Migrate ==
    /\ boot = "migrate"
    /\ boot' = "seed"
    /\ \/ UNCHANGED <<column, rows, issued>>
       \/ /\ Unmigrated
          /\ LET bots == {i \in Present : rows[i].name \in Bot /\ rows[i].token = None}
             IN  \E given \in [bots -> FreeTokens] : GiveTokens(bots, given)
          /\ column' = TRUE
    /\ UNCHANGED <<spent, missing, posts>>

\* seed_strategies looks for each default name; without the column the model's SELECT
\* fails and the seeding is skipped.
SeedReads ==
    /\ boot = "seed"
    /\ \/ column /\ boot' = "commit" /\ missing' = {n \in Default : Named(n) = {}}
       \/ boot' = "up" /\ UNCHANGED missing
    /\ UNCHANGED <<column, rows, spent, issued, posts>>

\* One commit adds all the missing names, without tokens, or none when one of them has
\* appeared meanwhile.
SeedCommits ==
    /\ boot = "commit"
    /\ boot' = "up" /\ missing' = {}
    /\ IF \A n \in missing : Named(n) = {}
       THEN \E key \in [missing -> RowId \ spent] :
               /\ \A m, n \in missing : m # n => key[m] # key[n]
               /\ rows' = [i \in Present \cup {key[n] : n \in missing} |->
                      IF i \in Present THEN rows[i]
                      ELSE [name |-> CHOOSE n \in missing : key[n] = i,
                            token |-> None, active |-> TRUE]]
               /\ spent' = spent \cup {key[n] : n \in missing}
       ELSE UNCHANGED <<rows, spent>>
    /\ UNCHANGED <<column, issued, posts>>

\* A new process takes over; the webhooks of the old one may be lost with it.
Restart ==
    /\ boot = "up"
    /\ boot' = "migrate" /\ missing' = {}
    /\ \/ UNCHANGED posts
       \/ posts' = [p \in Post |-> NoPost]
    /\ UNCHANGED <<column, rows, spent, issued>>

-----------------------------------------------------------------------------
\* The administration of strategies.

CreateStrategy(n) ==
    /\ column /\ Named(n) = {}
    /\ \E i \in RowId \ spent :
          /\ rows' = [j \in Present \cup {i} |->
                 IF j = i THEN [name |-> n, token |-> None, active |-> TRUE] ELSE rows[j]]
          /\ spent' = spent \cup {i}
    /\ UNCHANGED <<column, issued, boot, missing, posts>>

RenameStrategy_WholeRow(i, n) ==
    /\ column /\ i \in Present /\ Named(n) = {}
    /\ rows' = [rows EXCEPT ![i] = [name |-> n, token |-> None, active |-> rows[i].active]]
    /\ Moved(i)
    /\ UNCHANGED <<column, spent, issued, boot, missing>>

\* update_strategy, with a name that is free or an activity: it sets what was sent.
RenameStrategy(i, n) ==
    /\ column /\ i \in Present /\ Named(n) = {}
    /\ rows' = [rows EXCEPT ![i].name = n]
    /\ Moved(i)
    /\ UNCHANGED <<column, spent, issued, boot, missing>>

ActivateStrategy(i, on) ==
    /\ column /\ i \in Present
    /\ rows' = [rows EXCEPT ![i].active = on]
    /\ UNCHANGED <<column, spent, issued, boot, missing, posts>>

DeleteStrategy(i) ==
    /\ column /\ i \in Present
    /\ rows' = [j \in Present \ {i} |-> rows[j]]
    /\ Moved(i)
    /\ UNCHANGED <<column, spent, issued, boot, missing>>

-----------------------------------------------------------------------------
\* Webhooks.

\* chartink_webhook_secure: unknown tokens and inactive strategies end here.
PostSecure(p, t) ==
    LET i == Sole(Holding(t))
    IN  /\ posts[p].stage = "idle"
        /\ column
        /\ posts' = [posts EXCEPT ![p] =
               IF i = None \/ ~rows[i].active THEN [NoPost EXCEPT !.stage = "refused"]
               ELSE [NoPost EXCEPT !.stage = "named", !.found = i, !.name = rows[i].name]]
        /\ UNCHANGED <<column, rows, spent, issued, boot, missing>>

\* chartink_webhook and chartink_webhook2: the name is fixed, activity is not looked at.
PostLegacy(p, n) ==
    /\ posts[p].stage = "idle"
    /\ column
    /\ posts' = [posts EXCEPT ![p] = [NoPost EXCEPT !.stage = "named", !.name = n]]
    /\ UNCHANGED <<column, rows, spent, issued, boot, missing>>

StrategyName_Fixed(p) == CHOOSE n \in Bot : TRUE

StrategyName(p) == posts[p].name

\* receive_webhook looks the strategy up by name; without one the signals have none.
FindStrategy(p) ==
    /\ posts[p].stage = "named"
    /\ posts' = [posts EXCEPT ![p].stage = "credited",
                              ![p].credited = Sole(Named(StrategyName(p)))]
    /\ UNCHANGED <<column, rows, spent, issued, boot, missing>>

\* The answer is sent; another webhook comes.
Answered(p) ==
    /\ posts[p].stage \in {"credited", "refused"}
    /\ posts' = [posts EXCEPT ![p] = NoPost]
    /\ UNCHANGED <<column, rows, spent, issued, boot, missing>>

-----------------------------------------------------------------------------
\* A database of a release without tokens: none of the defaults yet, or all of them.
StrategiesInit ==
    /\ column = FALSE
    /\ \E seeded \in {{}, Default} : \E key \in [seeded -> RowId] :
          /\ \A m, n \in seeded : m # n => key[m] # key[n]
          /\ spent = {key[n] : n \in seeded}
          /\ rows = [i \in spent |-> [name |-> CHOOSE n \in seeded : key[n] = i,
                                      token |-> None, active |-> TRUE]]
    /\ issued = [t \in {} |-> None]
    /\ boot = "migrate" /\ missing = {}
    /\ posts = [p \in Post |-> NoPost]

StartStep == Migrate \/ SeedReads \/ SeedCommits \/ Restart

AdminStep ==
    \/ \E n \in Name : CreateStrategy(n)
    \/ \E i \in RowId : DeleteStrategy(i)
    \/ \E i \in RowId, n \in Name : RenameStrategy(i, n)
    \/ \E i \in RowId, on \in BOOLEAN : ActivateStrategy(i, on)

WebhookStep ==
    \E p \in Post :
        \/ \E t \in Token : PostSecure(p, t)
        \/ \E n \in Bot : PostLegacy(p, n)
        \/ FindStrategy(p) \/ Answered(p)

StrategiesNext == StartStep \/ AdminStep \/ WebhookStep

StrategiesSpec == StrategiesInit /\ [][StrategiesNext]_strategyVars

-----------------------------------------------------------------------------
\* A token stays with the row it was given to, whatever is renamed, seeded, migrated
\* again or restarted: the URL pasted into Chartink works as long as the strategy is
\* not deleted, and leads to no other.
TokenKeepsItsRow ==
    /\ \A i \in Present : rows[i].token # None =>
          rows[i].token \in DOMAIN issued /\ issued[rows[i].token] = i
    /\ \A t \in DOMAIN issued : issued[t] \in Present => rows[issued[t]].token = t

\* The signals of a webhook are booked on the strategy its token belongs to, although
\* they are looked up by name, unless that strategy was renamed or deleted between the
\* two lookups.
CreditedAsPosted ==
    \A p \in Post :
        posts[p].stage = "credited" /\ posts[p].found # None /\ ~posts[p].moved
            => posts[p].credited = posts[p].found
=============================================================================
