------------------------------- MODULE Accounts -------------------------------
(***************************************************************************)
(* Users, logins and the administration of users (routers/users.py,        *)
(* routers/auth.py, core/deps.py).                                         *)
(*                                                                         *)
(* A call of an admin is three steps with an await after each: the         *)
(* dependency reads the caller's row, the handler reads the row it is      *)
(* about, and the commit writes.  Other calls run in between.  The         *)
(* password and the name play no part; a token's expiry and signature are  *)
(* left out.                                                               *)
(***************************************************************************)
EXTENDS Integers

CONSTANTS
    Id,         \* the primary keys that accounts may get; none is used twice
    Email,
    Call        \* the calls of admins, one at a time each

ASSUME AccountsAssumption == Id # {} /\ Email # {}

Role == {"admin", "other"}
Operation == {"create", "update", "delete"}
Keep == "keep"      \* a field that UserUpdate leaves out

Account == [email : Email, role : Role, active : BOOLEAN]
Nobody == "nobody"
NoAccount == [email |-> Nobody, role |-> "other", active |-> FALSE]

VARIABLES
    users,      \* the table, for each key that is in it
    used,       \* the keys that were ever in it
    tokens,     \* the claims of the access tokens that were issued
    calls       \* the calls under way

accountVars == <<users, used, tokens, calls>>

Stage == {"idle", "admitted", "found", "done", "refused"}
Patch == [role : Role \cup {Keep}, active : {"on", "off", Keep}]

\* `own` is the caller's row as it was authorized, `loaded` the row the call is about as
\* the session loaded it.
CallType ==
    [stage : Stage, op : Operation, caller : Id \cup {Nobody}, own : Account \cup {NoAccount},
     target : Id \cup {Nobody}, email : Email \cup {Nobody}, patch : Patch,
     loaded : Account \cup {NoAccount}]

Enrolled == DOMAIN users
Taken(e) == \E i \in Enrolled : users[i].email = e

AccountsTypeOK ==
    /\ Enrolled \subseteq used /\ used \subseteq Id
    /\ users \in [Enrolled -> Account]
    /\ tokens \subseteq [sub : Id, role : Role]
    /\ calls \in [Call -> CallType]

-----------------------------------------------------------------------------
IdleCall ==
    [stage |-> "idle", op |-> "create", caller |-> Nobody, own |-> NoAccount,
     target |-> Nobody, email |-> Nobody, patch |-> [role |-> Keep, active |-> Keep],
     loaded |-> NoAccount]

\* A call is answered, and its session and what it had loaded are gone.
Answer(c, stage) == calls' = [calls EXCEPT ![c] = [IdleCall EXCEPT !.stage = stage]]

\* POST /auth/login, with the right password.
Login(i) ==
    /\ i \in Enrolled /\ users[i].active
    /\ tokens' = tokens \cup {[sub |-> i, role |-> users[i].role]}
    /\ UNCHANGED <<users, used, calls>>

IsAdmin(token) ==
    token.sub \in Enrolled /\ users[token.sub].active /\ users[token.sub].role = "admin"

Authorized_ByClaim(token) == token.sub \in Enrolled /\ token.role = "admin"

\* get_current_user and require_role("admin"): the row decides, not the token's claims.
Authorized(token) == IsAdmin(token)

AllowedTarget_Any(op, caller, target) == TRUE

\* delete_user: "Cannot delete your own account", before anything is read.
AllowedTarget(op, caller, target) == op = "delete" => target # caller

\* What an admin may ask for.
Creation(e) == [IdleCall EXCEPT !.op = "create", !.email = e]
Deletion(i) == [IdleCall EXCEPT !.op = "delete", !.target = i]
Change(i, patch) == [IdleCall EXCEPT !.op = "update", !.target = i, !.patch = patch]

Requests ==
    {Creation(e) : e \in Email} \cup {Deletion(i) : i \in Id}
        \cup {Change(i, patch) : i \in Id, patch \in Patch}

\* A call comes in: the dependencies of its route admit it or not.
Authorize(c, token, request) ==
    /\ calls[c].stage = "idle"
    /\ token \in tokens
    /\ IF Authorized(token) /\ AllowedTarget(request.op, token.sub, request.target)
       THEN calls' = [calls EXCEPT ![c] =
                [request EXCEPT !.stage = "admitted",
                     !.caller = token.sub, !.own = users[token.sub]]]
       ELSE Answer(c, "refused")
    /\ UNCHANGED <<users, used, tokens>>

\* create_user looks for the email; the others for the row.  The session keeps the
\* caller's row as it first read it, so that somebody who updates himself works on it.
FindTarget(c) ==
    LET call == calls[c]
        found == IF call.op = "create" THEN ~Taken(call.email) ELSE call.target \in Enrolled
    IN  /\ call.stage = "admitted"
        /\ IF ~found THEN Answer(c, "refused")
           ELSE calls' = [calls EXCEPT ![c].stage = "found",
                    ![c].loaded = IF call.op = "create" THEN NoAccount
                                  ELSE IF call.target = call.caller THEN call.own
                                  ELSE users[call.target]]
        /\ UNCHANGED <<users, used, tokens>>

\* The constraint on the email refuses the second of two equal ones.
CommitCreate(c) ==
    LET email == calls[c].email
    IN  /\ calls[c].stage = "found" /\ calls[c].op = "create"
        /\ IF Taken(email)
           THEN Answer(c, "refused") /\ UNCHANGED <<users, used>>
           ELSE \E i \in Id \ used, role \in Role :
                   /\ users' = [j \in Enrolled \cup {i} |->
                          IF j = i THEN [email |-> email, role |-> role, active |-> TRUE]
                          ELSE users[j]]
                   /\ used' = used \cup {i}
                   /\ Answer(c, "done")
        /\ UNCHANGED tokens

Patched(row, patch) ==
    [row EXCEPT !.role = IF patch.role = Keep THEN @ ELSE patch.role,
                !.active = IF patch.active = Keep THEN @ ELSE patch.active = "on"]

Written_WholeRow(row, loaded, patch) == Patched(loaded, patch)

\* The UPDATE sets the columns whose values differ from the loaded ones, no others.
Written(row, loaded, patch) ==
    LET wanted == Patched(loaded, patch)
    IN  [row EXCEPT !.role = IF wanted.role # loaded.role THEN wanted.role ELSE @,
                    !.active = IF wanted.active # loaded.active THEN wanted.active ELSE @]

\* update_user: the flush, or the refresh after it, fails when the row is gone.
CommitUpdate(c) ==
    LET call == calls[c]
    IN  /\ call.stage = "found" /\ call.op = "update"
        /\ IF call.target \in Enrolled
           THEN /\ users' = [users EXCEPT ![call.target] = Written(@, call.loaded, call.patch)]
                /\ Answer(c, "done")
           ELSE Answer(c, "refused") /\ UNCHANGED users
        /\ UNCHANGED <<used, tokens>>

\* delete_user: a DELETE of a row that is gone only logs a warning.
CommitDelete(c) ==
    LET call == calls[c]
    IN  /\ call.stage = "found" /\ call.op = "delete"
        /\ users' = [i \in Enrolled \ {call.target} |-> users[i]]
        /\ Answer(c, "done")
        /\ UNCHANGED <<used, tokens>>

\* The process ends and with it its calls; rows and tokens outlive it.
CallsLost ==
    /\ calls' = [c \in Call |-> IdleCall]
    /\ UNCHANGED <<users, used, tokens>>

-----------------------------------------------------------------------------
\* Two admins and their tokens.
AccountsInit ==
    /\ \E i, j \in Id, e, f \in Email :
          /\ i # j /\ e # f
          /\ used = {i, j}
          /\ users = [k \in used |-> [email |-> IF k = i THEN e ELSE f,
                                      role |-> "admin", active |-> TRUE]]
    /\ tokens = [sub : used, role : {"admin"}]
    /\ calls = [c \in Call |-> IdleCall]

AccountsNext ==
    \/ \E i \in Id : Login(i)
    \/ \E c \in Call, token \in tokens, request \in Requests : Authorize(c, token, request)
    \/ \E c \in Call :
          FindTarget(c) \/ CommitCreate(c) \/ CommitUpdate(c) \/ CommitDelete(c)
    \/ CallsLost

AccountsSpec == AccountsInit /\ [][AccountsNext]_accountVars

-----------------------------------------------------------------------------
\* The call that a step completes.
Completes(c) == calls[c].stage = "found" /\ calls'[c].stage = "done"

\* Whoever changes the table was an active admin in the table when his call came in: a
\* token says what its owner was at login, and a demoted, deactivated or deleted admin
\* still holds one that says "admin".
RevokedIsRefused ==
    [][users' # users =>
          \E c \in Call : Completes(c) /\ calls[c].own.role = "admin" /\ calls[c].own.active
      ]_accountVars

Regains(i) ==
    /\ i \in Enrolled /\ i \in DOMAIN users'
    /\ \/ ~users[i].active /\ users'[i].active
       \/ users[i].role # "admin" /\ users'[i].role = "admin"

\* An account that was deactivated or demoted gets its rights back only by a call that
\* says so, never by a call about something else that had read it before.
RevocationSticks ==
    [][\A i \in Id : Regains(i) =>
          \E c \in Call :
             /\ Completes(c) /\ calls[c].op = "update" /\ calls[c].target = i
             /\ ~users[i].active /\ users'[i].active => calls[c].patch.active = "on"
             /\ users[i].role # "admin" /\ users'[i].role = "admin" => calls[c].patch.role = "admin"
      ]_accountVars

Admins == {i \in Enrolled : IsAdmin([sub |-> i])}

\* The last admin is deleted only by a caller who has lost his own rights since his call
\* was authorized ("Cannot delete your own account"): two admins who delete one another
\* at once.  (An admin may demote or deactivate himself.)
LastAdminFallsToAStaleCall ==
    [][\A c \in Call :
          Completes(c) /\ calls[c].op = "delete" /\ Admins # {} /\ Admins' = {}
             => calls[c].caller \notin Admins
      ]_accountVars
=============================================================================
