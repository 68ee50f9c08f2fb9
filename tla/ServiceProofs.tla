---------------------------- MODULE ServiceProofs ----------------------------
(***************************************************************************)
(* Theorems about the service around the trades: the WebSocket hub, the    *)
(* strategies with their webhooks, and the accounts, for any number of     *)
(* each.                                                                   *)
(***************************************************************************)
EXTENDS Hub, Strategies, Accounts, TLAPS

-----------------------------------------------------------------------------
\* The hub.

\* A socket that never connected is in no set and heard nothing; the dead of a
\* broadcast are not connected, so that burying them takes nobody else out.
HubInv ==
    /\ HubTypeOK
    /\ open \cap ended = {}
    /\ active \subseteq open \cup ended
    /\ sending \subseteq open \cup ended
    /\ dead \subseteq ended
    /\ \A s \in Socket : s \notin open \cup ended => heard[s] = <<>>
    /\ NothingMissed

LEMMA HubInitInv == HubInit => HubInv
  BY HubAssumption DEF HubInit, HubInv, HubTypeOK, NothingMissed

LEMMA ConnectInv ==
  ASSUME HubInv, NEW s \in Socket, Connect(s)
  PROVE  HubInv'
  <1>1. HubTypeOK'
    BY DEF HubInv, HubTypeOK, Connect
  <1>2. /\ (open \cap ended = {})' /\ (active \subseteq open \cup ended)'
        /\ (sending \subseteq open \cup ended)' /\ (dead \subseteq ended)'
        /\ (\A x \in Socket : x \notin open \cup ended => heard[x] = <<>>)'
    BY DEF HubInv, Connect
  <1>3. NothingMissed'
    <2> SUFFICES ASSUME NEW x \in open'
                 PROVE  LET due == message - since'[x] - (IF x \in sending THEN 1 ELSE 0)
                        IN  /\ x \in active'
                            /\ Len(heard[x]) = due
                            /\ \A k \in 1 .. Len(heard[x]) : heard[x][k] = since'[x] + k
      BY DEF NothingMissed, Connect
    <2>1. CASE x = s
      <3>1. heard[s] = <<>> /\ s \notin sending /\ since'[s] = message /\ message \in Nat
        BY DEF HubInv, HubTypeOK, Connect
      <3>2. Len(heard[s]) = 0
        BY <3>1
      <3> QED BY <2>1, <3>1, <3>2 DEF Connect
    <2>2. CASE x # s
      <3>1. x \in open /\ since'[x] = since[x] /\ active \subseteq active'
        BY <2>2 DEF HubInv, HubTypeOK, Connect
      <3> QED BY <3>1 DEF HubInv, NothingMissed
    <2> QED BY <2>1, <2>2
  <1> QED BY <1>1, <1>2, <1>3 DEF HubInv

LEMMA SendInv ==
  ASSUME HubInv, NEW s \in Socket, Send(s)
  PROVE  HubInv'
  <1>1. /\ message \in Nat /\ heard \in [Socket -> Seq(Nat)] /\ since \in [Socket -> Nat]
        /\ heard' \in [Socket -> Seq(Nat)]
        /\ \A x \in Socket : x # s => heard'[x] = heard[x]
    <2>1. message \in Nat /\ heard \in [Socket -> Seq(Nat)] /\ since \in [Socket -> Nat]
      BY DEF HubInv, HubTypeOK
    <2>2. Append(heard[s], message) \in Seq(Nat)
      BY <2>1
    <2>3. heard' = heard \/ heard' = [heard EXCEPT ![s] = Append(heard[s], message)]
      BY DEF Send, Deliver
    <2> QED BY <2>1, <2>2, <2>3
  <1>2. HubTypeOK'
    BY <1>1 DEF HubInv, HubTypeOK, Send, Deliver
  <1>3. /\ (open \cap ended = {})' /\ (active \subseteq open \cup ended)'
        /\ (sending \subseteq open \cup ended)' /\ (dead \subseteq ended)'
        /\ (\A x \in Socket : x \notin open \cup ended => heard[x] = <<>>)'
    BY <1>1 DEF HubInv, Send, Deliver
  <1>4. NothingMissed'
    <2> SUFFICES ASSUME NEW x \in open
                 PROVE  LET due == message - since[x] - (IF x \in sending' THEN 1 ELSE 0)
                        IN  /\ x \in active
                            /\ Len(heard'[x]) = due
                            /\ \A k \in 1 .. Len(heard'[x]) : heard'[x][k] = since[x] + k
      BY DEF NothingMissed, Send
    <2>1. x \in Socket
      BY DEF HubInv, HubTypeOK
    <2>2. CASE x # s
      <3>1. heard'[x] = heard[x] /\ (x \in sending' <=> x \in sending)
        BY <1>1, <2>1, <2>2 DEF Send
      <3> QED BY <3>1 DEF HubInv, NothingMissed
    <2>3. CASE x = s
      <3>1. /\ s \in sending /\ s \notin sending' /\ s \in active
            /\ Len(heard[s]) = message - since[s] - 1
            /\ \A k \in 1 .. Len(heard[s]) : heard[s][k] = since[s] + k
        BY <2>3 DEF HubInv, NothingMissed, Send
      <3>2. heard'[s] = Append(heard[s], message)
        BY <1>1, <2>3 DEF Send, Deliver
      <3>3. heard[s] \in Seq(Nat) /\ since[s] \in Nat /\ Len(heard[s]) \in Nat
        BY <1>1
      <3>4. /\ Len(heard'[s]) = Len(heard[s]) + 1
            /\ \A k \in 1 .. Len(heard[s]) : heard'[s][k] = heard[s][k]
            /\ heard'[s][Len(heard[s]) + 1] = message
        BY <1>1, <3>2, <3>3
      <3>5. \A k \in 1 .. Len(heard'[s]) : heard'[s][k] = since[s] + k
        <4> SUFFICES ASSUME NEW k \in 1 .. Len(heard'[s]) PROVE heard'[s][k] = since[s] + k
          OBVIOUS
        <4>1. k \in 1 .. Len(heard[s]) \/ k = Len(heard[s]) + 1
          BY <3>3, <3>4
        <4>2. CASE k \in 1 .. Len(heard[s])
          BY <4>2, <3>1, <3>4
        <4>3. CASE k = Len(heard[s]) + 1
          BY <4>3, <1>1, <3>1, <3>3, <3>4
        <4> QED BY <4>1, <4>2, <4>3
      <3>6. message - since[s] - (IF s \in sending' THEN 1 ELSE 0) = message - since[s]
        BY <1>1, <3>1, <3>3
      <3>7. Len(heard'[s]) = message - since[s]
        BY <1>1, <3>1, <3>3, <3>4
      <3> QED BY <2>3, <3>1, <3>5, <3>6, <3>7
    <2> QED BY <2>2, <2>3
  <1> QED BY <1>2, <1>3, <1>4 DEF HubInv

LEMMA BroadcastInv ==
  ASSUME HubInv, Broadcast
  PROVE  HubInv'
  <1>1. HubTypeOK'
    BY DEF HubInv, HubTypeOK, Broadcast
  <1>2. NothingMissed'
    <2> SUFFICES ASSUME NEW x \in open
                 PROVE  LET due == message' - since[x] - (IF x \in sending' THEN 1 ELSE 0)
                        IN  /\ x \in active
                            /\ Len(heard[x]) = due
                            /\ \A k \in 1 .. Len(heard[x]) : heard[x][k] = since[x] + k
      BY DEF NothingMissed, Broadcast
    <2>1. /\ x \in active /\ x \notin sending /\ x \in sending'
          /\ Len(heard[x]) = message - since[x]
          /\ \A k \in 1 .. Len(heard[x]) : heard[x][k] = since[x] + k
      BY DEF HubInv, NothingMissed, Broadcast, Idle, HubTypeOK
    <2>2. message \in Nat /\ since[x] \in Nat /\ message' = message + 1
      BY DEF HubInv, HubTypeOK, Broadcast
    <2>3. message' - since[x] - (IF x \in sending' THEN 1 ELSE 0) = message - since[x]
      BY <2>1, <2>2
    <2> QED BY <2>1, <2>3
  <1> QED BY <1>1, <1>2 DEF HubInv, Broadcast

LEMMA LeavingInv ==
  ASSUME HubInv, Bury \/ HubLost \/ \E s \in Socket : Vanish(s) \/ Disconnect(s)
  PROVE  HubInv'
  <1>1. CASE Bury
    BY <1>1 DEF HubInv, HubTypeOK, NothingMissed, Bury
  <1>2. CASE HubLost
    BY <1>2 DEF HubInv, HubTypeOK, NothingMissed, HubLost
  <1>3. ASSUME NEW s \in Socket, Vanish(s) PROVE HubInv'
    BY <1>3 DEF HubInv, HubTypeOK, NothingMissed, Vanish
  <1>4. ASSUME NEW s \in Socket, Disconnect(s) PROVE HubInv'
    BY <1>4 DEF HubInv, HubTypeOK, NothingMissed, Disconnect
  <1> QED BY <1>1, <1>2, <1>3, <1>4

\* Every client hears every message that was broadcast since it joined, each once and
\* in order, whoever connects, goes or fails during a broadcast.
THEOREM HubDelivers == HubSpec => []NothingMissed
  <1>1. HubInv /\ [HubNext]_hubVars => HubInv'
    <2> SUFFICES ASSUME HubInv, [HubNext]_hubVars PROVE HubInv'
      OBVIOUS
    <2>1. CASE HubNext
      BY <2>1, ConnectInv, SendInv, BroadcastInv, LeavingInv DEF HubNext
    <2>2. CASE UNCHANGED hubVars
      BY <2>2 DEF hubVars, HubInv, HubTypeOK, NothingMissed
    <2> QED BY <2>1, <2>2
  <1>2. HubInv => NothingMissed
    BY DEF HubInv
  <1> QED BY HubInitInv, <1>1, <1>2, PTL DEF HubSpec

-----------------------------------------------------------------------------
\* The accounts.

\* A call under way was admitted on the row of an active admin, and does not delete him.
AdmittedInv ==
    \A c \in Call : calls[c].stage \in {"admitted", "found"} =>
        /\ calls[c].own.role = "admin" /\ calls[c].own.active = TRUE
        /\ calls[c].op = "delete" => calls[c].target # calls[c].caller
        /\ calls[c].op = "create" => calls[c].email \in Email

AccountsInv == AccountsTypeOK /\ AdmittedInv

USE DEF Role, Operation, Keep, Stage, Patch, Nobody, NoAccount, Account

LEMMA IdleCallType == IdleCall \in CallType
  BY DEF IdleCall, CallType

LEMMA AnsweredType ==
  ASSUME NEW stage \in Stage
  PROVE  [IdleCall EXCEPT !.stage = stage] \in CallType
  BY DEF IdleCall, CallType

\* A call that is answered is under way no more; the others are as they were.
LEMMA AnswerInv ==
  ASSUME AccountsInv, NEW c \in Call, NEW stage \in {"done", "refused"}, Answer(c, stage)
  PROVE  /\ calls' \in [Call -> CallType]
         /\ AdmittedInv'
  <1>1. [IdleCall EXCEPT !.stage = stage] \in CallType
    BY AnsweredType
  <1>2. calls' \in [Call -> CallType]
    BY <1>1 DEF Answer, AccountsInv, AccountsTypeOK
  <1>3. calls'[c].stage = stage
    BY DEF Answer, AccountsInv, AccountsTypeOK, IdleCall
  <1>4. \A d \in Call : d # c => calls'[d] = calls[d]
    BY DEF Answer, AccountsInv, AccountsTypeOK
  <1>5. AdmittedInv'
    BY <1>3, <1>4 DEF AdmittedInv, AccountsInv
  <1> QED BY <1>2, <1>5

LEMMA AccountsInitInv == AccountsInit => AccountsInv
  <1> SUFFICES ASSUME AccountsInit PROVE AccountsInv
    OBVIOUS
  <1>1. calls \in [Call -> CallType] /\ \A c \in Call : calls[c] = IdleCall
    BY IdleCallType DEF AccountsInit
  <1>2. AdmittedInv
    BY <1>1 DEF AdmittedInv, IdleCall
  <1>3. AccountsTypeOK
    BY <1>1 DEF AccountsInit, AccountsTypeOK, Enrolled
  <1> QED BY <1>2, <1>3 DEF AccountsInv

LEMMA LoginInv ==
  ASSUME AccountsInv, NEW i \in Id, Login(i)
  PROVE  AccountsInv'
  BY DEF AccountsInv, AccountsTypeOK, AdmittedInv, Login, Enrolled

LEMMA RequestType ==
  ASSUME NEW request \in Requests
  PROVE  /\ request \in CallType
         /\ request.op = "create" => request.email \in Email
  <1>1. ASSUME NEW e \in Email
        PROVE  Creation(e) \in CallType /\ Creation(e).email \in Email
    BY DEF Creation, IdleCall, CallType
  <1>2. ASSUME NEW i \in Id
        PROVE  Deletion(i) \in CallType /\ Deletion(i).op = "delete"
    BY DEF Deletion, IdleCall, CallType
  <1>3. ASSUME NEW i \in Id, NEW p \in Patch
        PROVE  Change(i, p) \in CallType /\ Change(i, p).op = "update"
    BY DEF Change, IdleCall, CallType
  <1> QED BY <1>1, <1>2, <1>3 DEF Requests

LEMMA AuthorizeInv ==
  ASSUME AccountsInv, NEW c \in Call, NEW token \in tokens, NEW request \in Requests,
         Authorize(c, token, request)
  PROVE  AccountsInv'
  <1>1. UNCHANGED <<users, used, tokens>>
    BY DEF Authorize
  <1>2. CASE Answer(c, "refused")
    BY <1>1, <1>2, AnswerInv DEF AccountsInv, AccountsTypeOK, Enrolled
  <1>3. CASE /\ Authorized(token) /\ AllowedTarget(request.op, token.sub, request.target)
             /\ calls' = [calls EXCEPT ![c] =
                    [request EXCEPT !.stage = "admitted",
                        !.caller = token.sub, !.own = users[token.sub]]]
    <2>1. /\ token.sub \in Id /\ users[token.sub] \in Account
          /\ users[token.sub].role = "admin" /\ users[token.sub].active = TRUE
      BY <1>3 DEF Authorized, IsAdmin, AccountsInv, AccountsTypeOK, Enrolled
    <2> DEFINE new == [request EXCEPT !.stage = "admitted",
                          !.caller = token.sub, !.own = users[token.sub]]
    <2>2. new \in CallType
      BY <2>1, RequestType DEF CallType
    <2>3. /\ new.own.role = "admin" /\ new.own.active = TRUE
          /\ new.op = "delete" => new.target # new.caller
          /\ new.op = "create" => new.email \in Email
      BY <1>3, <2>1, RequestType DEF AllowedTarget, CallType
    <2> HIDE DEF new
    <2>4. calls' = [calls EXCEPT ![c] = new]
      BY <1>3 DEF new
    <2>5. calls' \in [Call -> CallType] /\ calls'[c] = new
          /\ \A d \in Call : d # c => calls'[d] = calls[d]
      BY <2>2, <2>4 DEF AccountsInv, AccountsTypeOK
    <2>6. AdmittedInv'
      BY <2>3, <2>5 DEF AdmittedInv, AccountsInv
    <2> QED BY <1>1, <2>5, <2>6 DEF AccountsInv, AccountsTypeOK, Enrolled
  <1> QED BY <1>2, <1>3 DEF Authorize

\* Two fields of one value of a function.
LEMMA TwoFields ==
  ASSUME NEW S, NEW T, NEW f \in [S -> T], NEW x \in S, NEW a, NEW b
  PROVE  [f EXCEPT ![x].stage = a, ![x].loaded = b]
            = [f EXCEPT ![x] = [f[x] EXCEPT !.stage = a, !.loaded = b]]
  OBVIOUS

LEMMA FindTargetInv ==
  ASSUME AccountsInv, NEW c \in Call, FindTarget(c)
  PROVE  AccountsInv'
  <1>1. UNCHANGED <<users, used, tokens>>
    BY DEF FindTarget
  <1>2. CASE Answer(c, "refused")
    BY <1>1, <1>2, AnswerInv DEF AccountsInv, AccountsTypeOK, Enrolled
  <1>3. CASE ~Answer(c, "refused")
    <2> DEFINE row == IF calls[c].op = "create" THEN NoAccount
                      ELSE IF calls[c].target = calls[c].caller THEN calls[c].own
                      ELSE users[calls[c].target]
    <2>1. /\ calls' = [calls EXCEPT ![c].stage = "found", ![c].loaded = row]
          /\ calls[c].op = "create" \/ calls[c].target \in Enrolled
      BY <1>3 DEF FindTarget
    <2>2. row \in Account \cup {NoAccount}
      <3>1. calls[c].own \in Account \cup {NoAccount}
        BY DEF AccountsInv, AccountsTypeOK, CallType
      <3>2. calls[c].target \in Enrolled => users[calls[c].target] \in Account
        BY DEF AccountsInv, AccountsTypeOK, Enrolled
      <3>3. CASE calls[c].op = "create"
        BY <3>3
      <3>4. CASE calls[c].op # "create" /\ calls[c].target = calls[c].caller
        BY <3>1, <3>4
      <3>5. CASE calls[c].op # "create" /\ calls[c].target # calls[c].caller
        BY <2>1, <3>2, <3>5
      <3> QED BY <3>3, <3>4, <3>5
    <2> HIDE DEF row
    <2>3. calls[c] \in CallType /\ calls[c].stage = "admitted"
      BY DEF FindTarget, AccountsInv, AccountsTypeOK
    <2> DEFINE new == [calls[c] EXCEPT !.stage = "found", !.loaded = row]
    <2>4. /\ new \in CallType /\ new.own = calls[c].own /\ new.op = calls[c].op
          /\ new.target = calls[c].target /\ new.caller = calls[c].caller
          /\ new.email = calls[c].email
      BY <2>2, <2>3 DEF CallType
    <2>5. calls' = [calls EXCEPT ![c] = new]
      BY <2>1, TwoFields DEF AccountsInv, AccountsTypeOK
    <2> HIDE DEF new
    <2>6. calls' \in [Call -> CallType] /\ calls'[c] = new
          /\ \A d \in Call : d # c => calls'[d] = calls[d]
      BY <2>4, <2>5 DEF AccountsInv, AccountsTypeOK
    <2>7. AdmittedInv'
      BY <2>3, <2>4, <2>6 DEF AdmittedInv, AccountsInv
    <2> QED BY <1>1, <2>6, <2>7 DEF AccountsInv, AccountsTypeOK, Enrolled
  <1> QED BY <1>2, <1>3

LEMMA WrittenType ==
  ASSUME NEW row \in Account, NEW loaded \in Account \cup {NoAccount}, NEW patch \in Patch
  PROVE  Written(row, loaded, patch) \in Account
  BY DEF Written, Patched

LEMMA CommitInv ==
  ASSUME AccountsInv, NEW c \in Call,
         CommitCreate(c) \/ CommitUpdate(c) \/ CommitDelete(c)
  PROVE  AccountsInv'
  <1>1. calls' \in [Call -> CallType] /\ AdmittedInv'
    BY AnswerInv DEF CommitCreate, CommitUpdate, CommitDelete
  <1>2. tokens' = tokens
    BY DEF CommitCreate, CommitUpdate, CommitDelete
  <1>3. /\ Enrolled' \subseteq used' /\ used' \subseteq Id
        /\ users' \in [Enrolled' -> Account]
    <2>1. CASE CommitCreate(c)
      <3>1. CASE UNCHANGED <<users, used>>
        BY <3>1 DEF AccountsInv, AccountsTypeOK, Enrolled
      <3>2. CASE \E i \in Id \ used, role \in Role :
                   /\ users' = [j \in Enrolled \cup {i} |->
                          IF j = i THEN [email |-> calls[c].email, role |-> role, active |-> TRUE]
                          ELSE users[j]]
                   /\ used' = used \cup {i}
        <4>1. calls[c].email \in Email
          BY <2>1 DEF AccountsInv, AdmittedInv, CommitCreate
        <4> QED BY <3>2, <4>1 DEF AccountsInv, AccountsTypeOK, Enrolled
      <3> QED BY <2>1, <3>1, <3>2 DEF CommitCreate
    <2>2. CASE CommitUpdate(c)
      <3>1. CASE calls[c].target \in Enrolled
        <4>1. /\ users[calls[c].target] \in Account /\ calls[c].patch \in Patch
              /\ calls[c].loaded \in Account \cup {NoAccount}
          BY <3>1 DEF AccountsInv, AccountsTypeOK, CallType
        <4>2. Written(users[calls[c].target], calls[c].loaded, calls[c].patch) \in Account
          BY <4>1, WrittenType
        <4>3. users' = [users EXCEPT ![calls[c].target] =
                           Written(users[calls[c].target], calls[c].loaded, calls[c].patch)]
          BY <2>2, <3>1 DEF CommitUpdate
        <4> QED BY <2>2, <4>2, <4>3 DEF CommitUpdate, AccountsInv, AccountsTypeOK, Enrolled
      <3>2. CASE calls[c].target \notin Enrolled
        BY <2>2, <3>2 DEF CommitUpdate, AccountsInv, AccountsTypeOK, Enrolled
      <3> QED BY <3>1, <3>2
    <2>3. CASE CommitDelete(c)
      BY <2>3 DEF CommitDelete, AccountsInv, AccountsTypeOK, Enrolled
    <2> QED BY <2>1, <2>2, <2>3
  <1> QED BY <1>1, <1>2, <1>3 DEF AccountsInv, AccountsTypeOK, Enrolled

LEMMA CallsLostInv ==
  ASSUME AccountsInv, CallsLost
  PROVE  AccountsInv'
  <1>1. calls' \in [Call -> CallType] /\ \A c \in Call : calls'[c] = IdleCall
    BY IdleCallType DEF CallsLost
  <1>2. AdmittedInv'
    BY <1>1 DEF AdmittedInv, IdleCall
  <1> QED BY <1>1, <1>2 DEF CallsLost, AccountsInv, AccountsTypeOK, Enrolled

LEMMA AccountsInvHolds == AccountsSpec => []AccountsInv
  <1>1. AccountsInv /\ [AccountsNext]_accountVars => AccountsInv'
    <2> SUFFICES ASSUME AccountsInv, [AccountsNext]_accountVars PROVE AccountsInv'
      OBVIOUS
    <2>1. CASE AccountsNext
      BY <2>1, LoginInv, AuthorizeInv, FindTargetInv, CommitInv, CallsLostInv DEF AccountsNext
    <2>2. CASE UNCHANGED accountVars
      BY <2>2 DEF accountVars, AccountsInv, AccountsTypeOK, AdmittedInv, Enrolled
    <2> QED BY <2>1, <2>2
  <1> QED BY AccountsInitInv, <1>1, PTL DEF AccountsSpec

\* The table changes only when a call completes that was admitted before.
LEMMA ChangeCompletes ==
  ASSUME AccountsInv, AccountsNext, users' # users
  PROVE  \E c \in Call :
            /\ CommitCreate(c) \/ CommitUpdate(c) \/ CommitDelete(c)
            /\ Completes(c)
  <1>1. PICK c \in Call : CommitCreate(c) \/ CommitUpdate(c) \/ CommitDelete(c)
    BY DEF AccountsNext, Login, Authorize, FindTarget, CallsLost
  <1>2. calls[c].stage = "found" /\ Answer(c, "done")
    BY <1>1 DEF CommitCreate, CommitUpdate, CommitDelete
  <1>3. calls'[c].stage = "done"
    BY <1>2 DEF Answer, IdleCall, AccountsInv, AccountsTypeOK
  <1> QED BY <1>1, <1>2, <1>3 DEF Completes

\* A call is completed by its own commit.
LEMMA Completer ==
  ASSUME AccountsInv, AccountsNext, NEW c \in Call, Completes(c)
  PROVE  CommitCreate(c) \/ CommitUpdate(c) \/ CommitDelete(c)
  <1>1. /\ calls[c].stage = "found" /\ calls'[c].stage = "done" /\ calls' # calls
        /\ calls \in [Call -> CallType]
    BY DEF Completes, AccountsInv, AccountsTypeOK
  <1>2. ASSUME NEW d \in Call, NEW stage, Answer(d, stage)
        PROVE  d = c /\ stage = "done"
    <2>1. /\ \A e \in Call : e # d => calls'[e] = calls[e]
          /\ calls'[d].stage = stage
      BY <1>1, <1>2 DEF Answer, IdleCall
    <2> QED BY <1>1, <2>1
  <1>3. ~CallsLost
    BY <1>1 DEF CallsLost, IdleCall
  <1>4. ASSUME NEW i \in Id PROVE ~Login(i)
    BY <1>1 DEF Login
  <1>5. ASSUME NEW d \in Call, NEW token \in tokens, NEW request \in Requests,
               Authorize(d, token, request)
        PROVE  FALSE
    <2>1. ~Answer(d, "refused")
      BY <1>2
    <2>2. \E new : calls' = [calls EXCEPT ![d] = new]
      BY <1>5, <2>1 DEF Authorize
    <2>3. d # c
      BY <1>1, <1>5 DEF Authorize
    <2> QED BY <1>1, <2>2, <2>3
  <1>6. ASSUME NEW d \in Call, FindTarget(d) PROVE FALSE
    <2>1. ~Answer(d, "refused")
      BY <1>2
    <2> DEFINE row == IF calls[d].op = "create" THEN NoAccount
                      ELSE IF calls[d].target = calls[d].caller THEN calls[d].own
                      ELSE users[calls[d].target]
    <2>2. calls' = [calls EXCEPT ![d].stage = "found", ![d].loaded = row]
      BY <1>6, <2>1 DEF FindTarget
    <2> HIDE DEF row
    <2>3. d # c
      BY <1>1, <1>6 DEF FindTarget
    <2>4. calls'[c] = calls[c]
      BY <1>1, <2>2, <2>3
    <2> QED BY <1>1, <2>4
  <1>7. PICK d \in Call : CommitCreate(d) \/ CommitUpdate(d) \/ CommitDelete(d)
    BY <1>3, <1>4, <1>5, <1>6 DEF AccountsNext
  <1>8. \E stage : Answer(d, stage)
    BY <1>7 DEF CommitCreate, CommitUpdate, CommitDelete
  <1>9. d = c
    BY <1>2, <1>8
  <1> QED BY <1>7, <1>9

\* Whoever changes the table was an active admin in it when his call came in, whatever
\* his token says (get_current_user, require_role).
THEOREM OnlyAdminsChangeUsers == AccountsSpec => RevokedIsRefused
  <1>1. AccountsInv /\ [AccountsNext]_accountVars
          => [users' # users =>
                \E c \in Call : Completes(c) /\ calls[c].own.role = "admin" /\ calls[c].own.active
             ]_accountVars
    <2> SUFFICES ASSUME AccountsInv, AccountsNext, users' # users
                 PROVE  \E c \in Call :
                           Completes(c) /\ calls[c].own.role = "admin" /\ calls[c].own.active
      OBVIOUS
    <2>1. PICK c \in Call : Completes(c)
      BY ChangeCompletes
    <2> QED BY <2>1 DEF Completes, AccountsInv, AdmittedInv
  <1> QED BY AccountsInvHolds, <1>1, PTL DEF AccountsSpec, RevokedIsRefused

\* The only calls that delete the last admin are those of somebody who is no admin any
\* more (delete_user, "Cannot delete your own account").
THEOREM NoAdminDeletesTheLast == AccountsSpec => LastAdminFallsToAStaleCall
  <1>1. AccountsInv /\ [AccountsNext]_accountVars
          => [\A c \in Call :
                Completes(c) /\ calls[c].op = "delete" /\ Admins # {} /\ Admins' = {}
                   => calls[c].caller \notin Admins
             ]_accountVars
    <2> SUFFICES ASSUME AccountsInv, AccountsNext, NEW c \in Call, Completes(c),
                        calls[c].op = "delete", Admins' = {}
                 PROVE  calls[c].caller \notin Admins
      OBVIOUS
    <2>1. calls[c].target # calls[c].caller
      BY DEF Completes, AccountsInv, AdmittedInv
    <2>2. users' = [i \in Enrolled \ {calls[c].target} |-> users[i]]
      <3>2. CommitDelete(c)
        BY Completer DEF CommitCreate, CommitUpdate
      <3> QED BY <3>2 DEF CommitDelete
    <2>3. ASSUME calls[c].caller \in Admins PROVE calls[c].caller \in Admins'
      BY <2>1, <2>2, <2>3 DEF Admins, IsAdmin, Enrolled
    <2> QED BY <2>3
  <1> QED BY AccountsInvHolds, <1>1, PTL DEF AccountsSpec, LastAdminFallsToAStaleCall

\* The row on which a call was admitted is the caller's row in the table.
FreshInv ==
    \A c \in Call : calls[c].stage \in {"admitted", "found"} =>
        calls[c].caller \in Enrolled /\ users[calls[c].caller] = calls[c].own

\* It stays so while no other call runs: only a call's own commit ends it.
LEMMA FreshWhileAlone ==
  ASSUME \A c, d \in Call : c = d
  PROVE  AccountsSpec => []FreshInv
  <1>1. AccountsInit => FreshInv
    BY DEF AccountsInit, FreshInv, IdleCall
  <1>2. AccountsInv /\ AccountsInv' /\ FreshInv /\ [AccountsNext]_accountVars => FreshInv'
    <2> SUFFICES ASSUME AccountsInv, AccountsInv', FreshInv, [AccountsNext]_accountVars
                 PROVE  FreshInv'
      OBVIOUS
    <2>0. calls \in [Call -> CallType] /\ calls' \in [Call -> CallType]
      BY DEF AccountsInv, AccountsTypeOK
    <2>1. ASSUME NEW c \in Call, NEW stage \in {"done", "refused"}, Answer(c, stage)
          PROVE  FreshInv'
      <3>1. \A d \in Call : calls'[d].stage = stage
        BY <2>0, <2>1 DEF Answer, IdleCall
      <3> QED BY <2>1, <3>1 DEF FreshInv
    <2>2. ASSUME NEW c \in Call, CommitCreate(c) \/ CommitUpdate(c) \/ CommitDelete(c)
          PROVE  FreshInv'
      BY <2>1, <2>2 DEF CommitCreate, CommitUpdate, CommitDelete
    <2>3. ASSUME NEW c \in Call, NEW token \in tokens, NEW request \in Requests,
                 Authorize(c, token, request)
          PROVE  FreshInv'
      <3>1. CASE Answer(c, "refused")
        BY <2>1, <3>1
      <3>2. CASE ~Answer(c, "refused")
        <4> DEFINE call == [request EXCEPT !.stage = "admitted",
                               !.caller = token.sub, !.own = users[token.sub]]
        <4>1. calls' = [calls EXCEPT ![c] = call] /\ token.sub \in Enrolled
          BY <2>3, <3>2 DEF Authorize, Authorized, IsAdmin
        <4>2. call.caller = token.sub /\ call.own = users[token.sub]
          BY RequestType DEF CallType
        <4> HIDE DEF call
        <4>3. calls'[c] = call
          BY <2>0, <4>1
        <4>4. UNCHANGED users /\ \A d \in Call : d = c
          BY <2>3 DEF Authorize
        <4> QED BY <4>1, <4>2, <4>3, <4>4 DEF FreshInv, Enrolled
      <3> QED BY <3>1, <3>2
    <2>4. ASSUME NEW c \in Call, FindTarget(c)
          PROVE  FreshInv'
      <3>1. CASE Answer(c, "refused")
        BY <2>1, <3>1
      <3>2. CASE ~Answer(c, "refused")
        <4> DEFINE row == IF calls[c].op = "create" THEN NoAccount
                          ELSE IF calls[c].target = calls[c].caller THEN calls[c].own
                          ELSE users[calls[c].target]
        <4>1. calls' = [calls EXCEPT ![c].stage = "found", ![c].loaded = row]
          BY <2>4, <3>2 DEF FindTarget
        <4> HIDE DEF row
        <4>2. calls' = [calls EXCEPT ![c] = [calls[c] EXCEPT !.stage = "found", !.loaded = row]]
          BY <2>0, <4>1, TwoFields
        <4>3. calls'[c].caller = calls[c].caller /\ calls'[c].own = calls[c].own
          BY <2>0, <4>2 DEF CallType
        <4>4. UNCHANGED users /\ calls[c].stage = "admitted" /\ \A d \in Call : d = c
          BY <2>4 DEF FindTarget
        <4> QED BY <4>3, <4>4 DEF FreshInv, Enrolled
      <3> QED BY <3>1, <3>2
    <2>5. CASE CallsLost
      BY <2>5 DEF CallsLost, FreshInv, IdleCall
    <2>6. CASE (\E i \in Id : Login(i)) \/ UNCHANGED accountVars
      BY <2>6 DEF Login, accountVars, FreshInv, Enrolled
    <2> QED BY <2>2, <2>3, <2>4, <2>5, <2>6 DEF AccountsNext
  <1> QED BY AccountsInvHolds, <1>1, <1>2, PTL DEF AccountsSpec

\* With one call at a time a caller still is an admin when his call changes the table,
\* and no deletion leaves the table without one: only calls that overlap, at the awaits
\* of get_current_user and of the handlers, can do otherwise.
THEOREM OneCallKeepsAnAdmin ==
  ASSUME \A c, d \in Call : c = d
  PROVE  AccountsSpec =>
            [][\A c \in Call : Completes(c) =>
                  /\ calls[c].caller \in Admins
                  /\ calls[c].op = "delete" => Admins' # {}]_accountVars
  <1>1. AccountsInv /\ FreshInv /\ [AccountsNext]_accountVars
          => [\A c \in Call : Completes(c) =>
                  /\ calls[c].caller \in Admins
                  /\ calls[c].op = "delete" => Admins' # {}]_accountVars
    <2> SUFFICES ASSUME AccountsInv, FreshInv, AccountsNext, NEW c \in Call, Completes(c)
                 PROVE  /\ calls[c].caller \in Admins
                        /\ calls[c].op = "delete" => Admins' # {}
      OBVIOUS
    <2>1. calls[c].caller \in Admins
      <3>1. /\ calls[c].caller \in Enrolled /\ users[calls[c].caller] = calls[c].own
            /\ calls[c].own.role = "admin" /\ calls[c].own.active = TRUE
        BY DEF Completes, FreshInv, AccountsInv, AdmittedInv
      <3> QED BY <3>1 DEF Admins, IsAdmin
    <2>2. ASSUME calls[c].op = "delete" PROVE calls[c].caller \in Admins'
      <3>1. calls[c].target # calls[c].caller
        BY <2>2 DEF Completes, AccountsInv, AdmittedInv
      <3>2. users' = [i \in Enrolled \ {calls[c].target} |-> users[i]]
        <4>1. CommitDelete(c)
          BY <2>2, Completer DEF CommitCreate, CommitUpdate
        <4> QED BY <4>1 DEF CommitDelete
      <3> QED BY <2>1, <3>1, <3>2 DEF Admins, IsAdmin, Enrolled
    <2> QED BY <2>1, <2>2
  <1> QED BY AccountsInvHolds, FreshWhileAlone, <1>1, PTL DEF AccountsSpec

\* A write of some columns gives a right only when its payload names it.
LEMMA WrittenRegains ==
  ASSUME NEW row \in Account, NEW loaded \in Account \cup {NoAccount}, NEW patch \in Patch
  PROVE  LET new == Written(row, loaded, patch)
         IN  /\ ~row.active /\ new.active => patch.active = "on"
             /\ row.role # "admin" /\ new.role = "admin" => patch.role = "admin"
  BY DEF Written, Patched

\* What an admin took away another's earlier read does not give back (update_user
\* commits the fields that differ from those it loaded).
THEOREM RevokedRightsStayRevoked == AccountsSpec => RevocationSticks
  <1>1. AccountsInv /\ [AccountsNext]_accountVars
          => [\A i \in Id : Regains(i) =>
                \E c \in Call :
                   /\ Completes(c) /\ calls[c].op = "update" /\ calls[c].target = i
                   /\ ~users[i].active /\ users'[i].active => calls[c].patch.active = "on"
                   /\ users[i].role # "admin" /\ users'[i].role = "admin"
                         => calls[c].patch.role = "admin"
             ]_accountVars
    <2> SUFFICES ASSUME AccountsInv, AccountsNext, NEW i \in Id, Regains(i)
                 PROVE  \E c \in Call :
                           /\ Completes(c) /\ calls[c].op = "update" /\ calls[c].target = i
                           /\ ~users[i].active /\ users'[i].active => calls[c].patch.active = "on"
                           /\ users[i].role # "admin" /\ users'[i].role = "admin"
                                 => calls[c].patch.role = "admin"
      OBVIOUS
    <2>1. i \in Enrolled /\ users'[i] # users[i] /\ users' # users /\ i \in DOMAIN users'
      BY DEF Regains
    <2>2. PICK c \in Call : /\ CommitCreate(c) \/ CommitUpdate(c) \/ CommitDelete(c)
                            /\ Completes(c)
      BY <2>1, ChangeCompletes
    <2>3. ~CommitDelete(c) /\ ~CommitCreate(c)
      BY <2>1 DEF CommitDelete, CommitCreate, AccountsInv, AccountsTypeOK, Enrolled
    <2>4. /\ CommitUpdate(c) /\ calls[c].target \in Enrolled /\ calls[c].op = "update"
          /\ users' = [users EXCEPT ![calls[c].target] =
                          Written(users[calls[c].target], calls[c].loaded, calls[c].patch)]
      BY <2>1, <2>2, <2>3 DEF CommitUpdate
    <2>5. calls[c].target = i /\ users'[i] = Written(users[i], calls[c].loaded, calls[c].patch)
      BY <2>1, <2>4 DEF AccountsInv, AccountsTypeOK, Enrolled
    <2>6. /\ users[i] \in Account /\ calls[c].patch \in Patch
          /\ calls[c].loaded \in Account \cup {NoAccount}
      BY <2>1 DEF AccountsInv, AccountsTypeOK, CallType, Enrolled
    <2> QED BY <2>2, <2>4, <2>5, <2>6, WrittenRegains
  <1> QED BY AccountsInvHolds, <1>1, PTL DEF AccountsSpec, RevocationSticks
-----------------------------------------------------------------------------
\* Strategies.

\* Names and tokens lead to one row each, a database without the column has given no
\* token, and a webhook's name is that of the row it found.
NamesUnique == \A i, j \in Present : rows[i].name = rows[j].name => i = j
NoneIssuedBefore == ~column => DOMAIN issued = {}
NamedAsFound ==
    \A p \in Post :
        posts[p].stage = "named" /\ posts[p].found # None /\ ~posts[p].moved
            => posts[p].found \in Present /\ rows[posts[p].found].name = posts[p].name

\* What holds of the rows, and what holds of the webhooks.
RowsInv ==
    /\ column \in BOOLEAN
    /\ Present \subseteq spent /\ spent \subseteq RowId
    /\ rows \in [Present -> Strategy]
    /\ DOMAIN issued \subseteq Token
    /\ issued \in [DOMAIN issued -> spent]
    /\ missing \subseteq Name
    /\ NamesUnique
    /\ NoneIssuedBefore
    /\ TokenKeepsItsRow

PostsInv ==
    /\ posts \in [Post -> PostType]
    /\ NamedAsFound
    /\ CreditedAsPosted

StrategiesInv == RowsInv /\ PostsInv

LEMMA RowsInit == StrategiesInit => RowsInv
  <1> SUFFICES ASSUME StrategiesInit PROVE RowsInv
    OBVIOUS
  <1>1. PICK seeded \in {{}, Default} : \E key \in [seeded -> RowId] :
          /\ \A m, n \in seeded : m # n => key[m] # key[n]
          /\ spent = {key[n] : n \in seeded}
          /\ rows = [i \in spent |-> [name |-> CHOOSE n \in seeded : key[n] = i,
                                      token |-> None, active |-> TRUE]]
    BY DEF StrategiesInit
  <1>2. PICK key \in [seeded -> RowId] :
          /\ \A m, n \in seeded : m # n => key[m] # key[n]
          /\ spent = {key[n] : n \in seeded}
          /\ rows = [i \in spent |-> [name |-> CHOOSE n \in seeded : key[n] = i,
                                      token |-> None, active |-> TRUE]]
    BY <1>1
  <1>3. seeded \subseteq Name
    BY StrategiesAssumption
  <1>4. ASSUME NEW n \in seeded
        PROVE  rows[key[n]] = [name |-> n, token |-> None, active |-> TRUE]
    BY <1>2
  <1>5. Present = spent /\ spent \subseteq RowId /\ rows \in [Present -> Strategy]
    BY <1>2, <1>3, <1>4 DEF Present, Strategy
  <1>6. NamesUnique
    BY <1>2, <1>4, <1>5 DEF NamesUnique
  <1>7. column = FALSE /\ DOMAIN issued = {} /\ missing = {} /\ issued \in [DOMAIN issued -> spent]
    BY DEF StrategiesInit
  <1>8. TokenKeepsItsRow
    BY <1>2, <1>5, <1>7 DEF TokenKeepsItsRow
  <1> QED BY <1>5, <1>6, <1>7, <1>8 DEF RowsInv, NoneIssuedBefore

\* The migration gives each bot a token of its own.
LEMMA MigrateRows ==
  ASSUME RowsInv, Migrate
  PROVE  /\ RowsInv'
         /\ Present' = Present /\ \A i \in Present : rows'[i].name = rows[i].name
  <1>1. CASE UNCHANGED <<column, rows, issued>>
    BY <1>1 DEF Migrate, RowsInv, Present, NamesUnique, NoneIssuedBefore, TokenKeepsItsRow
  <1>2. CASE ~UNCHANGED <<column, rows, issued>>
    <2> DEFINE bots == {i \in Present : rows[i].name \in Bot /\ rows[i].token = None}
    <2>1. Unmigrated /\ column' = TRUE /\ \E given \in [bots -> FreeTokens] : GiveTokens(bots, given)
      BY <1>2 DEF Migrate
    <2>2. PICK given \in [bots -> FreeTokens] : GiveTokens(bots, given)
      BY <2>1
    <2>3. DOMAIN issued = {} /\ \A i \in Present : rows[i].token = None
      BY <2>1 DEF Unmigrated, RowsInv, NoneIssuedBefore, TokenKeepsItsRow
    <2>4. /\ rows' = [i \in Present |->
                 IF i \in bots THEN [rows[i] EXCEPT !.token = given[i]] ELSE rows[i]]
          /\ DOMAIN issued' = {given[i] : i \in bots}
          /\ \A i, j \in bots : i # j => given[i] # given[j]
      BY <2>2, <2>3 DEF GiveTokens
    <2>5. issued' = [t \in {given[i] : i \in bots} |-> CHOOSE i \in bots : given[i] = t]
      BY <2>2, <2>3 DEF GiveTokens
    <2>6. bots \subseteq Present /\ given \in [bots -> Token]
      BY DEF FreeTokens
    <2>7. spent' = spent /\ missing' = missing
      BY DEF Migrate
    <2> HIDE DEF bots
    <2>8. ASSUME NEW i \in bots PROVE issued'[given[i]] = i
      BY <2>4, <2>5
    <2>9. ASSUME NEW i \in Present
          PROVE  /\ rows'[i] \in Strategy /\ rows'[i].name = rows[i].name
                 /\ rows'[i].token = IF i \in bots THEN given[i] ELSE None
      BY <2>3, <2>4, <2>6 DEF RowsInv, Strategy
    <2>10. Present' = Present /\ rows' \in [Present' -> Strategy]
      BY <2>4, <2>9 DEF Present
    <2>11. issued' \in [DOMAIN issued' -> spent'] /\ DOMAIN issued' \subseteq Token
      BY <2>4, <2>5, <2>6, <2>7, <2>8 DEF RowsInv
    <2>12. NamesUnique'
      BY <2>9, <2>10 DEF NamesUnique, RowsInv
    <2>13. TokenKeepsItsRow'
      <3>1. ASSUME NEW i \in Present, rows'[i].token # None
            PROVE  rows'[i].token \in DOMAIN issued' /\ issued'[rows'[i].token] = i
        <4>1. rows'[i].token = IF i \in bots THEN given[i] ELSE None
          BY <2>9
        <4>2. i \in bots /\ rows'[i].token = given[i]
          BY <3>1, <4>1
        <4> QED BY <2>4, <2>8, <4>2
      <3>2. ASSUME NEW t \in DOMAIN issued' PROVE rows'[issued'[t]].token = t
        <4>1. PICK i \in bots : t = given[i]
          BY <2>4
        <4> QED BY <2>6, <2>8, <2>9, <4>1
      <3> QED BY <2>10, <3>1, <3>2 DEF TokenKeepsItsRow
    <2> QED BY <2>1, <2>7, <2>9, <2>10, <2>11, <2>12, <2>13 DEF RowsInv, NoneIssuedBefore
  <1> QED BY <1>1, <1>2

\* New rows have new keys, no token and a name that no other has.
LEMMA AddedRows ==
  ASSUME RowsInv, NEW new, NEW name,
         new \subseteq RowId \ spent,
         \A i \in new : name[i] \in Name /\ Named(name[i]) = {},
         \A i, j \in new : name[i] = name[j] => i = j,
         rows' = [i \in Present \cup new |->
             IF i \in Present THEN rows[i]
             ELSE [name |-> name[i], token |-> None, active |-> TRUE]],
         spent' = spent \cup new, missing' \subseteq Name,
         UNCHANGED <<column, issued>>
  PROVE  /\ RowsInv'
         /\ Present \subseteq Present' /\ \A i \in Present : rows'[i] = rows[i]
  <1>1. /\ Present' = Present \cup new
        /\ \A i \in Present : rows'[i] = rows[i]
        /\ \A i \in new : rows'[i] = [name |-> name[i], token |-> None, active |-> TRUE]
    BY DEF Present, RowsInv
  <1>2. rows' \in [Present' -> Strategy]
    BY <1>1 DEF RowsInv, Strategy, Present
  <1>3. NamesUnique'
    BY <1>1 DEF NamesUnique, RowsInv, Named
  <1>4. TokenKeepsItsRow'
    BY <1>1 DEF TokenKeepsItsRow, RowsInv
  <1> QED BY <1>1, <1>2, <1>3, <1>4 DEF RowsInv, NoneIssuedBefore

LEMMA SeedRows ==
  ASSUME RowsInv, SeedCommits
  PROVE  /\ RowsInv'
         /\ Present \subseteq Present' /\ \A i \in Present : rows'[i] = rows[i]
  <1>1. CASE UNCHANGED <<rows, spent>>
    BY <1>1 DEF SeedCommits, RowsInv, Present, NamesUnique, NoneIssuedBefore, TokenKeepsItsRow
  <1>2. CASE ~UNCHANGED <<rows, spent>>
    <2>1. /\ \A n \in missing : Named(n) = {}
          /\ \E key \in [missing -> RowId \ spent] :
               /\ \A m, n \in missing : m # n => key[m] # key[n]
               /\ rows' = [i \in Present \cup {key[n] : n \in missing} |->
                      IF i \in Present THEN rows[i]
                      ELSE [name |-> CHOOSE n \in missing : key[n] = i,
                            token |-> None, active |-> TRUE]]
               /\ spent' = spent \cup {key[n] : n \in missing}
      BY <1>2 DEF SeedCommits
    <2>2. PICK key \in [missing -> RowId \ spent] :
               /\ \A m, n \in missing : m # n => key[m] # key[n]
               /\ rows' = [i \in Present \cup {key[n] : n \in missing} |->
                      IF i \in Present THEN rows[i]
                      ELSE [name |-> CHOOSE n \in missing : key[n] = i,
                            token |-> None, active |-> TRUE]]
               /\ spent' = spent \cup {key[n] : n \in missing}
      BY <2>1
    <2> DEFINE new == {key[n] : n \in missing}
               name == [i \in new |-> CHOOSE n \in missing : key[n] = i]
    <2>3. /\ new \subseteq RowId \ spent
          /\ \A i \in new : name[i] \in missing /\ key[name[i]] = i
      OBVIOUS
    <2>4. rows' = [i \in Present \cup new |->
             IF i \in Present THEN rows[i]
             ELSE [name |-> name[i], token |-> None, active |-> TRUE]]
      BY <2>2
    <2>5. spent' = spent \cup new /\ missing' \subseteq Name /\ UNCHANGED <<column, issued>>
      BY <2>2 DEF SeedCommits
    <2> HIDE DEF new, name
    <2>6. \A i \in new : name[i] \in Name /\ Named(name[i]) = {}
      BY <2>1, <2>3 DEF RowsInv
    <2>7. \A i, j \in new : name[i] = name[j] => i = j
      BY <2>3
    <2>8. new \subseteq RowId \ spent
      BY <2>3
    <2> QED BY ONLY RowsInv, <2>4, <2>5, <2>6, <2>7, <2>8, AddedRows
  <1> QED BY <1>1, <1>2

LEMMA CreateRows ==
  ASSUME RowsInv, NEW n \in Name, CreateStrategy(n)
  PROVE  /\ RowsInv'
         /\ Present \subseteq Present' /\ \A i \in Present : rows'[i] = rows[i]
  <1>1. PICK i \in RowId \ spent :
          /\ rows' = [j \in Present \cup {i} |->
                 IF j = i THEN [name |-> n, token |-> None, active |-> TRUE] ELSE rows[j]]
          /\ spent' = spent \cup {i}
    BY DEF CreateStrategy
  <1> DEFINE name == [j \in {i} |-> n]
  <1>2. i \notin Present
    BY DEF RowsInv
  <1>3. rows' = [j \in Present \cup {i} |->
             IF j \in Present THEN rows[j]
             ELSE [name |-> name[j], token |-> None, active |-> TRUE]]
    BY <1>1, <1>2
  <1>4. \A j \in {i} : name[j] \in Name /\ Named(name[j]) = {}
    BY DEF CreateStrategy
  <1>5. missing' \subseteq Name /\ UNCHANGED <<column, issued>>
    BY DEF CreateStrategy, RowsInv
  <1>6. {i} \subseteq RowId \ spent /\ \A j, k \in {i} : name[j] = name[k] => j = k
    OBVIOUS
  <1> HIDE DEF name
  <1> QED BY <1>1, <1>3, <1>4, <1>5, <1>6, AddedRows

LEMMA RenameRows ==
  ASSUME RowsInv, NEW i \in RowId, NEW n \in Name, RenameStrategy(i, n)
  PROVE  /\ RowsInv' /\ Present' = Present
         /\ \A j \in Present : j # i => rows'[j] = rows[j]
  <1>1. /\ Present' = Present
        /\ \A j \in Present : j # i => rows'[j] = rows[j]
        /\ rows'[i] = [rows[i] EXCEPT !.name = n] /\ i \in Present
    BY DEF RenameStrategy, Present, RowsInv
  <1>2. rows[i] \in Strategy
    BY <1>1 DEF RowsInv
  <1>3. rows'[i] \in Strategy /\ rows'[i].name = n /\ rows'[i].token = rows[i].token
    BY <1>1, <1>2 DEF Strategy
  <1>4. rows' \in [Present' -> Strategy]
    BY <1>1, <1>3 DEF RenameStrategy, RowsInv, Present
  <1>5. NamesUnique'
    BY <1>1, <1>3 DEF NamesUnique, RowsInv, RenameStrategy, Named
  <1>6. TokenKeepsItsRow'
    BY <1>1, <1>3 DEF TokenKeepsItsRow, RowsInv, RenameStrategy
  <1> QED BY <1>1, <1>4, <1>5, <1>6 DEF RowsInv, NoneIssuedBefore, RenameStrategy

LEMMA ActivateRows ==
  ASSUME RowsInv, NEW i \in RowId, NEW on \in BOOLEAN, ActivateStrategy(i, on)
  PROVE  /\ RowsInv' /\ Present' = Present
         /\ \A j \in Present : rows'[j].name = rows[j].name
  <1>1. /\ Present' = Present
        /\ \A j \in Present : j # i => rows'[j] = rows[j]
        /\ rows'[i] = [rows[i] EXCEPT !.active = on] /\ i \in Present
    BY DEF ActivateStrategy, Present, RowsInv
  <1>2. rows[i] \in Strategy
    BY <1>1 DEF RowsInv
  <1>3. /\ rows'[i] \in Strategy
        /\ rows'[i].name = rows[i].name /\ rows'[i].token = rows[i].token
    BY <1>1, <1>2 DEF Strategy
  <1>4. rows' \in [Present' -> Strategy]
    BY <1>1, <1>3 DEF ActivateStrategy, RowsInv, Present
  <1>5. \A j \in Present : rows'[j].name = rows[j].name /\ rows'[j].token = rows[j].token
    BY <1>1, <1>3
  <1>6. NamesUnique'
    BY <1>1, <1>5 DEF NamesUnique, RowsInv
  <1>7. TokenKeepsItsRow'
    BY <1>1, <1>5 DEF TokenKeepsItsRow, RowsInv, ActivateStrategy
  <1> QED BY <1>1, <1>4, <1>5, <1>6, <1>7 DEF RowsInv, NoneIssuedBefore, ActivateStrategy

LEMMA DeleteRows ==
  ASSUME RowsInv, NEW i \in RowId, DeleteStrategy(i)
  PROVE  /\ RowsInv' /\ Present' = Present \ {i}
         /\ \A j \in Present' : rows'[j] = rows[j]
  <1>1. Present' = Present \ {i} /\ \A j \in Present' : rows'[j] = rows[j]
    BY DEF DeleteStrategy, Present
  <1>2. rows' \in [Present' -> Strategy]
    BY <1>1 DEF DeleteStrategy, RowsInv, Present
  <1> QED BY <1>1, <1>2 DEF RowsInv, NamesUnique, NoneIssuedBefore, TokenKeepsItsRow, DeleteStrategy

\* Rows that keep their names leave the webhooks alone.
LEMMA PostsKept ==
  ASSUME StrategiesInv, posts' = posts, Present \subseteq Present',
         \A i \in Present : rows'[i].name = rows[i].name
  PROVE  PostsInv'
  BY DEF StrategiesInv, PostsInv, NamedAsFound, CreditedAsPosted

\* The webhooks that found a row which is then renamed or deleted say so.
LEMMA PostsMoved ==
  ASSUME StrategiesInv, NEW i \in RowId, Moved(i),
         \A j \in Present \ {i} : j \in Present' /\ rows'[j].name = rows[j].name
  PROVE  PostsInv'
  <1>1. ASSUME NEW p \in Post
        PROVE  /\ posts'[p] \in PostType
               /\ posts'[p].stage = posts[p].stage /\ posts'[p].found = posts[p].found
               /\ posts'[p].name = posts[p].name /\ posts'[p].credited = posts[p].credited
               /\ ~posts'[p].moved =>
                     ~posts[p].moved /\ ~(posts[p].stage = "named" /\ posts[p].found = i)
    BY DEF Moved, StrategiesInv, PostsInv, PostType
  <1>2. posts' \in [Post -> PostType]
    BY <1>1 DEF Moved
  <1>3. NamedAsFound'
    BY <1>1 DEF NamedAsFound, StrategiesInv, PostsInv
  <1>4. CreditedAsPosted'
    BY <1>1 DEF CreditedAsPosted, StrategiesInv, PostsInv
  <1> QED BY <1>2, <1>3, <1>4 DEF PostsInv

\* A webhook step changes its own record only.
LEMMA OwnPost ==
  ASSUME StrategiesInv, NEW p \in Post, NEW new \in PostType,
         posts' = [posts EXCEPT ![p] = new], UNCHANGED rows,
         new.stage = "named" /\ new.found # None /\ ~new.moved
            => new.found \in Present /\ rows[new.found].name = new.name,
         new.stage = "credited" /\ new.found # None /\ ~new.moved => new.credited = new.found
  PROVE  PostsInv'
  <1>1. posts' \in [Post -> PostType] /\ posts'[p] = new
        /\ \A q \in Post : q # p => posts'[q] = posts[q]
    BY DEF StrategiesInv, PostsInv
  <1>2. NamedAsFound'
    BY <1>1 DEF NamedAsFound, StrategiesInv, PostsInv, Present
  <1>3. CreditedAsPosted'
    BY <1>1 DEF CreditedAsPosted, StrategiesInv, PostsInv
  <1> QED BY <1>1, <1>2, <1>3 DEF PostsInv

LEMMA SoleMember ==
  ASSUME NEW s
  PROVE  /\ s = {} => Sole(s) = None
         /\ s # {} => Sole(s) \in s
  BY DEF Sole

LEMMA PostSecurePosts ==
  ASSUME StrategiesInv, NEW p \in Post, NEW t \in Token, PostSecure(p, t)
  PROVE  PostsInv'
  <1> DEFINE i == Sole(Holding(t))
             refused == [NoPost EXCEPT !.stage = "refused"]
             named == [NoPost EXCEPT !.stage = "named", !.found = i, !.name = rows[i].name]
  <1>1. posts' = [posts EXCEPT ![p] = IF i = None \/ ~rows[i].active THEN refused ELSE named]
        /\ UNCHANGED rows
    BY DEF PostSecure
  <1>2. CASE i = None \/ ~rows[i].active
    <2>1. refused \in PostType /\ refused.stage = "refused"
      BY DEF NoPost, PostType, PostStage
    <2> HIDE DEF i, refused, named
    <2>2. posts' = [posts EXCEPT ![p] = refused]
      BY <1>1, <1>2
    <2> QED BY <1>1, <2>1, <2>2, OwnPost
  <1>3. CASE ~(i = None \/ ~rows[i].active)
    <2>1. i \in Present /\ i \in RowId /\ rows[i].name \in Name
      BY <1>3, SoleMember DEF Holding, StrategiesInv, RowsInv, Strategy
    <2> HIDE DEF i
    <2>2. /\ named \in PostType /\ named.stage = "named"
          /\ named.found = i /\ named.name = rows[i].name
      BY <2>1 DEF NoPost, PostType, PostStage
    <2> HIDE DEF refused, named
    <2>3. posts' = [posts EXCEPT ![p] = named]
      BY <1>1, <1>3
    <2> QED BY <1>1, <2>1, <2>2, <2>3, OwnPost
  <1> QED BY <1>2, <1>3

LEMMA PostLegacyPosts ==
  ASSUME StrategiesInv, NEW p \in Post, NEW n \in Bot, PostLegacy(p, n)
  PROVE  PostsInv'
  <1> DEFINE named == [NoPost EXCEPT !.stage = "named", !.name = n]
  <1>1. posts' = [posts EXCEPT ![p] = named] /\ UNCHANGED rows
    BY DEF PostLegacy
  <1>2. named \in PostType /\ named.found = None /\ named.stage = "named"
    BY StrategiesAssumption DEF NoPost, PostType, PostStage
  <1> HIDE DEF named
  <1> QED BY <1>1, <1>2, OwnPost

\* The row that a webhook found by its token is the only one of that name.
LEMMA FindStrategyPosts ==
  ASSUME StrategiesInv, NEW p \in Post, FindStrategy(p)
  PROVE  PostsInv'
  <1> DEFINE row == Sole(Named(StrategyName(p)))
             new == [posts[p] EXCEPT !.stage = "credited", !.credited = row]
  <1>1. posts[p] \in PostType /\ posts[p].stage = "named"
    BY DEF FindStrategy, StrategiesInv, PostsInv
  <1>2. row \in RowId \cup {None}
    BY SoleMember DEF Named, StrategiesInv, RowsInv
  <1>3. ASSUME posts[p].found # None, ~posts[p].moved
        PROVE  row = posts[p].found
    <2>1. Named(StrategyName(p)) = {posts[p].found}
      BY <1>1, <1>3 DEF Named, StrategyName, StrategiesInv, RowsInv, PostsInv, NamedAsFound,
                        NamesUnique
    <2> QED BY <2>1, SoleMember
  <1>4. posts' = [posts EXCEPT ![p].stage = "credited", ![p].credited = row] /\ UNCHANGED rows
    BY DEF FindStrategy
  <1> HIDE DEF row
  <1>5. posts' = [posts EXCEPT ![p] = new]
    BY <1>4 DEF StrategiesInv, PostsInv
  <1>6. /\ new \in PostType /\ new.stage = "credited" /\ new.credited = row
        /\ new.found = posts[p].found /\ new.moved = posts[p].moved
    BY <1>1, <1>2 DEF PostType, PostStage
  <1> HIDE DEF new
  <1> QED BY <1>3, <1>4, <1>5, <1>6, OwnPost

LEMMA NoPostType == NoPost \in PostType /\ NoPost.found = None /\ NoPost.stage = "idle"
  BY DEF NoPost, PostType, PostStage

LEMMA NoPosts ==
  ASSUME posts' = [p \in Post |-> NoPost]
  PROVE  PostsInv'
  BY NoPostType DEF PostsInv, NamedAsFound, CreditedAsPosted

LEMMA WebhookInv ==
  ASSUME StrategiesInv, WebhookStep
  PROVE  StrategiesInv'
  <1>1. RowsInv'
    <2>1. UNCHANGED <<column, rows, spent, issued, missing>>
      BY DEF WebhookStep, PostSecure, PostLegacy, FindStrategy, Answered
    <2> QED BY <2>1 DEF StrategiesInv, RowsInv, Present, NamesUnique, NoneIssuedBefore,
                        TokenKeepsItsRow
  <1>2. PICK p \in Post : \/ \E t \in Token : PostSecure(p, t)
                          \/ \E n \in Bot : PostLegacy(p, n)
                          \/ FindStrategy(p) \/ Answered(p)
    BY DEF WebhookStep
  <1>3. ASSUME Answered(p) PROVE PostsInv'
    BY <1>3, NoPostType, OwnPost DEF Answered
  <1> QED BY <1>1, <1>2, <1>3, PostSecurePosts, PostLegacyPosts, FindStrategyPosts
          DEF StrategiesInv

LEMMA StartInv ==
  ASSUME StrategiesInv, StartStep
  PROVE  StrategiesInv'
  <1>1. CASE Migrate
    <2>1. /\ RowsInv' /\ Present' = Present
          /\ \A i \in Present : rows'[i].name = rows[i].name
      BY <1>1, MigrateRows DEF StrategiesInv
    <2>2. posts' = posts
      BY <1>1 DEF Migrate
    <2> QED BY <2>1, <2>2, PostsKept DEF StrategiesInv
  <1>2. CASE SeedReads
    <2>1. missing' \subseteq Name
      BY <1>2, StrategiesAssumption DEF SeedReads, StrategiesInv, RowsInv
    <2>2. RowsInv'
      BY <1>2, <2>1 DEF SeedReads, StrategiesInv, RowsInv, Present, NamesUnique,
                        NoneIssuedBefore, TokenKeepsItsRow
    <2>3. PostsInv'
      BY <1>2, PostsKept DEF SeedReads, Present
    <2> QED BY <2>2, <2>3 DEF StrategiesInv
  <1>3. CASE SeedCommits
    <2>1. /\ RowsInv' /\ Present \subseteq Present'
          /\ \A i \in Present : rows'[i] = rows[i]
      BY <1>3, SeedRows DEF StrategiesInv
    <2>2. posts' = posts
      BY <1>3 DEF SeedCommits
    <2> QED BY <2>1, <2>2, PostsKept DEF StrategiesInv
  <1>4. CASE Restart
    <2>1. RowsInv'
      BY <1>4 DEF Restart, StrategiesInv, RowsInv, Present, NamesUnique,
                  NoneIssuedBefore, TokenKeepsItsRow
    <2>2. ASSUME posts' = posts PROVE PostsInv'
      BY <1>4, <2>2, PostsKept DEF Restart, Present
    <2> QED BY <1>4, <2>1, <2>2, NoPosts DEF Restart, StrategiesInv
  <1> QED BY <1>1, <1>2, <1>3, <1>4 DEF StartStep

LEMMA AdminInv ==
  ASSUME StrategiesInv, AdminStep
  PROVE  StrategiesInv'
  <1>1. ASSUME NEW n \in Name, CreateStrategy(n) PROVE StrategiesInv'
    <2>1. /\ RowsInv' /\ Present \subseteq Present'
          /\ \A i \in Present : rows'[i] = rows[i]
      BY <1>1, CreateRows DEF StrategiesInv
    <2>2. posts' = posts
      BY <1>1 DEF CreateStrategy
    <2> QED BY <2>1, <2>2, PostsKept DEF StrategiesInv
  <1>2. ASSUME NEW i \in RowId, DeleteStrategy(i) PROVE StrategiesInv'
    <2>1. /\ RowsInv' /\ Present' = Present \ {i}
          /\ \A j \in Present' : rows'[j] = rows[j]
      BY <1>2, DeleteRows DEF StrategiesInv
    <2>2. Moved(i)
      BY <1>2 DEF DeleteStrategy
    <2> QED BY <2>1, <2>2, PostsMoved DEF StrategiesInv
  <1>3. ASSUME NEW i \in RowId, NEW n \in Name, RenameStrategy(i, n) PROVE StrategiesInv'
    <2>1. /\ RowsInv' /\ Present' = Present
          /\ \A j \in Present : j # i => rows'[j] = rows[j]
      BY <1>3, RenameRows DEF StrategiesInv
    <2>2. Moved(i)
      BY <1>3 DEF RenameStrategy
    <2> QED BY <2>1, <2>2, PostsMoved DEF StrategiesInv
  <1>4. ASSUME NEW i \in RowId, NEW on \in BOOLEAN, ActivateStrategy(i, on)
        PROVE  StrategiesInv'
    <2>1. /\ RowsInv' /\ Present' = Present
          /\ \A j \in Present : rows'[j].name = rows[j].name
      BY <1>4, ActivateRows DEF StrategiesInv
    <2>2. posts' = posts
      BY <1>4 DEF ActivateStrategy
    <2> QED BY <2>1, <2>2, PostsKept DEF StrategiesInv
  <1> QED BY <1>1, <1>2, <1>3, <1>4 DEF AdminStep

LEMMA StrategiesInvHolds == StrategiesSpec => []StrategiesInv
  <1>1. StrategiesInit => StrategiesInv
    <2> SUFFICES ASSUME StrategiesInit PROVE StrategiesInv
      OBVIOUS
    <2>1. PostsInv
      BY NoPostType DEF StrategiesInit, PostsInv, NamedAsFound, CreditedAsPosted
    <2> QED BY <2>1, RowsInit DEF StrategiesInv
  <1>2. StrategiesInv /\ [StrategiesNext]_strategyVars => StrategiesInv'
    <2> SUFFICES ASSUME StrategiesInv, [StrategiesNext]_strategyVars PROVE StrategiesInv'
      OBVIOUS
    <2>1. CASE StrategiesNext
      BY <2>1, StartInv, AdminInv, WebhookInv DEF StrategiesNext
    <2>2. CASE UNCHANGED strategyVars
      <3>1. UNCHANGED <<column, rows, spent, issued, missing, posts>>
        BY <2>2 DEF strategyVars
      <3>2. RowsInv'
        BY <3>1 DEF StrategiesInv, RowsInv, Present, NamesUnique, NoneIssuedBefore,
                    TokenKeepsItsRow
      <3> QED BY <3>1, <3>2, PostsKept DEF StrategiesInv, Present
    <2> QED BY <2>1, <2>2
  <1> QED BY <1>1, <1>2, PTL DEF StrategiesSpec

\* A webhook URL leads to the row it was made for, for ever (lifespan's migration and
\* seeding, routers/strategies.py).
THEOREM UrlsLeadHome == StrategiesSpec => []TokenKeepsItsRow
  <1>1. StrategiesInv => TokenKeepsItsRow
    BY DEF StrategiesInv, RowsInv
  <1> QED BY StrategiesInvHolds, <1>1, PTL

\* The detour over the name credits the strategy whose token was posted
\* (chartink_webhook_secure, receive_webhook).
THEOREM NamesCreditTheToken == StrategiesSpec => []CreditedAsPosted
  <1>1. StrategiesInv => CreditedAsPosted
    BY DEF StrategiesInv, PostsInv
  <1> QED BY StrategiesInvHolds, <1>1, PTL
=============================================================================
