-------------------------- MODULE UserAccountsProofs -------------------------
(***************************************************************************)
(* Sessions have their users, superusers and resets fall only to requests  *)
(* that were overtaken, and no write hits a row that its request has not   *)
(* read, for any users and overlapping requests.                           *)
(***************************************************************************)
EXTENDS UserAccounts, TLAPS

(* Ids are given once. *)
IdInv ==
    \A u \in Users : given[u] \in {0, 1} /\ (u \in alive => given[u] = 1)

(* What a request knows of its row, whether it is still there or not: the  *)
(* id was given when the row was read, or to the user of its session, and  *)
(* is given to no other row; and unless another request has overtaken it,  *)
(* the row is still one that it may write.                                 *)
RequestInv ==
    \A b \in Browsers :
        /\ request[b].at = "write" /\ request[b].op # "create" =>
               /\ request[b].target \in Users /\ request[b].given = 1
               /\ given[request[b].target] = 1
        /\ /\ request[b].at = "write" /\ request[b].op \in {"delete", "reset"}
           /\ b \notin overtaken
           => ~IsSuperuser(request[b].target)
        /\ request[b].at \in {"read", "write"} /\ request[b].op = "change" =>
               /\ request[b].target \in Users
               /\ given[request[b].target] = 1
               /\ b \notin overtaken => ~row[request[b].target].mustChange

AccountsInv == TypeOK /\ IdInv /\ RequestInv /\ SessionsHaveTheirUser

-----------------------------------------------------------------------------
(* Requests, field by field. *)
RequestRecord == [at : {"idle", "read", "write", "cookie"}, op : Operations,
                  target : Users \cup {NoUser}, name : Names \cup {NoName},
                  role : Roles, session : Sessions \cup {NoSession}, given : Nat]

RowRecord == [name : Names \cup {NoName}, role : Roles, mustChange : BOOLEAN]

Typed == request \in [Browsers -> RequestRecord]

(* Only the request of b changes. *)
OnlyOf(b) == Typed' /\ \A c \in Browsers \ {b} : request'[c] = request[c]

(* An idle request is typed, and about nothing. *)
LEMMA IdleIs ==
  /\ Idle \in RequestRecord
  /\ Idle.at = "idle" /\ Idle.op = "none"
BY DEF Idle, RequestRecord, Operations, Roles

(* An answer ends the request. *)
LEMMA AnswerMeans ==
  ASSUME Typed, NEW b \in Browsers, Answer(b)
  PROVE  OnlyOf(b) /\ request'[b] = Idle
BY IdleIs DEF Typed, OnlyOf, Answer

(* A request begins with what its form says. *)
LEMMA BeginMeans ==
  ASSUME Typed, NEW b \in Browsers, NEW r \in RequestRecord, Begin(b, r)
  PROVE  OnlyOf(b) /\ request'[b] = r /\ request[b].at = "idle"
BY IdleIs DEF Typed, OnlyOf, Begin

(* A request that has read a row has its id, and when it was given. *)
LEMMA HoldingMeans ==
  ASSUME Typed, given \in [Users -> Nat], NEW b \in Browsers, NEW u \in Users,
         Holding(b, u)
  PROVE  /\ OnlyOf(b) /\ request'[b].at = "write" /\ request'[b].target = u
         /\ request'[b].given = given[u] /\ request'[b].op = request[b].op
<1> DEFINE rec == [request[b] EXCEPT !.at = "write", !.target = u, !.given = given[u]]
<1>1. request[b] \in RequestRecord
  BY DEF Typed
<1>2. rec \in RequestRecord
  BY <1>1 DEF RequestRecord
<1>3. request' = [request EXCEPT ![b] = rec]
  BY DEF Holding
<1> QED BY <1>1, <1>2, <1>3 DEF Typed, OnlyOf, RequestRecord

(* A login that has its session goes on to the cookie. *)
LEMMA SessionMeans ==
  ASSUME Typed, NEW b \in Browsers, NEW x \in Sessions,
         request' = [request EXCEPT ![b].at = "cookie", ![b].session = x]
  PROVE  OnlyOf(b) /\ request'[b].at = "cookie"
<1> DEFINE rec == [request[b] EXCEPT !.at = "cookie", !.session = x]
<1>1. request[b] \in RequestRecord
  BY DEF Typed
<1>2. rec \in RequestRecord
  BY <1>1 DEF RequestRecord
<1>3. request' = [request EXCEPT ![b] = rec]
  OBVIOUS
<1> QED BY <1>1, <1>2, <1>3 DEF Typed, OnlyOf, RequestRecord

-----------------------------------------------------------------------------
(* The steps by what they do to rows, sessions and requests. *)
Quiet == UNCHANGED <<alive, row, session, given, overtaken>>

Begins(b) ==
    /\ OnlyOf(b) /\ UNCHANGED <<alive, row, session, given>>
    /\ overtaken' = overtaken \ {b}
    /\ request[b].at = "idle"
    /\ \/ request'[b].at = "write" /\ request'[b].op = "create"
       \/ /\ request'[b].at = "read"
          /\ request'[b].op = "change" =>
                 /\ request'[b].target \in alive
                 /\ ~row[request'[b].target].mustChange

Holds(b) ==
    /\ OnlyOf(b) /\ Quiet
    /\ request[b].at = "read" /\ request'[b].at = "write"
    /\ request'[b].op = request[b].op
    /\ request'[b].target \in alive
    /\ request'[b].given = given[request'[b].target]
    /\ request[b].op \in {"delete", "reset"} => ~IsSuperuser(request'[b].target)
    /\ request[b].op = "change" => request'[b].target = request[b].target

Ends(b) == OnlyOf(b) /\ Quiet /\ request'[b] = Idle

RowIs(u, name, role, mustChange) ==
    /\ row' \in [Users -> RowRecord]
    /\ row'[u].name = name /\ row'[u].role = role
    /\ row'[u].mustChange = mustChange
    /\ \A v \in Users \ {u} : row'[v] = row[v]

Inserts(u, name, role, byAdmin) ==
    /\ given[u] = 0 /\ NameIsFree(name)
    /\ alive' = alive \cup {u}
    /\ RowIs(u, name, role, byAdmin)
    /\ given' \in [Users -> Nat]
    /\ given'[u] = 1 /\ \A v \in Users \ {u} : given'[v] = given[v]
    /\ UNCHANGED <<session, overtaken>>

Creates(b) ==
    /\ OnlyOf(b) /\ request'[b] = Idle
    /\ request[b].at = "write" /\ request[b].op = "create"
    /\ \E u \in Users : Inserts(u, request[b].name, request[b].role, TRUE)

Deletes(b) ==
    /\ OnlyOf(b) /\ request'[b] = Idle
    /\ request[b].at = "write" /\ request[b].op = "delete"
    /\ alive' = alive \ {request[b].target}
    /\ RowIs(request[b].target, NoName, Operator, FALSE)
    /\ session' = [s \in Sessions |->
                     IF session[s].user = request[b].target
                     THEN [user |-> NoUser, state |-> "gone"] ELSE session[s]]
    /\ UNCHANGED <<given, overtaken>>

Overtakes(requests) == overtaken' = overtaken \cup requests

ChangesRole(b) ==
    /\ OnlyOf(b) /\ request'[b] = Idle
    /\ request[b].at = "write" /\ request[b].op = "role"
    /\ RowIs(request[b].target, row[request[b].target].name, request[b].role,
             row[request[b].target].mustChange)
    /\ Overtakes(IF request[b].role = Superuser
                 THEN RequestsOf(request[b].target, {"delete", "reset"}, {"write"})
                 ELSE {})
    /\ UNCHANGED <<alive, session, given>>

ChangesPassword(b) ==
    /\ OnlyOf(b) /\ request'[b] = Idle
    /\ request[b].at = "write" /\ request[b].op \in PasswordWrites
    /\ request[b].target \in alive
    /\ RowIs(request[b].target, row[request[b].target].name,
             row[request[b].target].role, request[b].op = "reset")
    /\ Overtakes(IF request[b].op = "reset"
                 THEN RequestsOf(request[b].target, {"change"}, {"read", "write"})
                 ELSE {})
    /\ UNCHANGED <<alive, session, given>>

LogsIn(b) ==
    /\ OnlyOf(b) /\ request'[b].at = "cookie"
    /\ request[b].at = "write" /\ request[b].op = "login"
    /\ request[b].target \in alive
    /\ \E s \in Sessions :
          session' = [session EXCEPT ![s] = [user |-> request[b].target,
                                             state |-> "valid"]]
    /\ UNCHANGED <<alive, row, given, overtaken>>

Writes(b) == \/ Creates(b) \/ Deletes(b) \/ ChangesRole(b)
             \/ ChangesPassword(b) \/ LogsIn(b)

Installs == UNCHANGED request
            /\ \E u \in Users, name \in Names : Inserts(u, name, Superuser, FALSE)

Expires == /\ UNCHANGED <<alive, row, given, overtaken, request>>
           /\ \E s \in Sessions : /\ session[s].state = "valid"
                                  /\ session' = [session EXCEPT ![s].state = "expired"]

Lost == Quiet /\ Typed' /\ \A b \in Browsers : request'[b] = Idle

(* A row and its id as an insert leaves them. *)
LEMMA InsertMeans ==
  ASSUME TypeOK, NEW u \in Users, NEW name \in Names \cup {NoName},
         NEW role \in Roles, NEW byAdmin \in BOOLEAN,
         InsertUser(u, name, role, byAdmin), UNCHANGED session
  PROVE  Inserts(u, name, role, byAdmin)
<1> USE DEF TypeOK, InsertUser, NewId
<1>1. RowIs(u, name, role, byAdmin)
  <2>1. [name |-> name, role |-> role, mustChange |-> byAdmin] \in RowRecord
    BY DEF RowRecord
  <2> QED BY <2>1 DEF RowIs, RowRecord
<1>2. given' \in [Users -> Nat] /\ given'[u] = 1 /\ \A v \in Users \ {u} : given'[v] = given[v]
  OBVIOUS
<1>3. given[u] = 0 /\ NameIsFree(name) /\ alive' = alive \cup {u}
  OBVIOUS
<1>4. UNCHANGED overtaken
  OBVIOUS
<1> QED BY <1>1, <1>2, <1>3, <1>4 DEF Inserts

(* The user of a browser's session, if it has one, is there. *)
LEMMA SessionUserThere ==
  ASSUME TypeOK, SessionsHaveTheirUser, NEW b \in Browsers, SessionUser(b) # NoUser
  PROVE  SessionUser(b) \in alive
BY DEF TypeOK, SessionUser, SessionsHaveTheirUser

(* A request begins, and one that changes a password is its own user's,    *)
(* who had no new one to choose.                                           *)
LEMMA RequestsBegin ==
  ASSUME TypeOK, SessionsHaveTheirUser, NEW b \in Browsers, Requests(b)
  PROVE  Begins(b) \/ UNCHANGED <<alive, row, session, given, overtaken, request>>
<1> USE IdleIs
<1>0. Typed
  BY DEF TypeOK, Typed, RequestRecord
<1>1. ASSUME PostUsers(b) PROVE Begins(b)
  <2>1. PICK name \in Names, role \in Roles :
           Begin(b, [Idle EXCEPT !.at = "write", !.op = "create", !.name = name,
                                 !.role = role])
    BY <1>1 DEF PostUsers
  <2> DEFINE r == [Idle EXCEPT !.at = "write", !.op = "create", !.name = name,
                               !.role = role]
  <2>2. r \in RequestRecord /\ r.at = "write" /\ r.op = "create"
    BY DEF RequestRecord, Operations, Idle
  <2>3. OnlyOf(b) /\ request'[b] = r /\ request[b].at = "idle"
    BY <1>0, <2>1, <2>2, BeginMeans
  <2> QED BY <2>1, <2>2, <2>3 DEF Begins, Begin, users
<1>2. ASSUME NEW r \in RequestRecord, Begin(b, r), r.at = "read",
             r.op = "change" => r.target \in alive /\ ~row[r.target].mustChange
      PROVE  Begins(b)
  <2>1. OnlyOf(b) /\ request'[b] = r /\ request[b].at = "idle"
    BY <1>0, <1>2, BeginMeans
  <2> QED BY <1>2, <2>1 DEF Begins, Begin, users
<1>3. ASSUME NEW t \in Users \cup {NoUser}, NEW op \in Operations,
             op = "change" => t \in alive /\ ~row[t].mustChange,
             Begin(b, [Idle EXCEPT !.at = "read", !.op = op, !.target = t])
      PROVE  Begins(b)
  <2> DEFINE r == [Idle EXCEPT !.at = "read", !.op = op, !.target = t]
  <2>1. r \in RequestRecord /\ r.at = "read" /\ r.op = op /\ r.target = t
    BY DEF RequestRecord, Idle, Roles
  <2> QED BY <1>2, <1>3, <2>1
<1>4. ASSUME NEW t \in alive,
             DeleteUser(b, t) \/ PatchResetUserPassword(b, t) \/ PatchUserPassword(b, t)
      PROVE  Begins(b)
  BY <1>3, <1>4
  DEF DeleteUser, PatchResetUserPassword, PatchUserPassword, TypeOK, Operations
<1>5. ASSUME PatchChangeUserPassword(b) \/ PostSetPassword(b)
      PROVE  Begins(b)
  <2>1. SessionUser(b) \in alive
    BY <1>5, SessionUserThere DEF PatchChangeUserPassword, PostSetPassword, Authenticated
  <2> QED
    BY <1>3, <1>5, <2>1
    DEF PatchChangeUserPassword, PostSetPassword, Authenticated, Operations, TypeOK
<1>6. ASSUME NEW t \in alive, PatchUserRole(b, t)
      PROVE  Begins(b)
  <2>1. PICK role \in Roles :
           Begin(b, [Idle EXCEPT !.at = "read", !.op = "role", !.target = t,
                                 !.role = role])
    BY <1>6 DEF PatchUserRole
  <2> DEFINE r == [Idle EXCEPT !.at = "read", !.op = "role", !.target = t,
                               !.role = role]
  <2>2. r \in RequestRecord /\ r.at = "read" /\ r.op = "role"
    BY DEF RequestRecord, Operations, Idle, TypeOK
  <2> QED BY <1>2, <2>1, <2>2
<1>7. ASSUME PostLogin(b) PROVE Begins(b)
  <2>1. PICK name \in Names :
           Begin(b, [Idle EXCEPT !.at = "read", !.op = "login", !.name = name])
    BY <1>7 DEF PostLogin
  <2> DEFINE r == [Idle EXCEPT !.at = "read", !.op = "login", !.name = name]
  <2>2. r \in RequestRecord /\ r.at = "read" /\ r.op = "login"
    BY DEF RequestRecord, Operations, Idle, Roles
  <2> QED BY <1>2, <2>1, <2>2
<1>8. ASSUME GetLogOut(b) \/ RemoveSessionCookie(b)
      PROVE  UNCHANGED <<alive, row, session, given, overtaken, request>>
  BY <1>8 DEF GetLogOut, RemoveSessionCookie, users, history
<1> QED
  BY <1>1, <1>4, <1>5, <1>6, <1>7, <1>8 DEF Requests

(* A statement reads a row, writes one or ends the request. *)
LEMMA StatementsMean ==
  ASSUME TypeOK, RequestInv, NEW b \in Browsers, Statements(b)
  PROVE  Holds(b) \/ Ends(b) \/ Writes(b)
<1>0. Typed /\ given \in [Users -> Nat] /\ alive \subseteq Users
  BY DEF TypeOK, Typed, RequestRecord
<1>1. ASSUME ReadUserByID(b) PROVE Holds(b)
  <2>1. request[b].target \in alive /\ request[b].at = "read"
    BY <1>1 DEF ReadUserByID, At
  <2>2. /\ OnlyOf(b) /\ request'[b].at = "write"
        /\ request'[b].target = request[b].target
        /\ request'[b].given = given[request[b].target]
        /\ request'[b].op = request[b].op
    BY <1>0, <1>1, <2>1, HoldingMeans DEF ReadUserByID
  <2>3. Quiet
    BY <1>1 DEF ReadUserByID, Quiet, users, history
  <2> QED
    BY <1>1, <2>1, <2>2, <2>3 DEF ReadUserByID, Holds
<1>2. ASSUME ReadUserByUsername(b) PROVE Holds(b)
  <2>1. PICK u \in alive : Holding(b, u)
    BY <1>2 DEF ReadUserByUsername
  <2>2. /\ OnlyOf(b) /\ request'[b].at = "write" /\ request'[b].target = u
        /\ request'[b].given = given[u]
        /\ request'[b].op = request[b].op
    BY <1>0, <2>1, HoldingMeans
  <2>3. Quiet /\ request[b].at = "read" /\ request[b].op = "login"
    BY <1>2 DEF ReadUserByUsername, Quiet, users, history, At
  <2> QED BY <2>1, <2>2, <2>3 DEF Holds
<1>3. ASSUME Refuse(b) \/ SetSessionCookie(b) PROVE Ends(b)
  BY <1>0, <1>3, AnswerMeans DEF Refuse, SetSessionCookie, Ends, Quiet, users, history
<1>4. ASSUME CreateUser(b) PROVE Creates(b)
  <2>1. OnlyOf(b) /\ request'[b] = Idle
    BY <1>0, <1>4, AnswerMeans DEF CreateUser
  <2>2. PICK u \in Users : InsertUser(u, request[b].name, request[b].role, TRUE)
    BY <1>4 DEF CreateUser
  <2>3. UNCHANGED session /\ request[b].at = "write" /\ request[b].op = "create"
    BY <1>4 DEF CreateUser, At
  <2>4. request[b].name \in Names \cup {NoName} /\ request[b].role \in Roles
    BY <1>0 DEF Typed, RequestRecord
  <2>5. Inserts(u, request[b].name, request[b].role, TRUE)
    BY <2>2, <2>3, <2>4, InsertMeans
  <2> QED BY <2>1, <2>3, <2>5 DEF Creates
<1>5. ASSUME DeleteUserRow(b) PROVE Deletes(b)
  <2>1. OnlyOf(b) /\ request'[b] = Idle
    BY <1>0, <1>5, AnswerMeans DEF DeleteUserRow
  <2>2. request[b].at = "write" /\ request[b].op = "delete"
    BY <1>5 DEF DeleteUserRow, At
  <2>3. request[b].target \in Users
    BY <2>2 DEF RequestInv
  <2>4. RowIs(request[b].target, NoName, Operator, FALSE)
    <3>1. NoRow \in RowRecord
      BY DEF NoRow, RowRecord, Roles
    <3> QED BY <1>5, <2>3, <3>1 DEF DeleteUserRow, RowIs, TypeOK, NoRow, RowRecord
  <2> QED BY <1>5, <2>1, <2>2, <2>4 DEF DeleteUserRow, Deletes, history
<1>6. ASSUME UpdateUserRole(b) PROVE ChangesRole(b) \/ Ends(b)
  <2>1. OnlyOf(b) /\ request'[b] = Idle
    BY <1>0, <1>6, AnswerMeans DEF UpdateUserRole
  <2>2. request[b].at = "write" /\ request[b].op = "role"
        /\ UNCHANGED <<alive, session, given>>
    BY <1>6 DEF UpdateUserRole, At
  <2>3. CASE request[b].target \in alive
    <3>1. row' = [row EXCEPT ![request[b].target].role = request[b].role]
      BY <1>6, <2>3 DEF UpdateUserRole
    <3>2. RowIs(request[b].target, row[request[b].target].name, request[b].role,
                row[request[b].target].mustChange)
      <4> DEFINE rec == [row[request[b].target] EXCEPT !.role = request[b].role]
      <4>1. request[b].role \in Roles /\ row[request[b].target] \in RowRecord
        BY <1>0, <2>3 DEF Typed, RequestRecord, TypeOK, RowRecord
      <4>2. rec \in RowRecord /\ rec.name = row[request[b].target].name
            /\ rec.role = request[b].role
            /\ rec.mustChange = row[request[b].target].mustChange
        BY <4>1 DEF RowRecord
      <4>3. row \in [Users -> RowRecord] /\ row' = [row EXCEPT ![request[b].target] = rec]
        BY <3>1 DEF TypeOK, RowRecord
      <4> QED BY <1>0, <2>3, <4>2, <4>3 DEF RowIs
    <3>3. Overtakes(IF request[b].role = Superuser
                    THEN RequestsOf(request[b].target, {"delete", "reset"}, {"write"})
                    ELSE {})
      BY <1>6, <2>3 DEF UpdateUserRole, Overtakes
    <3> QED BY <2>1, <2>2, <3>2, <3>3 DEF ChangesRole
  <2>4. CASE request[b].target \notin alive
    BY <1>6, <2>1, <2>2, <2>4 DEF UpdateUserRole, Ends, Quiet
  <2> QED BY <2>3, <2>4
<1>7. ASSUME UpdateUserPassword(b) PROVE ChangesPassword(b) \/ Ends(b)
  <2>1. OnlyOf(b) /\ request'[b] = Idle
    BY <1>0, <1>7, AnswerMeans DEF UpdateUserPassword
  <2>2. request[b].at = "write" /\ request[b].op \in PasswordWrites
        /\ UNCHANGED <<alive, session, given>>
    BY <1>7 DEF UpdateUserPassword, At
  <2>3. CASE request[b].target \in alive
    <3>1. row' = [row EXCEPT ![request[b].target].mustChange = (request[b].op = "reset")]
          /\ Overtakes(IF request[b].op = "reset"
                       THEN RequestsOf(request[b].target, {"change"}, {"read", "write"})
                       ELSE {})
      BY <1>7, <2>3 DEF UpdateUserPassword, Overtakes
    <3>2. RowIs(request[b].target, row[request[b].target].name,
                row[request[b].target].role, request[b].op = "reset")
      <4> DEFINE rec == [row[request[b].target] EXCEPT
                           !.mustChange = (request[b].op = "reset")]
      <4>1. row[request[b].target] \in RowRecord
        BY <1>0, <2>3 DEF TypeOK, RowRecord
      <4>2. rec \in RowRecord /\ rec.name = row[request[b].target].name
            /\ rec.role = row[request[b].target].role
            /\ rec.mustChange = (request[b].op = "reset")
        BY <4>1 DEF RowRecord
      <4>3. row \in [Users -> RowRecord] /\ row' = [row EXCEPT ![request[b].target] = rec]
        BY <3>1 DEF TypeOK, RowRecord
      <4> QED BY <1>0, <2>3, <4>2, <4>3 DEF RowIs
    <3> QED BY <2>1, <2>2, <2>3, <3>1, <3>2 DEF ChangesPassword
  <2>4. CASE request[b].target \notin alive
    BY <1>7, <2>1, <2>2, <2>4 DEF UpdateUserPassword, Ends, Quiet
  <2> QED BY <2>3, <2>4
<1>8. ASSUME CreateAuthSession(b) PROVE LogsIn(b)
  <2>1. PICK x \in Sessions :
           /\ session' = [session EXCEPT ![x] = [user |-> request[b].target,
                                                 state |-> "valid"]]
           /\ request' = [request EXCEPT ![b].at = "cookie", ![b].session = x]
    BY <1>8 DEF CreateAuthSession
  <2>2. OnlyOf(b) /\ request'[b].at = "cookie"
    BY <1>0, <2>1, SessionMeans
  <2> QED
    BY <1>8, <2>1, <2>2 DEF CreateAuthSession, LogsIn, At, users, history
<1> QED
  BY <1>1, <1>2, <1>3, <1>4, <1>5, <1>6, <1>7, <1>8 DEF Statements, Writes

(* Every step is of one of these kinds, or leaves all of it alone. *)
LEMMA StepKinds ==
  ASSUME TypeOK, RequestInv, SessionsHaveTheirUser, [Next]_vars
  PROVE  \/ UNCHANGED <<alive, row, session, given, overtaken, request>>
         \/ Lost \/ Installs \/ Expires
         \/ \E b \in Browsers : Begins(b) \/ Holds(b) \/ Ends(b) \/ Writes(b)
<1>1. CASE InitializeSuperuser
  <2>1. PICK u \in Users, name \in Names : InsertUser(u, name, Superuser, FALSE)
    BY <1>1 DEF InitializeSuperuser
  <2>2. UNCHANGED <<session, request>>
    BY <1>1 DEF InitializeSuperuser
  <2>3. Inserts(u, name, Superuser, FALSE)
    BY <2>1, <2>2, InsertMeans DEF Roles
  <2> QED BY <2>2, <2>3 DEF Installs
<1>2. CASE Serve
  BY <1>2 DEF Serve, users, history
<1>3. CASE Crash
  BY <1>3, IdleIs DEF Crash, Lost, Typed, Quiet, users, history
<1>4. ASSUME NEW x \in Sessions, Expire(x) PROVE Expires
  BY <1>4 DEF Expire, Expires, users, history
<1>5. CASE UNCHANGED vars
  BY <1>5 DEF vars, users, history
<1> QED
  BY <1>1, <1>2, <1>3, <1>4, <1>5, RequestsBegin, StatementsMean DEF Next

-----------------------------------------------------------------------------
(* Each invariant, kind by kind. *)

(* Every step keeps ids given once. *)
LEMMA StepIds ==
  ASSUME TypeOK, IdInv, RequestInv, SessionsHaveTheirUser, [Next]_vars
  PROVE  IdInv'
<1> USE DEF TypeOK, IdInv
<1>1. CASE UNCHANGED <<alive, row, session, given, overtaken, request>>
  BY <1>1
<1>2. CASE Lost
  BY <1>2 DEF Lost, Quiet
<1>3. CASE Installs
  BY <1>3 DEF Installs, Inserts, RowIs
<1>4. CASE Expires
  BY <1>4 DEF Expires
<1>5. ASSUME NEW b \in Browsers, Begins(b) PROVE IdInv'
  BY <1>5 DEF Begins, OnlyOf, Quiet
<1>6. ASSUME NEW b \in Browsers, Holds(b) PROVE IdInv'
  BY <1>6 DEF Holds, OnlyOf, Quiet
<1>7. ASSUME NEW b \in Browsers, Ends(b) PROVE IdInv'
  BY <1>7 DEF Ends, OnlyOf, Quiet
<1>8. ASSUME NEW b \in Browsers, Creates(b) PROVE IdInv'
  BY <1>8 DEF Creates, Inserts, OnlyOf, RowIs
<1>9. ASSUME NEW b \in Browsers, Deletes(b) PROVE IdInv'
  BY <1>9 DEF Deletes, OnlyOf, RowIs
<1>10. ASSUME NEW b \in Browsers, ChangesRole(b) PROVE IdInv'
  BY <1>10 DEF ChangesRole, OnlyOf, RowIs
<1>11. ASSUME NEW b \in Browsers, ChangesPassword(b) PROVE IdInv'
  BY <1>11 DEF ChangesPassword, OnlyOf, RowIs
<1>12. ASSUME NEW b \in Browsers, LogsIn(b) PROVE IdInv'
  BY <1>12 DEF LogsIn, OnlyOf
<1> QED
  BY <1>1, <1>2, <1>3, <1>4, <1>5, <1>6, <1>7, <1>8, <1>9, <1>10,
     <1>11, <1>12, StepKinds
  DEF Writes

(* Only a reset has a user choose a new password. *)
LEMMA OnlyResets ==
  ASSUME NEW b \in Browsers, ChangesPassword(b), NEW u \in Users,
         ~row[u].mustChange, row'[u].mustChange
  PROVE  u = request[b].target /\ request[b].op = "reset"
<1>1. CASE u = request[b].target
  BY <1>1 DEF ChangesPassword, RowIs
<1>2. CASE u # request[b].target
  BY <1>2 DEF ChangesPassword, RowIs
<1> QED BY <1>1, <1>2

(* Every step keeps what requests know of the rows they read. *)
LEMMA StepRequests ==
  ASSUME TypeOK, IdInv, RequestInv, SessionsHaveTheirUser, [Next]_vars
  PROVE  RequestInv'
<1> USE IdleIs DEF IdInv, RequestInv, IsSuperuser, PasswordWrites,
           Operator, Admin, Superuser
<1>1. CASE UNCHANGED <<alive, row, session, given, overtaken, request>>
  BY <1>1
<1>2. CASE Lost
  BY <1>2 DEF Lost, Quiet
<1>3. CASE Installs
  BY <1>3 DEF Installs, Inserts, RowIs
<1>4. CASE Expires
  BY <1>4 DEF Expires
<1>5. ASSUME NEW b \in Browsers, Begins(b) PROVE RequestInv'
  <2>1. alive \subseteq Users
    BY DEF TypeOK
  <2> QED BY <1>5, <2>1 DEF Begins, OnlyOf, Quiet
<1>6. ASSUME NEW b \in Browsers, Holds(b) PROVE RequestInv'
  <2>1. alive \subseteq Users
    BY DEF TypeOK
  <2> QED BY <1>6, <2>1 DEF Holds, OnlyOf, Quiet
<1>7. ASSUME NEW b \in Browsers, Ends(b) PROVE RequestInv'
  BY <1>7 DEF Ends, OnlyOf, Quiet
<1>8. ASSUME NEW b \in Browsers, Creates(b) PROVE RequestInv'
  BY <1>8 DEF Creates, Inserts, OnlyOf, RowIs
<1>9. ASSUME NEW b \in Browsers, Deletes(b) PROVE RequestInv'
  BY <1>9 DEF Deletes, OnlyOf, RowIs
<1>10. ASSUME NEW b \in Browsers, ChangesRole(b) PROVE RequestInv'
  <2>1. UNCHANGED <<alive, given>> /\ overtaken \subseteq overtaken'
    BY <1>10 DEF ChangesRole, Overtakes
  <2>2. \A u \in Users : row'[u].mustChange = row[u].mustChange
    BY <1>10 DEF ChangesRole, RowIs
  <2>3. \A u \in Users : ~IsSuperuser(u) /\ IsSuperuser(u)' =>
            u = request[b].target /\ request[b].role = Superuser
    BY <1>10 DEF ChangesRole, RowIs
  <2>4. request[b].role = Superuser =>
           \A c \in Browsers \ {b} :
              /\ request[c].target = request[b].target
              /\ request[c].op \in {"delete", "reset"} /\ request[c].at = "write"
              => c \in overtaken'
    BY <1>10 DEF ChangesRole, Overtakes, RequestsOf
  <2>5. /\ \A c \in Browsers \ {b} : request'[c] = request[c]
        /\ request'[b] = Idle
    BY <1>10 DEF ChangesRole, OnlyOf
  <2> HIDE DEF IsSuperuser
  <2> QED BY <2>1, <2>2, <2>3, <2>4, <2>5
<1>11. ASSUME NEW b \in Browsers, ChangesPassword(b) PROVE RequestInv'
  <2>1. UNCHANGED <<alive, given>> /\ overtaken \subseteq overtaken'
    BY <1>11 DEF ChangesPassword, Overtakes
  <2>2. \A u \in Users : IsSuperuser(u)' = IsSuperuser(u)
    BY <1>11 DEF ChangesPassword, RowIs
  <2>3. \A u \in Users : ~row[u].mustChange /\ row'[u].mustChange =>
            u = request[b].target /\ request[b].op = "reset"
    BY <1>11, OnlyResets
  <2>4. request[b].op = "reset" =>
           \A c \in Browsers \ {b} :
              /\ request[c].target = request[b].target
              /\ request[c].op = "change" /\ request[c].at \in {"read", "write"}
              => c \in overtaken'
    BY <1>11 DEF ChangesPassword, Overtakes, RequestsOf
  <2>5. /\ \A c \in Browsers \ {b} : request'[c] = request[c]
        /\ request'[b] = Idle
    BY <1>11 DEF ChangesPassword, OnlyOf
  <2> HIDE DEF IsSuperuser
  <2> QED BY <2>1, <2>2, <2>3, <2>4, <2>5
<1>12. ASSUME NEW b \in Browsers, LogsIn(b) PROVE RequestInv'
  BY <1>12 DEF LogsIn, OnlyOf
<1> HIDE DEF IdInv, RequestInv
<1> QED
  BY <1>1, <1>2, <1>3, <1>4, <1>5, <1>6, <1>7, <1>8, <1>9, <1>10,
     <1>11, <1>12, StepKinds
  DEF Writes

(* Every step keeps the users of sessions. *)
LEMMA StepSessions ==
  ASSUME TypeOK, IdInv, RequestInv, SessionsHaveTheirUser, [Next]_vars
  PROVE  SessionsHaveTheirUser'
<1> USE UserAccountsAssumption DEF TypeOK, SessionsHaveTheirUser
<1>1. CASE UNCHANGED <<alive, row, session, given, overtaken, request>>
  BY <1>1
<1>2. CASE Lost
  BY <1>2 DEF Lost, Quiet
<1>3. CASE Installs
  BY <1>3 DEF Installs, Inserts, RowIs
<1>4. CASE Expires
  BY <1>4 DEF Expires
<1>5. ASSUME NEW b \in Browsers, Begins(b) PROVE SessionsHaveTheirUser'
  BY <1>5 DEF Begins, OnlyOf, Quiet
<1>6. ASSUME NEW b \in Browsers, Holds(b) PROVE SessionsHaveTheirUser'
  BY <1>6 DEF Holds, OnlyOf, Quiet
<1>7. ASSUME NEW b \in Browsers, Ends(b) PROVE SessionsHaveTheirUser'
  BY <1>7 DEF Ends, OnlyOf, Quiet
<1>8. ASSUME NEW b \in Browsers, Creates(b) PROVE SessionsHaveTheirUser'
  BY <1>8 DEF Creates, Inserts, OnlyOf, RowIs
<1>9. ASSUME NEW b \in Browsers, Deletes(b) PROVE SessionsHaveTheirUser'
  BY <1>9 DEF Deletes, OnlyOf, RowIs
<1>10. ASSUME NEW b \in Browsers, ChangesRole(b) PROVE SessionsHaveTheirUser'
  BY <1>10 DEF ChangesRole, OnlyOf, RowIs
<1>11. ASSUME NEW b \in Browsers, ChangesPassword(b) PROVE SessionsHaveTheirUser'
  BY <1>11 DEF ChangesPassword, OnlyOf, RowIs
<1>12. ASSUME NEW b \in Browsers, LogsIn(b) PROVE SessionsHaveTheirUser'
  BY <1>12 DEF LogsIn, OnlyOf
<1> QED
  BY <1>1, <1>2, <1>3, <1>4, <1>5, <1>6, <1>7, <1>8, <1>9, <1>10,
     <1>11, <1>12, StepKinds
  DEF Writes

(* Every step keeps usernames apart: only an insert gives one. *)
NamesApart == \A u, v \in alive : row[u].name = row[v].name => u = v

(* No two rows get one name. *)
LEMMA StepNames ==
  ASSUME TypeOK, IdInv, RequestInv, SessionsHaveTheirUser, NamesApart, [Next]_vars
  PROVE  NamesApart'
<1> USE DEF IdInv, RequestInv, NamesApart, NameIsFree
<1>1. CASE UNCHANGED <<alive, row, session, given, overtaken, request>>
  BY <1>1
<1>2. CASE Lost
  BY <1>2 DEF Lost, Quiet
<1>3. CASE Installs
  <2>1. alive \subseteq Users
    BY DEF TypeOK
  <2>2. PICK u \in Users, name \in Names \cup {NoName}, role \in Roles,
             byAdmin \in BOOLEAN :
           Inserts(u, name, role, byAdmin)
    BY <1>3 DEF Installs, Roles
  <2>3. /\ u \notin alive /\ alive' = alive \cup {u}
        /\ row'[u].name = name /\ \A v \in alive : row[v].name # name
        /\ \A v \in alive : row'[v] = row[v]
    BY <2>1, <2>2 DEF Inserts, RowIs, IdInv, NameIsFree
  <2> HIDE DEF IdInv, RequestInv
  <2> QED BY <2>3
<1>4. CASE Expires
  BY <1>4 DEF Expires
<1>5. ASSUME NEW b \in Browsers, Begins(b) PROVE NamesApart'
  BY <1>5 DEF Begins, OnlyOf, Quiet
<1>6. ASSUME NEW b \in Browsers, Holds(b) PROVE NamesApart'
  BY <1>6 DEF Holds, OnlyOf, Quiet
<1>7. ASSUME NEW b \in Browsers, Ends(b) PROVE NamesApart'
  BY <1>7 DEF Ends, OnlyOf, Quiet
<1>8. ASSUME NEW b \in Browsers, Creates(b) PROVE NamesApart'
  <2>1. alive \subseteq Users
    BY DEF TypeOK
  <2>2. PICK u \in Users, name \in Names \cup {NoName}, role \in Roles,
             byAdmin \in BOOLEAN :
           Inserts(u, name, role, byAdmin)
    <3>1. request[b].name \in Names \cup {NoName} /\ request[b].role \in Roles
      BY DEF TypeOK
    <3> QED BY <1>8, <3>1 DEF Creates
  <2>3. /\ u \notin alive /\ alive' = alive \cup {u}
        /\ row'[u].name = name /\ \A v \in alive : row[v].name # name
        /\ \A v \in alive : row'[v] = row[v]
    BY <2>1, <2>2 DEF Inserts, RowIs, IdInv, NameIsFree
  <2> HIDE DEF IdInv, RequestInv
  <2> QED BY <2>3
<1>9. ASSUME NEW b \in Browsers, Deletes(b) PROVE NamesApart'
  <2>1. alive \subseteq Users
    BY DEF TypeOK
  <2>2. alive' \subseteq alive /\ \A v \in alive' : row'[v] = row[v]
    BY <1>9, <2>1 DEF Deletes, RowIs
  <2> QED BY <2>2
<1>10. ASSUME NEW b \in Browsers, ChangesRole(b) PROVE NamesApart'
  <2>1. alive \subseteq Users
    BY DEF TypeOK
  <2>2. alive' = alive /\ \A v \in alive : row'[v].name = row[v].name
    BY <1>10, <2>1 DEF ChangesRole, RowIs
  <2> QED BY <2>2
<1>11. ASSUME NEW b \in Browsers, ChangesPassword(b) PROVE NamesApart'
  <2>1. alive \subseteq Users
    BY DEF TypeOK
  <2>2. alive' = alive /\ \A v \in alive : row'[v].name = row[v].name
    BY <1>11, <2>1 DEF ChangesPassword, RowIs
  <2> QED BY <2>2
<1>12. ASSUME NEW b \in Browsers, LogsIn(b) PROVE NamesApart'
  BY <1>12 DEF LogsIn, OnlyOf
<1> QED
  BY <1>1, <1>2, <1>3, <1>4, <1>5, <1>6, <1>7, <1>8, <1>9, <1>10,
     <1>11, <1>12, StepKinds
  DEF Writes

(* Every step keeps the types. *)
LEMMA StepTyped ==
  ASSUME TypeOK, IdInv, RequestInv, SessionsHaveTheirUser, [Next]_vars
  PROVE  TypeOK'
<1>1. row' \in [Users -> RowRecord] /\ request' \in [Browsers -> RequestRecord]
      /\ given' \in [Users -> Nat]
  <2>1. row \in [Users -> RowRecord] /\ request \in [Browsers -> RequestRecord]
        /\ given \in [Users -> Nat]
    BY DEF TypeOK, RowRecord, RequestRecord
  <2>2. row' \in [Users -> RowRecord]
    BY <2>1, StepKinds
    DEF Lost, Installs, Expires, Begins, Holds, Ends, Writes, Creates, Deletes,
        ChangesRole, ChangesPassword, LogsIn, Quiet, Inserts, RowIs
  <2>3. request' \in [Browsers -> RequestRecord]
    BY <2>1, StepKinds
    DEF Lost, Installs, Expires, Begins, Holds, Ends, Writes, Creates, Deletes,
        ChangesRole, ChangesPassword, LogsIn, OnlyOf, Typed
  <2>4. given' \in [Users -> Nat]
    BY <2>1, StepKinds
    DEF Lost, Installs, Expires, Begins, Holds, Ends, Writes, Creates, Deletes,
        ChangesRole, ChangesPassword, LogsIn, Quiet, Inserts
  <2> QED BY <2>2, <2>3, <2>4
<1>2. alive' \subseteq Users
  <2>1. alive \subseteq Users
    BY DEF TypeOK
  <2>2. alive' \subseteq alive \/ \E u \in Users : alive' = alive \cup {u}
    BY StepKinds
    DEF Lost, Installs, Expires, Begins, Holds, Ends, Writes, Creates, Deletes,
        ChangesRole, ChangesPassword, LogsIn, Quiet, Inserts
  <2> QED BY <2>1, <2>2
<1>3. overtaken' \subseteq Browsers
  <2>1. overtaken \subseteq Browsers
    BY DEF TypeOK
  <2> QED
    BY <2>1, StepKinds
    DEF Lost, Installs, Expires, Begins, Holds, Ends, Writes, Creates, Deletes,
        ChangesRole, ChangesPassword, LogsIn, Quiet, Inserts, Overtakes, RequestsOf
<1>4. session' \in [Sessions -> [user : Users \cup {NoUser},
                                 state : {"unused", "valid", "expired", "gone"}]]
  <2> DEFINE SessionRecord == [user : Users \cup {NoUser},
                               state : {"unused", "valid", "expired", "gone"}]
  <2>1. session \in [Sessions -> SessionRecord] /\ alive \subseteq Users
    BY DEF TypeOK
  <2>2. ASSUME Expires PROVE session' \in [Sessions -> SessionRecord]
    BY <2>1, <2>2 DEF Expires
  <2>3. ASSUME NEW b \in Browsers, Deletes(b)
        PROVE  session' \in [Sessions -> SessionRecord]
    BY <2>1, <2>3 DEF Deletes
  <2>4. ASSUME NEW b \in Browsers, LogsIn(b)
        PROVE  session' \in [Sessions -> SessionRecord]
    BY <2>1, <2>4 DEF LogsIn
  <2> QED
    BY <2>1, <2>2, <2>3, <2>4, StepKinds
    DEF Lost, Installs, Begins, Holds, Ends, Writes, Creates, ChangesRole,
        ChangesPassword, Quiet, Inserts
<1>5. /\ cookie' \in [Browsers -> Sessions \cup {NoSession}]
      /\ phase' \in {"starting", "serving"} /\ restarts' \in 0 .. MaxRestarts
  <2> USE UserAccountsAssumption
  <2>1. /\ cookie \in [Browsers -> Sessions \cup {NoSession}]
        /\ phase \in {"starting", "serving"} /\ restarts \in 0 .. MaxRestarts
        /\ \A b \in Browsers : request[b].session \in Sessions \cup {NoSession}
    BY DEF TypeOK
  <2>2. CASE InitializeSuperuser \/ Serve \/ Crash \/ UNCHANGED vars
    <3>1. CASE InitializeSuperuser \/ UNCHANGED vars
      BY <2>1, <3>1 DEF InitializeSuperuser, vars, process
    <3>2. CASE Serve
      BY <2>1, <3>2 DEF Serve
    <3>3. CASE Crash
      BY <2>1, <3>3 DEF Crash
    <3> QED BY <2>2, <3>1, <3>2, <3>3
  <2>3. ASSUME NEW x \in Sessions, Expire(x)
        PROVE  UNCHANGED <<cookie, phase, restarts>>
    BY <2>3 DEF Expire, process
  <2>4. ASSUME NEW b \in Browsers, Requests(b)
        PROVE  cookie' \in [Browsers -> Sessions \cup {NoSession}]
               /\ UNCHANGED <<phase, restarts>>
    BY <2>1, <2>4
    DEF Requests, PostUsers, PostSetPassword, PostLogin, GetLogOut,
        PatchChangeUserPassword, RemoveSessionCookie, DeleteUser,
        PatchResetUserPassword, PatchUserPassword, PatchUserRole, Begin, process
  <2>5. ASSUME NEW b \in Browsers, Statements(b)
        PROVE  cookie' \in [Browsers -> Sessions \cup {NoSession}]
               /\ UNCHANGED <<phase, restarts>>
    BY <2>1, <2>5
    DEF Statements, ReadUserByID, ReadUserByUsername, Refuse, CreateUser,
        DeleteUserRow, UpdateUserRole, UpdateUserPassword, CreateAuthSession,
        SetSessionCookie, process
  <2> QED BY <2>1, <2>2, <2>3, <2>4, <2>5 DEF Next
<1>6. NamesApart'
  BY StepNames DEF TypeOK, NamesApart
<1> QED
  BY <1>1, <1>2, <1>3, <1>4, <1>5, <1>6
  DEF TypeOK, RowRecord, RequestRecord, NamesApart

-----------------------------------------------------------------------------
(* The first start of main finds no user. *)
LEMMA InitHolds ==
  ASSUME Init
  PROVE  AccountsInv
<1> USE UserAccountsAssumption, IdleIs DEF Init
<1>1. TypeOK
  BY DEF TypeOK, RequestRecord, NoRow, NoAuthSession, Roles
<1>2. IdInv
  BY DEF IdInv
<1>3. RequestInv
  BY DEF RequestInv
<1>4. SessionsHaveTheirUser
  BY DEF SessionsHaveTheirUser, NoAuthSession
<1> QED BY <1>1, <1>2, <1>3, <1>4 DEF AccountsInv

(* The invariant of every behaviour. *)
LEMMA AccountsInvariant ==
  Spec => []AccountsInv
<1>1. AccountsInv /\ [Next]_vars => AccountsInv'
  BY StepTyped, StepIds, StepRequests, StepSessions DEF AccountsInv
<1> QED BY InitHolds, <1>1, PTL DEF Spec

(* Who must choose a new password, and whether a user is there, changes    *)
(* only with a write to that user's row.                                   *)
LEMMA RowChanges ==
  ASSUME AccountsInv, [Next]_vars, NEW u \in alive,
         u \notin alive' \/ row'[u].mustChange # row[u].mustChange
  PROVE  \E b \in Browsers :
            (Deletes(b) \/ ChangesPassword(b)) /\ request[b].target = u
<1>1. u \in Users /\ given[u] = 1
  BY DEF AccountsInv, TypeOK, IdInv
<1>2. ASSUME NEW v \in Users, NEW name, NEW role, NEW byAdmin,
             Inserts(v, name, role, byAdmin)
      PROVE  u \in alive' /\ row'[u] = row[u]
  BY <1>1, <1>2 DEF Inserts, RowIs
<1>3. ASSUME NEW b \in Browsers, ChangesRole(b)
      PROVE  u \in alive' /\ row'[u].mustChange = row[u].mustChange
  BY <1>1, <1>3 DEF ChangesRole, RowIs
<1>4. ASSUME NEW b \in Browsers, Deletes(b) \/ ChangesPassword(b)
      PROVE  request[b].target = u
  BY <1>1, <1>4 DEF Deletes, ChangesPassword, RowIs
<1>5. ASSUME NEW b \in Browsers, Begins(b) \/ Holds(b) \/ Ends(b) \/ LogsIn(b)
      PROVE  UNCHANGED <<alive, row>>
  BY <1>5 DEF Begins, Holds, Ends, LogsIn, Quiet
<1>6. ASSUME Lost \/ Expires PROVE UNCHANGED <<alive, row>>
  BY <1>6 DEF Lost, Expires, Quiet
<1>7. ASSUME Installs PROVE u \in alive' /\ row'[u] = row[u]
  BY <1>2, <1>7 DEF Installs
<1>8. ASSUME NEW b \in Browsers, Creates(b) PROVE u \in alive' /\ row'[u] = row[u]
  BY <1>2, <1>8 DEF Creates
<1> QED
  BY <1>3, <1>4, <1>5, <1>6, <1>7, <1>8, StepKinds DEF Writes, AccountsInv

(* Rows, sessions and requests keep their types, and usernames are unique. *)
THEOREM AccountsTypeCorrect ==
  Spec => []TypeOK
<1>1. AccountsInv => TypeOK
  BY DEF AccountsInv
<1> QED BY <1>1, AccountsInvariant, PTL

(* A session that opens the application has its user, whichever way logins *)
(* and deletions race.                                                     *)
THEOREM SessionsKeepTheirUsers ==
  Spec => []SessionsHaveTheirUser
<1>1. AccountsInv => SessionsHaveTheirUser
  BY DEF AccountsInv
<1> QED BY <1>1, AccountsInvariant, PTL

(* A superuser is deleted or sent to choose a new password only by a       *)
(* request that another one has overtaken: it read the row before its user *)
(* was made a superuser.                                                   *)
THEOREM SuperusersFallToRacesOnly ==
  Spec => SuperusersAreProtected
<1>1. ASSUME AccountsInv, [Next]_vars, NEW u \in alive, IsSuperuser(u),
             u \notin alive' \/ (row'[u].mustChange /\ ~row[u].mustChange)
      PROVE  \E b \in overtaken : Writing(b, u, {"delete", "reset"})
  <2> USE <1>1
  <2>1. PICK b \in Browsers :
           (Deletes(b) \/ ChangesPassword(b)) /\ request[b].target = u
    BY RowChanges, Zenon
  <2>2. request[b].op \in {"delete", "reset"}
    <3>1. CASE Deletes(b)
      BY <3>1 DEF Deletes
    <3>2. CASE ChangesPassword(b)
      BY <2>1, <3>2 DEF ChangesPassword, RowIs
    <3> QED BY <2>1, <3>1, <3>2
  <2>3. request[b].at = "write" /\ request'[b] = Idle
    BY <2>1 DEF Deletes, ChangesPassword
  <2>4. b \in overtaken
    BY <2>1, <2>2, <2>3 DEF AccountsInv, RequestInv
  <2> QED BY <2>1, <2>2, <2>3, <2>4 DEF Writing
<1>2. AccountsInv /\ [Next]_vars =>
         [\A u \in alive :
             /\ IsSuperuser(u)
             /\ u \notin alive' \/ (row'[u].mustChange /\ ~row[u].mustChange)
             => \E b \in overtaken : Writing(b, u, {"delete", "reset"})]_vars
  BY <1>1
<1> QED BY <1>2, AccountsInvariant, PTL DEF Spec, SuperusersAreProtected

(* A user who must choose a new password is let in again by setting one,   *)
(* by someone who knows the temporary one, or by a form of the profile     *)
(* that the reset has overtaken.                                           *)
THEOREM ResetsFallToRacesOnly ==
  Spec => ResetsHold
<1>1. ASSUME AccountsInv, [Next]_vars, NEW u \in alive \cap alive',
             row[u].mustChange, ~row'[u].mustChange
      PROVE  \E b \in Browsers : \/ Writing(b, u, {"set", "update"})
                                 \/ b \in overtaken /\ Writing(b, u, {"change"})
  <2> USE <1>1
  <2>1. PICK b \in Browsers :
           (Deletes(b) \/ ChangesPassword(b)) /\ request[b].target = u
    BY RowChanges, Zenon
  <2>2. ChangesPassword(b)
    BY <2>1 DEF Deletes
  <2>3. /\ request[b].op \in {"set", "update", "change"}
        /\ request[b].at = "write" /\ request'[b] = Idle
    BY <2>1, <2>2 DEF ChangesPassword, PasswordWrites, RowIs
  <2>4. request[b].op = "change" => b \in overtaken
    BY <2>1, <2>3 DEF AccountsInv, RequestInv
  <2> QED BY <2>1, <2>3, <2>4 DEF Writing
<1>2. AccountsInv /\ [Next]_vars =>
         [\A u \in alive \cap alive' :
             row[u].mustChange /\ ~row'[u].mustChange
             => \E b \in Browsers :
                   \/ Writing(b, u, {"set", "update"})
                   \/ b \in overtaken /\ Writing(b, u, {"change"})]_vars
  BY <1>1
<1> QED BY <1>2, AccountsInvariant, PTL DEF Spec, ResetsHold

(* A write is to the row its request has read, or to none: the id it read  *)
(* is of no other row, also when the username has changed hands.           *)
THEOREM WritesAreToTheRowRead ==
  Spec => WritesHitTheRowRead
<1>1. AccountsInv /\ [Next]_vars =>
         [\A b \in Browsers :
             LET t == request[b].target IN
             /\ request[b].at = "write" /\ request'[b].at # "write"
             /\ request[b].op # "create"
             /\ <<alive, row, session>>' # <<alive, row, session>>
             => given[t] = request[b].given]_vars
  BY DEF AccountsInv, RequestInv
<1> QED BY <1>1, AccountsInvariant, PTL DEF Spec, WritesHitTheRowRead
=============================================================================
