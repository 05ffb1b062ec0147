---------------------------- MODULE UserAccounts ----------------------------
(***************************************************************************)
(* Users, sessions and passwords (internal/handler/users.go, auth.go,      *)
(* middleware.go, internal/service/user_service.go and                     *)
(* internal/store/user_sqlitestore.go).  A request takes its user from the *)
(* session once, in the middleware, then reads the row it is about and     *)
(* writes it in a later statement: requests of several browsers interleave *)
(* between these statements, a session may expire, and the process may go  *)
(* down with the requests lost and every written row kept.  Which password *)
(* a row has is left out: a comparison succeeds or ends the request.       *)
(***************************************************************************)
EXTENDS Naturals, FiniteSets

CONSTANTS Users,       \* user ids: autoincrement, never used again
          Names,       \* usernames
          Sessions,    \* random session ids
          Browsers,    \* each sends one request at a time
          NoUser, NoName, NoSession,
          MaxRestarts  \* bound: times the process goes down and comes back

ASSUME UserAccountsAssumption ==
    /\ NoUser \notin Users
    /\ NoName \notin Names
    /\ NoSession \notin Sessions
    /\ MaxRestarts \in Nat

VARIABLES
    alive,     \* ids that have a row in users
    row,       \* user_role_id, username, password_changed_on is null
    session,   \* auth_sessions: the user, and whether it is "valid"
    cookie,    \* the session id in the cookie of each browser
    request,   \* what each browser's request is about to do
    phase,     \* main: "starting" or "serving"
    given,     \* history: how often each id was given to a new row
    overtaken, \* history: requests that would have been refused had they come
               \* after a promotion or reset that another one has made since
    restarts

users   == <<alive, row>>
history == <<given, overtaken>>
process == <<phase, restarts>>

vars == <<users, session, cookie, request, process, history>>

-----------------------------------------------------------------------------
Operator  == 10
Admin     == 1000
Superuser == 10000
Roles     == {Operator, Admin, Superuser}

NoRow == [name |-> NoName, role |-> Operator, mustChange |-> FALSE]
NoAuthSession == [user |-> NoUser, state |-> "unused"]

(* at is the statement a request executes next: it reads the row it is     *)
(* about, writes, or answers a login with the cookie.  given is history:   *)
(* it tells the row that was read from a later one with the same id.       *)
Idle == [at |-> "idle", op |-> "none", target |-> NoUser, name |-> NoName,
         role |-> Operator, session |-> NoSession, given |-> 0]
Operations == {"none", "create", "delete", "reset", "change", "update", "set",
               "role", "login"}

Init ==
    /\ alive = {} /\ row = [u \in Users |-> NoRow]
    /\ session = [s \in Sessions |-> NoAuthSession]
    /\ cookie = [b \in Browsers |-> NoSession]
    /\ request = [b \in Browsers |-> Idle]
    /\ phase = "starting" /\ restarts = 0
    /\ given = [u \in Users |-> 0] /\ overtaken = {}

At(b, place, op) == /\ phase = "serving"
                    /\ request[b].at = place /\ request[b].op = op
Answer(b) == request' = [request EXCEPT ![b] = Idle]
IsSuperuser(u) == row[u].role = Superuser

(* Mutant: an id is used again once its row is deleted. *)
ReusedId(u) == u \notin alive /\ given[u] < 2

(* autoincrement. *)
NewId(u) == given[u] = 0

(* username is unique. *)
NameIsFree(name) == \A u \in alive : row[u].name # name

(* Mutant: the username is not checked by the store. *)
InsertAnyUser(u, name, role, byAdmin) ==
    /\ NewId(u)
    /\ alive' = alive \cup {u}
    /\ row' = [row EXCEPT ![u] = [name |-> name, role |-> role,
                                  mustChange |-> byAdmin]]
    /\ given' = [given EXCEPT ![u] = @ + 1]
    /\ UNCHANGED overtaken

(* CreateUser and CreateSuperuser of the store: only the latter sets       *)
(* password_changed_on.                                                    *)
InsertUser(u, name, role, byAdmin) ==
    /\ NewId(u) /\ NameIsFree(name)
    /\ alive' = alive \cup {u}
    /\ row' = [row EXCEPT ![u] = [name |-> name, role |-> role,
                                  mustChange |-> byAdmin]]
    /\ given' = [given EXCEPT ![u] = @ + 1]
    /\ UNCHANGED overtaken

-----------------------------------------------------------------------------
(* main.  A username that is taken ends the process: it starts over.       *)

InitializeSuperuser ==
    /\ phase = "starting"
    /\ \A u \in alive : ~IsSuperuser(u)
    /\ \E u \in Users, name \in Names : InsertUser(u, name, Superuser, FALSE)
    /\ UNCHANGED <<session, cookie, request, process>>

Serve ==
    /\ phase = "starting"
    /\ \E u \in alive : IsSuperuser(u)
    /\ phase' = "serving"
    /\ UNCHANGED <<users, session, cookie, request, restarts, history>>

Crash ==
    /\ phase = "serving" /\ restarts < MaxRestarts
    /\ phase' = "starting" /\ restarts' = restarts + 1
    /\ request' = [b \in Browsers |-> Idle]
    /\ UNCHANGED <<users, session, cookie, history>>

-----------------------------------------------------------------------------
(* SessionMiddleware and the guards of the routes.                         *)

(* GetUserBySessionID: the user of a session that has not expired. *)
SessionUser(b) ==
    IF cookie[b] # NoSession /\ session[cookie[b]].state = "valid"
    THEN session[cookie[b]].user ELSE NoUser

Authenticated(b) == SessionUser(b) # NoUser /\ ~row[SessionUser(b)].mustChange
HasRole(b, role) == Authenticated(b) /\ row[SessionUser(b)].role >= role

(* A request begins with the form's values, after its guards. *)
Begin(b, r) ==
    /\ phase = "serving" /\ request[b] = Idle
    /\ request' = [request EXCEPT ![b] = r]
    /\ overtaken' = overtaken \ {b}
    /\ UNCHANGED <<users, session, cookie, process, given>>

(* The role is the one submitted: its foreign key is the only check. *)
PostUsers(b) ==
    /\ HasRole(b, Admin)
    /\ \E name \in Names, role \in Roles :
          Begin(b, [Idle EXCEPT !.at = "write", !.op = "create", !.name = name,
                                !.role = role])

DeleteUser(b, t) ==
    /\ HasRole(b, Admin)
    /\ Begin(b, [Idle EXCEPT !.at = "read", !.op = "delete", !.target = t])

(* The handler's first read of the row only refuses a row that is not      *)
(* there, as the second read would.                                        *)
PatchResetUserPassword(b, t) ==
    /\ HasRole(b, Admin)
    /\ Begin(b, [Idle EXCEPT !.at = "read", !.op = "reset", !.target = t])

(* Mutant: the route asks for a session only. *)
ChangeWithAnySession(b) ==
    /\ SessionUser(b) # NoUser
    /\ Begin(b, [Idle EXCEPT !.at = "read", !.op = "change",
                             !.target = SessionUser(b)])

(* The profile's form, for the user of the session. *)
PatchChangeUserPassword(b) ==
    /\ Authenticated(b)
    /\ Begin(b, [Idle EXCEPT !.at = "read", !.op = "change",
                             !.target = SessionUser(b)])

(* The other route takes any user whose password it is given. *)
PatchUserPassword(b, t) ==
    /\ Authenticated(b)
    /\ Begin(b, [Idle EXCEPT !.at = "read", !.op = "update", !.target = t])

(* Any row, a superuser's too, and any role: only the users page offers    *)
(* fewer.                                                                  *)
PatchUserRole(b, t) ==
    /\ HasRole(b, Superuser)
    /\ \E role \in Roles :
          Begin(b, [Idle EXCEPT !.at = "read", !.op = "role", !.target = t,
                                !.role = role])

PostSetPassword(b) ==
    /\ SessionUser(b) # NoUser
    /\ Begin(b, [Idle EXCEPT !.at = "read", !.op = "set",
                             !.target = SessionUser(b)])

PostLogin(b) ==
    \E name \in Names :
       Begin(b, [Idle EXCEPT !.at = "read", !.op = "login", !.name = name])

(* GetLogOut: the session's row stays. *)
GetLogOut(b) ==
    /\ phase = "serving" /\ request[b] = Idle
    /\ cookie' = [cookie EXCEPT ![b] = NoSession]
    /\ UNCHANGED <<users, session, request, process, history>>

(* A cookie whose session is not good is removed by any request. *)
RemoveSessionCookie(b) ==
    /\ phase = "serving" /\ request[b] = Idle
    /\ cookie[b] # NoSession /\ SessionUser(b) = NoUser
    /\ cookie' = [cookie EXCEPT ![b] = NoSession]
    /\ UNCHANGED <<users, session, request, process, history>>

-----------------------------------------------------------------------------
(* Reads.  What they refuse ends the request (Refuse).                     *)

Holding(b, u) == request' = [request EXCEPT ![b].at = "write",
                                            ![b].target = u,
                                            ![b].given = given[u]]

(* Mutant: the handler and the service do not ask for the role. *)
ReadAnyUserByID(b) ==
    /\ \E op \in Operations \ {"none", "create", "login"} : At(b, "read", op)
    /\ request[b].target \in alive
    /\ Holding(b, request[b].target)
    /\ UNCHANGED <<users, session, cookie, process, history>>

(* ReadUserByID for an operation on the row of the form: a row that is     *)
(* read as a superuser's is not deleted, reset or changed, and a change    *)
(* proves the old password (compared with the hash read here).             *)
ReadUserByID(b) ==
    /\ \E op \in Operations \ {"none", "create", "login"} : At(b, "read", op)
    /\ request[b].target \in alive
    /\ request[b].op \in {"delete", "reset", "change", "update"} =>
           ~IsSuperuser(request[b].target)
    /\ Holding(b, request[b].target)
    /\ UNCHANGED <<users, session, cookie, process, history>>

(* GetUserByUsernameAndPassword, with the password of the row it reads. *)
ReadUserByUsername(b) ==
    /\ At(b, "read", "login")
    /\ \E u \in alive : row[u].name = request[b].name /\ Holding(b, u)
    /\ UNCHANGED <<users, session, cookie, process, history>>

(* A row that is not there, a comparison that fails, a name that is taken, *)
(* a foreign key, an error of the store: at any statement before the       *)
(* write, the request may end with nothing changed.                        *)
Refuse(b) ==
    /\ phase = "serving" /\ request[b].at \in {"read", "write"}
    /\ Answer(b)
    /\ UNCHANGED <<users, session, cookie, process, history>>

-----------------------------------------------------------------------------
(* Writes, each by the id of the row that was read.                        *)

CreateUser(b) ==
    /\ At(b, "write", "create")
    /\ \E u \in Users : InsertUser(u, request[b].name, request[b].role, TRUE)
    /\ Answer(b)
    /\ UNCHANGED <<session, cookie, process>>

(* Mutant: the foreign key of auth_sessions does not cascade. *)
DeleteRowOnly(b) ==
    /\ At(b, "write", "delete")
    /\ alive' = alive \ {request[b].target}
    /\ row' = [row EXCEPT ![request[b].target] = NoRow]
    /\ Answer(b)
    /\ UNCHANGED <<session, cookie, process, history>>

(* The sessions go with their user (on delete cascade). *)
DeleteUserRow(b) ==
    /\ At(b, "write", "delete")
    /\ alive' = alive \ {request[b].target}
    /\ row' = [row EXCEPT ![request[b].target] = NoRow]
    /\ session' = [s \in Sessions |->
                     IF session[s].user = request[b].target
                     THEN [user |-> NoUser, state |-> "gone"] ELSE session[s]]
    /\ Answer(b)
    /\ UNCHANGED <<cookie, process, history>>

(* The requests of t for one of ops that have come as far as places. *)
RequestsOf(t, ops, places) ==
    {c \in Browsers : /\ request[c].target = t
                      /\ request[c].op \in ops /\ request[c].at \in places}

(* Promoting a user overtakes a deletion or a reset that has read the row. *)
UpdateUserRole(b) ==
    LET t == request[b].target  role == request[b].role IN
    /\ At(b, "write", "role")
    /\ IF t \in alive
       THEN /\ row' = [row EXCEPT ![t].role = role]
            /\ overtaken' = IF role = Superuser
                            THEN overtaken \cup RequestsOf(t, {"delete", "reset"},
                                                           {"write"})
                            ELSE overtaken
       ELSE UNCHANGED <<row, overtaken>>
    /\ Answer(b)
    /\ UNCHANGED <<alive, session, cookie, process, given>>

PasswordWrites == {"reset", "change", "update", "set"}

(* ResetUserPassword leaves password_changed_on empty, ChangeUserPassword  *)
(* and SetUserPassword set it; the profile's form and the one that sets a  *)
(* first password end the browser's login.  A reset overtakes a change     *)
(* that has passed IsAuthenticated.                                        *)
UpdateUserPassword(b) ==
    LET t == request[b].target  op == request[b].op IN
    /\ \E o \in PasswordWrites : At(b, "write", o)
    /\ IF t \in alive
       THEN /\ row' = [row EXCEPT ![t].mustChange = (op = "reset")]
            /\ overtaken' = IF op = "reset"
                            THEN overtaken \cup RequestsOf(t, {"change"},
                                                           {"read", "write"})
                            ELSE overtaken
       ELSE UNCHANGED <<row, overtaken>>
    /\ Answer(b)
    /\ cookie' = IF op \in {"change", "set"}
                 THEN [cookie EXCEPT ![b] = NoSession] ELSE cookie
    /\ UNCHANGED <<alive, session, process, given>>

(* The foreign key refuses a user that was deleted since. *)
CreateAuthSession(b) ==
    /\ At(b, "write", "login")
    /\ request[b].target \in alive
    /\ \E s \in Sessions :
          /\ session[s].state = "unused"
          /\ session' = [session EXCEPT ![s] = [user |-> request[b].target,
                                                state |-> "valid"]]
          /\ request' = [request EXCEPT ![b].at = "cookie", ![b].session = s]
    /\ UNCHANGED <<users, cookie, process, history>>

SetSessionCookie(b) ==
    /\ At(b, "cookie", "login")
    /\ cookie' = [cookie EXCEPT ![b] = request[b].session]
    /\ Answer(b)
    /\ UNCHANGED <<users, session, process, history>>

(* auth_session_expires passes. *)
Expire(s) ==
    /\ session[s].state = "valid"
    /\ session' = [session EXCEPT ![s].state = "expired"]
    /\ UNCHANGED <<users, cookie, request, process, history>>

-----------------------------------------------------------------------------
Requests(b) ==
    \/ PostUsers(b) \/ PostSetPassword(b) \/ PostLogin(b) \/ GetLogOut(b)
    \/ PatchChangeUserPassword(b) \/ RemoveSessionCookie(b)
    \/ \E t \in alive : \/ DeleteUser(b, t) \/ PatchResetUserPassword(b, t)
                        \/ PatchUserPassword(b, t) \/ PatchUserRole(b, t)
Statements(b) ==
    \/ ReadUserByID(b) \/ ReadUserByUsername(b) \/ Refuse(b)
    \/ CreateUser(b) \/ DeleteUserRow(b) \/ UpdateUserRole(b)
    \/ UpdateUserPassword(b) \/ CreateAuthSession(b) \/ SetSessionCookie(b)

Next == \/ InitializeSuperuser \/ Serve \/ Crash
        \/ \E b \in Browsers : Requests(b) \/ Statements(b)
        \/ \E s \in Sessions : Expire(s)

Spec == Init /\ [][Next]_vars

-----------------------------------------------------------------------------
(* Types, and the uniqueness of usernames that logins rely on.             *)
TypeOK ==
    /\ alive \subseteq Users
    /\ row \in [Users -> [name : Names \cup {NoName}, role : Roles,
                          mustChange : BOOLEAN]]
    /\ session \in [Sessions -> [user : Users \cup {NoUser},
                                 state : {"unused", "valid", "expired", "gone"}]]
    /\ cookie \in [Browsers -> Sessions \cup {NoSession}]
    /\ request \in [Browsers -> [at : {"idle", "read", "write", "cookie"},
                                 op : Operations,
                                 target : Users \cup {NoUser},
                                 name : Names \cup {NoName}, role : Roles,
                                 session : Sessions \cup {NoSession},
                                 given : Nat]]
    /\ phase \in {"starting", "serving"} /\ restarts \in 0 .. MaxRestarts
    /\ given \in [Users -> Nat] /\ overtaken \subseteq Browsers
    /\ \A u, v \in alive : row[u].name = row[v].name => u = v

(* A session that opens the application is of a user who is there: a login *)
(* racing the deletion of its user leaves no session behind, whichever     *)
(* statement comes first (CreateAuthSession, DeleteUser).                  *)
SessionsHaveTheirUser ==
    \A s \in Sessions :
        session[s].state \in {"valid", "expired"} => session[s].user \in alive

Writing(b, u, ops) == request[b].target = u /\ request[b].op \in ops
                      /\ request[b].at = "write" /\ request'[b] = Idle

(* DeleteUser and ResetUserPassword ask for the role in one statement and  *)
(* write in a later one: a superuser is deleted or sent to choose a new    *)
(* password only by a request that had read the row before another one     *)
(* made its user a superuser, however requests, demotions and promotions   *)
(* overlap.                                                                *)
SuperusersAreProtected ==
    [][\A u \in alive :
          /\ IsSuperuser(u)
          /\ u \notin alive' \/ (row'[u].mustChange /\ ~row[u].mustChange)
          => \E b \in overtaken : Writing(b, u, {"delete", "reset"})]_vars

(* A user who must choose a new password is let in again by setting one,   *)
(* or by someone with a login who knows the temporary one (the route       *)
(* /password).  The profile's form, which asks for no such thing, does it  *)
(* only when the reset came while that form was being handled: then the    *)
(* reset is lost (ChangeUserPassword, ResetUserPassword).                  *)
ResetsHold ==
    [][\A u \in alive \cap alive' :
          row[u].mustChange /\ ~row'[u].mustChange
          => \E b \in Browsers : \/ Writing(b, u, {"set", "update"})
                                 \/ b \in overtaken /\ Writing(b, u, {"change"})]_vars

(* A write changes the row its request has read, never one that a later    *)
(* user got the id of, and a login opens a session of the user whose       *)
(* password it compared, also when the username has changed hands.         *)
WritesHitTheRowRead ==
    [][\A b \in Browsers :
          LET t == request[b].target IN
          /\ request[b].at = "write" /\ request'[b].at # "write"
          /\ request[b].op # "create"
          /\ <<alive, row, session>>' # <<alive, row, session>>
          => given[t] = request[b].given]_vars
=============================================================================
