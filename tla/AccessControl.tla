---------------------------- MODULE AccessControl ----------------------------
(***************************************************************************)
(* Users, their permissions and their sessions (internal/auth), and the    *)
(* handlers of internal/routes that ask for them.                          *)
(*                                                                         *)
(* A request of the dashboard carries a token.  The handler reads the name *)
(* in the session, then the user's row, then the permission, and acts in a *)
(* last step; every pair of these steps of two requests may interleave.    *)
(* The tables refer to each other by foreign keys, which SQLite enforces   *)
(* on the connections that ran the PRAGMA: the first one of the pool.      *)
(***************************************************************************)
EXTENDS Naturals, FiniteSets

CONSTANTS
  Names,         \* user names
  DefaultUser,   \* "itrigger"
  ProjectIds,    \* an id is given out once
  Tokens,        \* a token is given out once
  Requests,
  Calls,         \* what a request may ask for
  NoUser, NoName,
  Nothing,       \* a local variable before its assignment
  FirstUsers,    \* the tables and the sessions at the start
  FirstRights,
  FirstProjects,
  FirstSessions,
  MaxBoots       \* bound: restarts of the server

Level   == {"read", "write", "delete"}
Rights  == [ProjectIds -> Level \cup {"none"}]
Account == [admin: BOOLEAN, create: BOOLEAN]
Form    == [account: Account, grants: Rights]

\* What a request may ask for.  "deploy" stands for the start and the stop of a
\* deployment, which ask for the same right, "read" for one project, one
\* deployment or its log, "list" for all projects or all deployments.
Call ==
  [kind: {"login"}, name: Names] \cup [kind: {"logout", "create", "list"}]
  \cup [kind: {"edit", "remove", "deploy", "read"}, project: ProjectIds]
  \cup [kind: {"adduser"}, name: Names, form: Form]
  \cup [kind: {"update"}, name: Names, to: Names, form: Form]
  \cup [kind: {"deluser"}, name: Names] \cup [kind: {"settings"}, to: Names]

ASSUME AccessAssumption ==
  /\ DefaultUser \in Names
  /\ NoUser \notin Account
  /\ NoName \notin Names
  /\ Calls \subseteq Call
  /\ FirstUsers \in [Names -> Account \cup {NoUser}]
  /\ FirstRights \in [Names -> Rights]
  /\ FirstProjects \subseteq ProjectIds
  /\ \A n \in Names, p \in ProjectIds :
       FirstRights[n][p] # "none" => FirstUsers[n] # NoUser /\ p \in FirstProjects
  /\ FirstSessions \in [Tokens -> Names \cup {NoName}]
  /\ MaxBoots \in Nat

VARIABLES
  users,      \* table users, without the password
  perms,      \* table user_project_permissions
  projects,   \* the ids in table projects
  born,       \* the ids that were given out
  pooled,     \* has the pool connections that enforce no foreign keys?
  sessions,   \* the session store: token -> name
  issued,     \* the tokens that were given out
  pc, call, token, who, isAdmin, created,   \* a request and its locals
  listed,     \* the projects a list is about, by its rows
  held,       \* requests whose caller has held the right since they arrived
  seen,       \* per list: the projects its caller had a right for meanwhile
  boots

tables  == <<users, perms, projects, born, pooled>>
logins  == <<sessions, issued>>
locals  == <<call, token, who, isAdmin, created, listed>>
vars == <<tables, logins, pc, locals, held, seen, boots>>

NoRights == [p \in ProjectIds |-> "none"]

Serving == {"flag", "right", "act", "grant", "sessions", "token"}
PC == Serving \cup {"idle", "ok", "refused", "lost"}

TablesOK ==
  /\ users \in [Names -> Account \cup {NoUser}]
  /\ perms \in [Names -> Rights]
  /\ projects \subseteq born
  /\ born \subseteq ProjectIds
  /\ pooled \in BOOLEAN

SessionsOK ==
  /\ sessions \in [Tokens -> Names \cup {NoName}]
  /\ issued \subseteq Tokens
  /\ \A t \in Tokens : sessions[t] # NoName => t \in issued

RequestsOK ==
  /\ pc \in [Requests -> PC]
  /\ call \in [Requests -> Calls \cup {Nothing}]
  /\ token \in [Requests -> Tokens \cup {Nothing}]
  /\ who \in [Requests -> Names \cup {NoName, Nothing}]
  /\ created \in [Requests -> ProjectIds \cup {Nothing}]
  /\ \A r \in Requests : pc[r] \in Serving =>
       /\ call[r] \in Calls
       /\ who[r] \in Names
       /\ call[r].kind # "login" => token[r] \in Tokens
       /\ pc[r] = "grant" => created[r] \in born /\ call[r].kind = "create"
       /\ pc[r] = "sessions" => call[r].kind = "update"
       /\ pc[r] = "token" => call[r].kind \in {"login", "settings"}
  /\ isAdmin \in [Requests -> BOOLEAN]
  /\ listed \in [Requests -> SUBSET ProjectIds]

HistoryOK ==
  /\ held \subseteq Requests
  /\ seen \in [Requests -> SUBSET ProjectIds]
  /\ boots \in 0..MaxBoots

TypeOK == TablesOK /\ SessionsOK /\ RequestsOK /\ HistoryOK

Init ==
  /\ users = FirstUsers
  /\ perms = FirstRights
  /\ projects = FirstProjects
  /\ born = FirstProjects
  /\ pooled = FALSE
  /\ sessions = FirstSessions
  /\ issued = {t \in Tokens : FirstSessions[t] # NoName}
  /\ pc = [r \in Requests |-> "idle"]
  /\ call = [r \in Requests |-> Nothing]
  /\ token = [r \in Requests |-> Nothing]
  /\ who = [r \in Requests |-> Nothing]
  /\ isAdmin = [r \in Requests |-> FALSE]
  /\ created = [r \in Requests |-> Nothing]
  /\ listed = [r \in Requests |-> {}]
  /\ held = {}
  /\ seen = [r \in Requests |-> {}]
  /\ boots = 0

-----------------------------------------------------------------------------
(* The tables.                                                             *)

Exists(n)  == n \in Names /\ users[n] # NoUser
Admin(n)   == Exists(n) /\ users[n].admin
HasRows(n) == perms[n] # NoRights

\* The values "foreign_keys" may have on the connection of a statement or a
\* transaction.
Enforced == IF pooled THEN BOOLEAN ELSE {TRUE}

\* What the deletion of a project's row does to the permissions.
Cascade(p, keys) == IF keys THEN [n \in Names |-> [perms[n] EXCEPT ![p] = "none"]]
                    ELSE perms

\* The rows a form asks for: "read" and "write", and none for an administrator.
Stored(form) ==
  [p \in ProjectIds |-> IF ~form.account.admin /\ form.grants[p] \in {"read", "write"}
                        THEN form.grants[p] ELSE "none"]
Granted(form) == {p \in ProjectIds : Stored(form)[p] # "none"}

\* The rights a call asks for; a login asks for an account.
Needed(kind) ==
  CASE kind = "remove" -> {"delete"}
    [] kind = "read"   -> Level
    [] OTHER           -> {"write", "delete"}
AdminOnly == {"adduser", "update", "deluser"}
OfProject == {"edit", "remove", "deploy", "read"}

HasRight(n, c) == n \in Names /\ perms[n][c.project] \in Needed(c.kind)

-----------------------------------------------------------------------------
(* A request up to the point where it acts.                                *)

InFlight == {r \in Requests : pc[r] \in Serving}

May(r) ==
  LET c == call[r]
      n == who[r] IN
  CASE c.kind \in AdminOnly -> Admin(n)
    [] c.kind \in OfProject -> Admin(n) \/ HasRight(n, c)
    [] c.kind = "create"    -> Admin(n) \/ (Exists(n) /\ users[n].create)
    [] c.kind = "list"      -> TRUE
    [] OTHER                -> Exists(n)

\* The projects whose rows a name may see.
Visible(n) == {p \in ProjectIds : Admin(n) \/ (n \in Names /\ perms[n][p] # "none")}
Listing(r) == pc[r] \in Serving /\ call[r].kind = "list"

\* The last conjunct of every action.
Watch ==
  /\ held' = held \cup {r \in Requests : pc'[r] \in Serving /\ May(r)'}
  /\ seen' = [r \in Requests |->
       IF Listing(r)' THEN seen[r] \cup Visible(who[r])' ELSE seen[r]]

GoTo(r, to) == pc' = [pc EXCEPT ![r] = to]

\* RequireAuth, RequireAdmin and getUsername: the name the session has now.
\* With a bug: nobody asks whether there is a session.
ArriveUnchecked(r, t, c) ==
  /\ pc[r] = "idle"
  /\ c.kind \notin {"login", "logout"}
  /\ call' = [call EXCEPT ![r] = c]
  /\ token' = [token EXCEPT ![r] = t]
  /\ who' = [who EXCEPT ![r] = sessions[t]]
  /\ GoTo(r, "flag")
  /\ UNCHANGED <<tables, logins, isAdmin, created, listed, boots>>
  /\ Watch
Arrive(r, t, c) ==
  /\ pc[r] = "idle"
  /\ c.kind \notin {"login", "logout"}
  /\ call' = [call EXCEPT ![r] = c]
  /\ token' = [token EXCEPT ![r] = t]
  /\ who' = [who EXCEPT ![r] = sessions[t]]
  /\ GoTo(r, IF sessions[t] = NoName THEN "refused" ELSE "flag")
  /\ UNCHANGED <<tables, logins, isAdmin, created, listed, boots>>
  /\ Watch

\* The user's row.  A query that fails counts as "no administrator", except in
\* RequireAdmin.  For the settings it is the row with the password.
ReadFlag(r) ==
  /\ pc[r] = "flag"
  /\ \/ /\ call[r].kind \in AdminOnly
        /\ Admin(who[r])
        /\ GoTo(r, "act")
        /\ UNCHANGED isAdmin
     \/ /\ call[r].kind = "settings"
        /\ Exists(who[r])
        /\ GoTo(r, "act")
        /\ UNCHANGED isAdmin
     \/ /\ call[r].kind \in OfProject \cup {"create", "list"}
        /\ \E flag \in {Admin(who[r]), FALSE} : isAdmin' = [isAdmin EXCEPT ![r] = flag]
        /\ GoTo(r, "right")
  /\ UNCHANGED <<tables, logins, call, token, who, created, listed, boots>>
  /\ Watch

\* The permission, or whether the user may create projects.
\* With a bug: the query is not restricted to the project.
ReadRightOfAny(r) ==
  /\ pc[r] = "right"
  /\ \/ call[r].kind = "create" /\ Exists(who[r])
     \/ call[r].kind \in OfProject /\ (isAdmin[r] \/ HasRows(who[r]))
  /\ GoTo(r, "act")
  /\ UNCHANGED <<tables, logins, locals, boots>>
  /\ Watch
ReadRight(r) ==
  /\ pc[r] = "right"
  /\ \/ /\ call[r].kind = "create"
        /\ Exists(who[r])
        /\ isAdmin[r] \/ users[who[r]].create
     \/ /\ call[r].kind \in OfProject
        /\ isAdmin[r] \/ HasRight(who[r], call[r])
  /\ GoTo(r, "act")
  /\ UNCHANGED <<tables, logins, locals, boots>>
  /\ Watch

\* A check that fails, a statement that fails, a form that cannot be read.
Refuse(r) ==
  /\ pc[r] \in {"flag", "right", "act"}
  /\ GoTo(r, "refused")
  /\ UNCHANGED <<tables, logins, locals, boots>>
  /\ Watch

Acts(r, kind) == pc[r] = "act" /\ call[r].kind = kind
KeepsRest ==
  /\ UNCHANGED <<pooled, logins, call, token, who, isAdmin, listed, boots>>
  /\ Watch

-----------------------------------------------------------------------------
(* Projects.                                                               *)

CreateProject(r, p) ==
  /\ Acts(r, "create")
  /\ p \notin born
  /\ projects' = projects \cup {p}
  /\ born' = born \cup {p}
  /\ created' = [created EXCEPT ![r] = p]
  /\ UNCHANGED <<users, perms>>
  /\ GoTo(r, IF isAdmin[r] THEN "ok" ELSE "grant")
  /\ KeepsRest

\* INSERT OR REPLACE of the creator's permission, whose error is ignored.
GrantCreator(r) ==
  LET n == who[r]
      p == created[r] IN
  /\ pc[r] = "grant"
  /\ \/ /\ \E keys \in Enforced : keys => Exists(n) /\ p \in projects
        /\ perms' = [perms EXCEPT ![n][p] = "delete"]
     \/ UNCHANGED perms
  /\ UNCHANGED <<users, projects, born, created>>
  /\ GoTo(r, "ok")
  /\ KeepsRest

\* INSERT OR REPLACE deletes the row that is there and inserts the new one.
EditProject(r) ==
  LET p == call[r].project IN
  /\ Acts(r, "edit")
  /\ p \in projects
  /\ \E keys \in Enforced : perms' = Cascade(p, keys)
  /\ UNCHANGED <<users, projects, born, created>>
  /\ GoTo(r, "ok")
  /\ KeepsRest

DeleteProject(r) ==
  LET p == call[r].project IN
  /\ Acts(r, "remove")
  /\ p \in projects
  /\ projects' = projects \ {p}
  /\ \E keys \in Enforced : perms' = Cascade(p, keys)
  /\ UNCHANGED <<users, born, created>>
  /\ GoTo(r, "ok")
  /\ KeepsRest

\* The start or the stop of a deployment, or an answer about one project.
Deploy(r) ==
  /\ Acts(r, "deploy") \/ Acts(r, "read")
  /\ UNCHANGED <<users, perms, projects, born, created>>
  /\ GoTo(r, "ok")
  /\ KeepsRest

\* The rows of a list are read before the permissions; those of deployments may
\* be of projects that were deleted.
ReadRows(r) ==
  /\ pc[r] = "right"
  /\ call[r].kind = "list"
  /\ \E rows \in {projects, born} : listed' = [listed EXCEPT ![r] = rows]
  /\ GoTo(r, "act")
  /\ UNCHANGED <<tables, logins, call, token, who, isAdmin, created, boots>>
  /\ Watch

\* With a bug: a user without any permission is not looked up.
ListUnfiltered(r) ==
  /\ Acts(r, "list")
  /\ listed' = [listed EXCEPT ![r] =
       IF isAdmin[r] \/ ~HasRows(who[r]) THEN @ ELSE {p \in @ : perms[who[r]][p] # "none"}]
  /\ GoTo(r, "ok")
  /\ UNCHANGED <<tables, logins, call, token, who, isAdmin, created, boots>>
  /\ Watch
List(r) ==
  /\ Acts(r, "list")
  /\ listed' = [listed EXCEPT ![r] =
       IF isAdmin[r] THEN @ ELSE {p \in @ : perms[who[r]][p] # "none"}]
  /\ GoTo(r, "ok")
  /\ UNCHANGED <<tables, logins, call, token, who, isAdmin, created, boots>>
  /\ Watch

-----------------------------------------------------------------------------
(* Users.  A transaction takes effect as a whole or not at all.            *)

CreateUser(r) ==
  LET m    == call[r].name
      form == call[r].form IN
  /\ Acts(r, "adduser")
  /\ ~Exists(m)
  /\ \A p \in Granted(form) : perms[m][p] = "none"
  /\ \E keys \in Enforced : keys => Granted(form) \subseteq projects
  /\ users' = [users EXCEPT ![m] = form.account]
  /\ perms' = [perms EXCEPT ![m] =
       [p \in ProjectIds |-> IF p \in Granted(form) THEN Stored(form)[p] ELSE @[p]]]
  /\ UNCHANGED <<projects, born, created>>
  /\ GoTo(r, "ok")
  /\ KeepsRest

\* The name, the flags and the permissions: the old permissions go first.  The
\* PRAGMA inside the transaction has no effect, so that the key of a user who
\* has permissions cannot change where foreign keys are enforced; of a user who
\* is gone there is no row to update, which is no error.
\* With a bug: the old permissions are not deleted.
Updatable(n, m, form, keys) ==
  /\ m # n => /\ ~Exists(m)
              /\ keys => ~HasRows(n)
              /\ \A p \in ProjectIds : perms[n][p] = "none" \/ perms[m][p] = "none"
  /\ keys /\ Granted(form) # {} => Exists(n) /\ Granted(form) \subseteq projects

Renamed(n, m, account) ==
  IF Exists(n) THEN [users EXCEPT ![n] = NoUser, ![m] = account] ELSE users

UpdateUserKeepsRows(r) ==
  LET n    == call[r].name
      m    == call[r].to
      form == call[r].form
      row  == [p \in ProjectIds |-> IF perms[n][p] # "none" THEN perms[n][p] ELSE perms[m][p]] IN
  /\ Acts(r, "update")
  /\ \E keys \in Enforced : Updatable(n, m, form, keys)
  /\ \A p \in Granted(form) : row[p] = "none"
  /\ users' = Renamed(n, m, form.account)
  /\ perms' = [perms EXCEPT ![n] = NoRights, ![m] =
       [p \in ProjectIds |-> IF p \in Granted(form) THEN Stored(form)[p] ELSE row[p]]]
  /\ UNCHANGED <<projects, born, created>>
  /\ GoTo(r, IF m # n THEN "sessions" ELSE "ok")
  /\ KeepsRest
UpdateUser(r) ==
  LET n    == call[r].name
      m    == call[r].to
      form == call[r].form IN
  /\ Acts(r, "update")
  /\ \E keys \in Enforced : Updatable(n, m, form, keys)
  /\ users' = Renamed(n, m, form.account)
  /\ perms' = [perms EXCEPT ![n] = NoRights, ![m] = Stored(form)]
  /\ UNCHANGED <<projects, born, created>>
  /\ GoTo(r, IF m # n THEN "sessions" ELSE "ok")
  /\ KeepsRest

\* After the commit the sessions follow the new name.
UpdateUsername(r) ==
  /\ pc[r] = "sessions"
  /\ sessions' = [t \in Tokens |-> IF sessions[t] = call[r].name
                                   THEN call[r].to ELSE sessions[t]]
  /\ GoTo(r, "ok")
  /\ UNCHANGED <<tables, issued, locals, boots>>
  /\ Watch

\* Neither oneself, by the name the session has now, nor the default account.
DeleteUser(r) ==
  LET n == call[r].name IN
  /\ Acts(r, "deluser")
  /\ sessions[token[r]] \notin {NoName, n}
  /\ n # DefaultUser
  /\ users' = [users EXCEPT ![n] = NoUser]
  /\ perms' = [perms EXCEPT ![n] = NoRights]
  /\ UNCHANGED <<projects, born, created>>
  /\ GoTo(r, "ok")
  /\ KeepsRest

\* One's own name: the permissions do not follow it.
UpdateSettings(r) ==
  LET n == who[r]
      m == call[r].to IN
  /\ Acts(r, "settings")
  /\ m # n /\ Exists(n) =>
       ~Exists(m) /\ \E keys \in Enforced : keys => ~HasRows(n)
  /\ users' = Renamed(n, m, users[n])
  /\ UNCHANGED <<perms, projects, born, created>>
  /\ GoTo(r, "token")
  /\ KeepsRest

-----------------------------------------------------------------------------
(* Sessions.                                                               *)

\* The password is right; the session comes later.
Login(r, c) ==
  /\ pc[r] = "idle"
  /\ c.kind = "login"
  /\ Exists(c.name)
  /\ call' = [call EXCEPT ![r] = c]
  /\ who' = [who EXCEPT ![r] = c.name]
  /\ GoTo(r, "token")
  /\ UNCHANGED <<tables, logins, token, isAdmin, created, listed, boots>>
  /\ Watch

\* A new token; after a change of the settings it replaces that of the request.
NewSession(r, t) ==
  LET login == call[r].kind = "login" IN
  /\ pc[r] = "token"
  /\ t \notin issued
  /\ issued' = issued \cup {t}
  /\ sessions' = [u \in Tokens |->
       IF u = t THEN (IF login THEN who[r] ELSE call[r].to)
       ELSE IF ~login /\ u = token[r] THEN NoName ELSE sessions[u]]
  /\ GoTo(r, "ok")
  /\ UNCHANGED <<tables, locals, boots>>
  /\ Watch

Logout(r, t, c) ==
  /\ pc[r] = "idle"
  /\ c.kind = "logout"
  /\ call' = [call EXCEPT ![r] = c]
  /\ sessions' = [sessions EXCEPT ![t] = NoName]
  /\ GoTo(r, "ok")
  /\ UNCHANGED <<tables, issued, token, who, isAdmin, created, listed, boots>>
  /\ Watch

-----------------------------------------------------------------------------
(* The pool and the process.                                               *)

\* database/sql opens a second connection when the first one is in use.
GrowPool ==
  /\ ~pooled
  /\ InFlight # {}
  /\ pooled' = TRUE
  /\ UNCHANGED <<users, perms, projects, born, logins, pc, locals, boots>>
  /\ Watch

\* The server dies and starts again: the sessions are gone, the pool has one
\* connection, and InitDB makes the default account when there is no user, or an
\* administrator of it.
Boot ==
  /\ boots < MaxBoots
  /\ boots' = boots + 1
  /\ sessions' = [t \in Tokens |-> NoName]
  /\ pc' = [r \in Requests |-> IF r \in InFlight THEN "lost" ELSE pc[r]]
  /\ users' = IF (\A n \in Names : ~Exists(n)) \/ Exists(DefaultUser)
              THEN [users EXCEPT ![DefaultUser] = [admin |-> TRUE, create |-> TRUE]]
              ELSE users
  /\ pooled' = FALSE
  /\ UNCHANGED <<perms, projects, born, issued, locals>>
  /\ Watch

Serve(r) ==
  \/ \E c \in Calls : Login(r, c)
  \/ \E c \in Calls, t \in issued : Arrive(r, t, c) \/ Logout(r, t, c)
  \/ ReadFlag(r) \/ ReadRight(r) \/ Refuse(r)
  \/ \E p \in ProjectIds : CreateProject(r, p)
  \/ GrantCreator(r) \/ EditProject(r) \/ DeleteProject(r) \/ Deploy(r)
  \/ ReadRows(r) \/ List(r)
  \/ CreateUser(r) \/ UpdateUser(r) \/ UpdateUsername(r) \/ DeleteUser(r)
  \/ UpdateSettings(r)
  \/ \E t \in Tokens : NewSession(r, t)

Next == (\E r \in Requests : Serve(r)) \/ GrowPool \/ Boot

Spec == Init /\ [][Next]_vars

-----------------------------------------------------------------------------

Acted(r) == pc[r] \in {"grant", "sessions", "ok"}
            \/ (pc[r] = "token" /\ call[r].kind = "settings")

\* Flag and permission are read after each other and used later: still, whoever
\* acted has held the right at some moment between the arrival of the request
\* and the action, so that a right which was taken away serves no later request.
ActsByRight ==
  \A r \in Requests : Acted(r) /\ call[r].kind # "logout" => r \in held

\* A list is put together from a flag, rows and permissions that are read one
\* after the other: still, it shows no project for which its caller never had a
\* right while it was served.
ListsByRight ==
  \A r \in Requests : pc[r] = "ok" /\ call[r].kind = "list" => listed[r] \subseteq seen[r]

\* What the last step of a request may make of a permission: "none" for all, with
\* the row of the project; "delete" for its creator; what the form says; "none"
\* for the name that is gone.
Sets(r, n, p, level) ==
  LET c == call[r] IN
  \/ c.kind \in {"edit", "remove"} /\ p = c.project /\ level = "none"
  \/ c.kind = "create" /\ n = who[r] /\ p = created[r] /\ level = "delete"
  \/ c.kind = "adduser" /\ n = c.name /\ level = Stored(c.form)[p]
  \/ c.kind = "update" /\ n = c.to /\ level = Stored(c.form)[p]
  \/ c.kind \in {"update", "deluser"} /\ n = c.name /\ level = "none"

\* A permission changes only in the last step of a request that names it, to what
\* that request says, and only if its caller held the right to do so at some
\* moment since the request arrived, whatever was renamed, deleted or taken away
\* meanwhile and whether or not foreign keys are enforced.
RightsChangeByRight ==
  [][\A n \in Names, p \in ProjectIds : perms'[n][p] # perms[n][p] =>
       \E r \in held : pc'[r] # pc[r] /\ Sets(r, n, p, perms'[n][p])]_vars

-----------------------------------------------------------------------------
(* What the documentation says and the code does not do.                   *)

\* README.md:88 "can edit the project configuration and click Deploy Now": an
\* edit takes nobody's permission for the project away.
EditKeepsPermissions ==
  [][\A r \in Requests : Acts(r, "edit") /\ pc'[r] = "ok" => perms' = perms]_vars
=============================================================================
