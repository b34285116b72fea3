---------------------------- MODULE AccessProofs ----------------------------
(***************************************************************************)
(* What holds of AccessControl for any users, projects, tokens, calls and  *)
(* number of concurrent requests.                                          *)
(***************************************************************************)
EXTENDS AccessControl, TLAPS

LEMMA CallTypes ==
  ASSUME NEW c \in Calls
  PROVE  /\ c.kind \in {"login", "adduser", "update", "deluser"} => c.name \in Names
         /\ c.kind \in {"update", "settings"} => c.to \in Names
         /\ c.kind \in {"adduser", "update"} => c.form \in Form
         /\ c.kind \in OfProject => c.project \in ProjectIds
  BY AccessAssumption DEF Call, OfProject

LEMMA FormTypes ==
  ASSUME NEW form \in Form
  PROVE  /\ Stored(form) \in Rights
         /\ Granted(form) \subseteq ProjectIds
         /\ form.account \in Account
  BY DEF Form, Stored, Granted, Rights, Level

LEMMA NoRightsType == NoRights \in Rights
BY DEF NoRights, Rights

-----------------------------------------------------------------------------
(* Typing.                                                                 *)

\* A request goes on: of its locals only "created" and the results change.
LEMMA Moved ==
  ASSUME RequestsOK, NEW r \in Requests, NEW to \in PC, GoTo(r, to),
         UNCHANGED <<call, token, who>>, pc[r] \in Serving,
         isAdmin' \in [Requests -> BOOLEAN],
         listed' \in [Requests -> SUBSET ProjectIds],
         created' \in [Requests -> ProjectIds \cup {Nothing}],
         \A q \in Requests : q # r => created'[q] = created[q],
         born \subseteq born',
         to = "grant" => created'[r] \in born' /\ call[r].kind = "create",
         to = "sessions" => call[r].kind = "update",
         to = "token" => call[r].kind \in {"login", "settings"}
  PROVE  RequestsOK'
<1>1. pc' \in [Requests -> PC] /\ pc'[r] = to /\ \A q \in Requests : q # r => pc'[q] = pc[q]
  BY DEF GoTo, RequestsOK
<1>2. ASSUME NEW q \in Requests, pc'[q] \in Serving
      PROVE  /\ call'[q] \in Calls
             /\ who'[q] \in Names
             /\ call'[q].kind # "login" => token'[q] \in Tokens
             /\ pc'[q] = "grant" => created'[q] \in born' /\ call'[q].kind = "create"
             /\ pc'[q] = "sessions" => call'[q].kind = "update"
             /\ pc'[q] = "token" => call'[q].kind \in {"login", "settings"}
  <2>1. CASE q = r
    BY <1>1, <2>1 DEF RequestsOK
  <2>2. CASE q # r
    BY <1>1, <1>2, <2>2 DEF RequestsOK
  <2> QED
    BY <2>1, <2>2
<1> QED
  BY <1>1, <1>2 DEF RequestsOK

\* A request begins.
LEMMA Begun ==
  ASSUME RequestsOK, NEW r \in Requests, NEW to \in {"refused", "flag", "token", "ok"}, GoTo(r, to),
         NEW c \in Calls, call' = [call EXCEPT ![r] = c],
         who' \in [Requests -> Names \cup {NoName, Nothing}],
         token' \in [Requests -> Tokens \cup {Nothing}],
         \A q \in Requests : q # r => who'[q] = who[q] /\ token'[q] = token[q],
         UNCHANGED <<isAdmin, created, listed, born>>,
         to \in Serving => who'[r] \in Names /\ (c.kind # "login" => token'[r] \in Tokens),
         to = "token" => c.kind = "login"
  PROVE  RequestsOK'
<1>1. /\ pc' \in [Requests -> PC] /\ pc'[r] = to
      /\ \A q \in Requests : q # r => pc'[q] = pc[q]
  BY DEF GoTo, RequestsOK, PC, Serving
<1>2. /\ call' \in [Requests -> Calls \cup {Nothing}] /\ call'[r] = c
      /\ \A q \in Requests : q # r => call'[q] = call[q]
  BY DEF RequestsOK
<1>3. ASSUME NEW q \in Requests, pc'[q] \in Serving
      PROVE  /\ call'[q] \in Calls
             /\ who'[q] \in Names
             /\ call'[q].kind # "login" => token'[q] \in Tokens
             /\ pc'[q] = "grant" => created'[q] \in born' /\ call'[q].kind = "create"
             /\ pc'[q] = "sessions" => call'[q].kind = "update"
             /\ pc'[q] = "token" => call'[q].kind \in {"login", "settings"}
  <2>1. CASE q = r
    BY <1>1, <1>2, <1>3, <2>1
  <2>2. CASE q # r
    BY <1>1, <1>2, <1>3, <2>2 DEF RequestsOK
  <2> QED
    BY <2>1, <2>2
<1> QED
  BY <1>1, <1>2, <1>3 DEF RequestsOK

\* History that only Watch changes, or that keeps its type.
LEMMA Watched ==
  ASSUME HistoryOK, Watch, boots' \in 0..MaxBoots
  PROVE  HistoryOK'
<1>1. held' \subseteq Requests
  BY DEF HistoryOK, Watch
<1>2. seen' \in [Requests -> SUBSET ProjectIds]
  BY DEF HistoryOK, Watch, Visible
<1> QED
  BY <1>1, <1>2 DEF HistoryOK

LEMMA WatchedOnly ==
  ASSUME HistoryOK, Watch, UNCHANGED boots
  PROVE  HistoryOK'
BY Watched DEF HistoryOK

LEMMA TypeInitial == Init => TypeOK
<1> SUFFICES ASSUME Init PROVE TypeOK
  OBVIOUS
<1>1. TablesOK
  BY AccessAssumption DEF Init, TablesOK
<1>2. SessionsOK
  BY AccessAssumption DEF Init, SessionsOK
<1>3. RequestsOK
  BY DEF Init, RequestsOK, PC, Serving
<1>4. HistoryOK
  BY AccessAssumption DEF Init, HistoryOK
<1> QED
  BY <1>1, <1>2, <1>3, <1>4 DEF TypeOK

\* The last step of a handler, or the one before it, given what it does to the
\* tables.
LEMMA ActionTypes ==
  ASSUME TypeOK, NEW r \in Requests, NEW to \in PC, GoTo(r, to), KeepsRest, pc[r] \in Serving,
         TablesOK', born \subseteq born',
         created' \in [Requests -> ProjectIds \cup {Nothing}],
         \A q \in Requests : q # r => created'[q] = created[q],
         to = "grant" => created'[r] \in born' /\ call[r].kind = "create",
         to = "sessions" => call[r].kind = "update",
         to = "token" => call[r].kind \in {"login", "settings"}
  PROVE  TypeOK'
<1>1. /\ UNCHANGED <<sessions, issued, call, token, who, isAdmin, listed, boots>> /\ Watch
  BY DEF KeepsRest, logins
<1>2. SessionsOK'
  BY <1>1 DEF TypeOK, SessionsOK
<1>3. RequestsOK'
  <2>1. RequestsOK /\ isAdmin' \in [Requests -> BOOLEAN] /\ listed' \in [Requests -> SUBSET ProjectIds]
    BY <1>1 DEF TypeOK, RequestsOK
  <2> QED
    BY <1>1, <2>1, Moved
<1>4. HistoryOK'
  BY <1>1, Watched DEF TypeOK, HistoryOK
<1> QED
  BY <1>2, <1>3, <1>4 DEF TypeOK

\* A step of a handler before that, which touches the request only.
LEMMA CheckTypes ==
  ASSUME TypeOK, NEW r \in Requests, NEW to \in {"right", "act", "refused", "ok"}, GoTo(r, to),
         pc[r] \in Serving, UNCHANGED <<tables, logins, call, token, who, created, boots>>,
         isAdmin' \in [Requests -> BOOLEAN], listed' \in [Requests -> SUBSET ProjectIds], Watch
  PROVE  TypeOK'
<1>1. TablesOK' /\ SessionsOK' /\ born' = born
  BY DEF TypeOK, TablesOK, SessionsOK, tables, logins
<1>2. RequestsOK'
  BY <1>1, Moved DEF TypeOK, RequestsOK, PC, Serving
<1>3. HistoryOK'
  BY WatchedOnly DEF TypeOK
<1> QED
  BY <1>1, <1>2, <1>3 DEF TypeOK

LEMMA CascadeType ==
  ASSUME TablesOK, NEW p \in ProjectIds, NEW keys
  PROVE  Cascade(p, keys) \in [Names -> Rights]
BY DEF TablesOK, Cascade, Rights

LEMMA RenamedType ==
  ASSUME TablesOK, NEW n \in Names, NEW m \in Names, NEW account \in Account \cup {NoUser}
  PROVE  Renamed(n, m, account) \in [Names -> Account \cup {NoUser}]
BY DEF TablesOK, Renamed

LEMMA TypeStep == TypeOK /\ [Next]_vars => TypeOK'
<1> SUFFICES ASSUME TypeOK, [Next]_vars PROVE TypeOK'
  OBVIOUS
<1> USE DEF Acts
<1>0. TablesOK /\ SessionsOK /\ RequestsOK /\ HistoryOK
  BY DEF TypeOK
<1>a. \A r \in Requests : pc[r] \in Serving => call[r] \in Calls /\ who[r] \in Names
  BY <1>0 DEF RequestsOK
<1>b. {"right", "act", "grant", "sessions", "token", "ok", "refused"} \subseteq PC
  BY DEF PC, Serving
<1>1. ASSUME NEW r \in Requests, NEW c \in Calls, Login(r, c) PROVE TypeOK'
  <2>1. /\ TablesOK' /\ SessionsOK' /\ born' = born
    BY <1>0, <1>1 DEF Login, TablesOK, SessionsOK, tables, logins
  <2>2. HistoryOK'
    BY <1>0, <1>1, WatchedOnly DEF Login
  <2>3. c.name \in Names /\ c.kind = "login"
    BY <1>1, CallTypes DEF Login
  <2>4. who' \in [Requests -> Names \cup {NoName, Nothing}] /\ who'[r] = c.name
        /\ \A q \in Requests : q # r => who'[q] = who[q]
    BY <1>0, <1>1, <2>3 DEF Login, RequestsOK
  <2>5. RequestsOK'
    BY <1>0, <1>1, <2>1, <2>3, <2>4, Begun DEF Login, RequestsOK
  <2> QED
    BY <2>1, <2>2, <2>5 DEF TypeOK
<1>2. ASSUME NEW r \in Requests, NEW c \in Calls, NEW t \in issued, Arrive(r, t, c) PROVE TypeOK'
  <2>1. /\ TablesOK' /\ SessionsOK' /\ born' = born
    BY <1>0, <1>2 DEF Arrive, TablesOK, SessionsOK, tables, logins
  <2>2. HistoryOK'
    BY <1>0, <1>2, WatchedOnly DEF Arrive
  <2>3. t \in Tokens /\ sessions[t] \in Names \cup {NoName}
    BY <1>0 DEF SessionsOK
  <2>4. /\ who' \in [Requests -> Names \cup {NoName, Nothing}] /\ who'[r] = sessions[t]
        /\ token' \in [Requests -> Tokens \cup {Nothing}] /\ token'[r] = t
        /\ \A q \in Requests : q # r => who'[q] = who[q] /\ token'[q] = token[q]
    BY <1>0, <1>2, <2>3 DEF Arrive, RequestsOK
  <2>5. CASE sessions[t] = NoName
    <3>1. GoTo(r, "refused")
      BY <1>2, <2>5 DEF Arrive
    <3>2. RequestsOK'
      BY <1>0, <1>2, <2>1, <2>4, <3>1, Begun DEF Arrive, Serving
    <3> QED
      BY <2>1, <2>2, <3>2 DEF TypeOK
  <2>6. CASE sessions[t] # NoName
    <3>1. GoTo(r, "flag")
      BY <1>2, <2>6 DEF Arrive
    <3>2. RequestsOK'
      BY <1>0, <1>2, <2>1, <2>3, <2>4, <2>6, <3>1, Begun DEF Arrive
    <3> QED
      BY <2>1, <2>2, <3>2 DEF TypeOK
  <2> QED
    BY <2>5, <2>6
<1>3. ASSUME NEW r \in Requests, NEW c \in Calls, NEW t \in issued, Logout(r, t, c) PROVE TypeOK'
  <2>1. TablesOK' /\ born' = born
    BY <1>0, <1>3 DEF Logout, TablesOK, tables
  <2>2. SessionsOK'
    BY <1>0, <1>3 DEF Logout, SessionsOK
  <2>3. HistoryOK'
    BY <1>0, <1>3, WatchedOnly DEF Logout
  <2>4. RequestsOK'
    BY <1>0, <1>3, <2>1, Begun DEF Logout, RequestsOK, Serving
  <2> QED
    BY <2>1, <2>2, <2>3, <2>4 DEF TypeOK
<1>4. ASSUME NEW r \in Requests, ReadFlag(r) PROVE TypeOK'
  <2>1. /\ pc[r] \in Serving /\ (GoTo(r, "act") \/ GoTo(r, "right")) /\ Watch
        /\ UNCHANGED <<tables, logins, call, token, who, created, listed, boots>>
    BY <1>4 DEF ReadFlag, Serving
  <2>2. listed' \in [Requests -> SUBSET ProjectIds]
    BY <1>0, <2>1 DEF RequestsOK
  <2>3. Admin(who[r]) \in BOOLEAN
    BY <1>0, AccessAssumption DEF TablesOK, Admin, Exists, Account
  <2>4. isAdmin' \in [Requests -> BOOLEAN]
    BY <1>0, <1>4, <2>3 DEF ReadFlag, RequestsOK
  <2> QED
    BY <2>1, <2>2, <2>4, CheckTypes
<1>5. ASSUME NEW r \in Requests, ReadRight(r) \/ Refuse(r) PROVE TypeOK'
  <2>1. /\ pc[r] \in Serving /\ (GoTo(r, "act") \/ GoTo(r, "refused")) /\ Watch
        /\ UNCHANGED <<tables, logins, locals, boots>>
    BY <1>5 DEF ReadRight, Refuse, Serving
  <2>2. isAdmin' \in [Requests -> BOOLEAN] /\ listed' \in [Requests -> SUBSET ProjectIds]
    BY <1>0, <2>1 DEF RequestsOK, locals
  <2> QED
    BY <2>1, <2>2, CheckTypes DEF locals
<1>6. ASSUME NEW r \in Requests, ReadRows(r) \/ List(r) PROVE TypeOK'
  <2>1. /\ pc[r] \in Serving /\ (GoTo(r, "act") \/ GoTo(r, "ok")) /\ Watch
        /\ UNCHANGED <<tables, logins, call, token, who, isAdmin, created, boots>>
    BY <1>6 DEF ReadRows, List, Serving
  <2>2. projects \subseteq ProjectIds /\ born \subseteq ProjectIds
    BY <1>0 DEF TablesOK
  <2>3. isAdmin' \in [Requests -> BOOLEAN] /\ listed' \in [Requests -> SUBSET ProjectIds]
    BY <1>0, <1>6, <2>1, <2>2 DEF RequestsOK, ReadRows, List
  <2> QED
    BY <2>1, <2>3, CheckTypes
<1>7. ASSUME NEW r \in Requests, NEW p \in ProjectIds, CreateProject(r, p) PROVE TypeOK'
  <2>1. TablesOK' /\ born \subseteq born'
    BY <1>0, <1>7 DEF CreateProject, KeepsRest, TablesOK
  <2>2. /\ created' \in [Requests -> ProjectIds \cup {Nothing}] /\ created'[r] \in born'
        /\ \A q \in Requests : q # r => created'[q] = created[q]
    BY <1>0, <1>7 DEF CreateProject, RequestsOK
  <2>3. pc[r] \in Serving /\ KeepsRest /\ (GoTo(r, "ok") \/ GoTo(r, "grant")) /\ call[r].kind = "create"
    BY <1>7 DEF CreateProject, Serving
  <2> QED
    BY <1>b, <2>1, <2>2, <2>3, ActionTypes
<1>8. ASSUME NEW r \in Requests, GrantCreator(r) PROVE TypeOK'
  <2>1. pc[r] = "grant" /\ pc[r] \in Serving /\ KeepsRest /\ GoTo(r, "ok") /\ UNCHANGED <<projects, born, created>>
    BY <1>8 DEF GrantCreator, Serving
  <2>2. who[r] \in Names /\ created[r] \in ProjectIds
    BY <1>0, <2>1 DEF RequestsOK, TablesOK
  <2>3. TablesOK'
    BY <1>0, <1>8, <2>2 DEF GrantCreator, KeepsRest, TablesOK, Rights, Level
  <2> QED
    BY <1>0, <1>b, <2>1, <2>3, ActionTypes DEF RequestsOK
<1>9. ASSUME NEW r \in Requests, EditProject(r) \/ DeleteProject(r) PROVE TypeOK'
  <2>1. pc[r] \in Serving /\ KeepsRest /\ GoTo(r, "ok") /\ UNCHANGED <<users, born, created>>
    BY <1>9 DEF EditProject, DeleteProject, Serving
  <2>2. perms' \in [Names -> Rights]
    <3>1. PICK keys : perms' = Cascade(call[r].project, keys)
      BY <1>9 DEF EditProject, DeleteProject
    <3>2. call[r].project \in ProjectIds
      BY <1>a, <1>9, CallTypes DEF EditProject, DeleteProject, OfProject, Serving
    <3> QED
      BY <1>0, <3>1, <3>2, CascadeType
  <2>3. projects' \subseteq projects
    BY <1>9 DEF EditProject, DeleteProject
  <2>4. TablesOK'
    BY <1>0, <2>1, <2>2, <2>3 DEF KeepsRest, TablesOK
  <2> QED
    BY <1>0, <1>b, <2>1, <2>4, ActionTypes DEF RequestsOK
<1>10. ASSUME NEW r \in Requests, Deploy(r) PROVE TypeOK'
  <2>1. /\ pc[r] \in Serving /\ KeepsRest /\ GoTo(r, "ok")
        /\ UNCHANGED <<users, perms, projects, born, created>>
    BY <1>10 DEF Deploy, Serving
  <2>2. TablesOK'
    BY <1>0, <2>1 DEF KeepsRest, TablesOK
  <2> QED
    BY <1>0, <1>b, <2>1, <2>2, ActionTypes DEF RequestsOK
<1>11. ASSUME NEW r \in Requests, CreateUser(r) \/ UpdateUser(r) \/ DeleteUser(r) PROVE TypeOK'
  <2>1. /\ pc[r] \in Serving /\ KeepsRest /\ UNCHANGED <<projects, born, created>>
        /\ call[r].kind \in {"adduser", "update", "deluser"}
        /\ GoTo(r, "ok") \/ (GoTo(r, "sessions") /\ call[r].kind = "update")
    BY <1>11 DEF CreateUser, UpdateUser, DeleteUser, Serving
  <2>2. /\ call[r].name \in Names
        /\ call[r].kind = "update" => call[r].to \in Names
        /\ call[r].kind \in {"adduser", "update"} => call[r].form \in Form
    BY <1>a, <2>1, CallTypes
  <2>3. users' \in [Names -> Account \cup {NoUser}]
    <3>1. CASE CreateUser(r)
      BY <1>0, <2>2, <3>1, FormTypes DEF CreateUser, TablesOK
    <3>2. CASE UpdateUser(r)
      <4>1. call[r].form.account \in Account /\ call[r].to \in Names
        BY <2>2, <3>2, FormTypes DEF UpdateUser
      <4> QED
        BY <1>0, <2>2, <3>2, <4>1, RenamedType DEF UpdateUser
    <3>3. CASE DeleteUser(r)
      BY <1>0, <3>3 DEF DeleteUser, TablesOK
    <3> QED
      BY <1>11, <3>1, <3>2, <3>3
  <2>4. perms' \in [Names -> Rights]
    <3>1. CASE CreateUser(r)
      BY <1>0, <2>2, <3>1, FormTypes DEF CreateUser, TablesOK, Rights
    <3>2. CASE UpdateUser(r) \/ DeleteUser(r)
      BY <1>0, <2>2, <3>2, FormTypes, NoRightsType DEF UpdateUser, DeleteUser, TablesOK
    <3> QED
      BY <1>11, <3>1, <3>2
  <2>5. TablesOK'
    BY <1>0, <2>1, <2>3, <2>4 DEF KeepsRest, TablesOK
  <2> QED
    BY <1>0, <1>b, <2>1, <2>5, ActionTypes DEF RequestsOK
<1>12. ASSUME NEW r \in Requests, UpdateSettings(r) PROVE TypeOK'
  <2>1. /\ pc[r] \in Serving /\ KeepsRest /\ GoTo(r, "token") /\ call[r].kind = "settings"
        /\ UNCHANGED <<perms, projects, born, created>>
        /\ users' = Renamed(who[r], call[r].to, users[who[r]])
    BY <1>12 DEF UpdateSettings, Serving
  <2>2. call[r].to \in Names /\ who[r] \in Names /\ users[who[r]] \in Account \cup {NoUser}
    BY <1>0, <1>a, <2>1, CallTypes DEF TablesOK
  <2>3. TablesOK'
    BY <1>0, <2>1, <2>2, RenamedType DEF KeepsRest, TablesOK
  <2> QED
    BY <1>0, <1>b, <2>1, <2>3, ActionTypes DEF RequestsOK
<1>13. ASSUME NEW r \in Requests, UpdateUsername(r) PROVE TypeOK'
  <2>1. /\ pc[r] = "sessions" /\ GoTo(r, "ok") /\ Watch
        /\ UNCHANGED <<tables, issued, locals, boots>>
    BY <1>13 DEF UpdateUsername
  <2>2. call[r].to \in Names /\ call[r].name \in Names
    BY <1>0, <2>1, CallTypes DEF RequestsOK, Serving
  <2>3. SessionsOK'
    BY <1>0, <1>13, <2>2, AccessAssumption DEF UpdateUsername, SessionsOK
  <2>4. TablesOK' /\ born' = born
    BY <1>0, <2>1 DEF tables, TablesOK
  <2>5. RequestsOK'
    BY <1>0, <1>b, <2>1, <2>4, Moved DEF RequestsOK, locals, Serving
  <2>6. HistoryOK'
    BY <1>0, <2>1, WatchedOnly
  <2> QED
    BY <2>3, <2>4, <2>5, <2>6 DEF TypeOK
<1>14. ASSUME NEW r \in Requests, NEW t \in Tokens, NewSession(r, t) PROVE TypeOK'
  <2>1. /\ pc[r] = "token" /\ GoTo(r, "ok") /\ Watch
        /\ UNCHANGED <<tables, locals, boots>>
    BY <1>14 DEF NewSession
  <2>2. who[r] \in Names /\ (call[r].kind # "login" => call[r].to \in Names)
    BY <1>0, <2>1, CallTypes DEF RequestsOK, Serving
  <2>3. SessionsOK'
    <3>1. issued' = issued \cup {t} /\ issued' \subseteq Tokens
      BY <1>0, <1>14 DEF NewSession, SessionsOK
    <3>2. PICK name \in Names : sessions' = [u \in Tokens |->
            IF u = t THEN name
            ELSE IF call[r].kind # "login" /\ u = token[r] THEN NoName ELSE sessions[u]]
      BY <1>14, <2>2 DEF NewSession
    <3> QED
      BY <1>0, <3>1, <3>2 DEF SessionsOK
  <2>4. TablesOK' /\ born' = born
    BY <1>0, <2>1 DEF tables, TablesOK
  <2>5. RequestsOK'
    BY <1>0, <1>b, <2>1, <2>4, Moved DEF RequestsOK, locals, Serving
  <2>6. HistoryOK'
    BY <1>0, <2>1, WatchedOnly
  <2> QED
    BY <2>3, <2>4, <2>5, <2>6 DEF TypeOK
<1>15. CASE GrowPool
  <2>1. TablesOK' /\ SessionsOK'
    BY <1>0, <1>15 DEF GrowPool, TablesOK, SessionsOK, logins
  <2>2. RequestsOK'
    BY <1>0, <1>15 DEF GrowPool, RequestsOK, locals
  <2>3. HistoryOK'
    BY <1>0, <1>15, WatchedOnly DEF GrowPool
  <2> QED
    BY <2>1, <2>2, <2>3 DEF TypeOK
<1>16. CASE Boot
  <2>1. users' \in [Names -> Account \cup {NoUser}]
    BY <1>0, <1>16, AccessAssumption DEF Boot, TablesOK, Account
  <2>2. TablesOK'
    BY <1>0, <1>16, <2>1 DEF Boot, TablesOK
  <2>3. SessionsOK'
    BY <1>0, <1>16 DEF Boot, SessionsOK
  <2>4. RequestsOK'
    BY <1>0, <1>16 DEF Boot, RequestsOK, locals, InFlight, PC, Serving
  <2>5. boots' \in 0..MaxBoots
    BY <1>0, <1>16, AccessAssumption DEF Boot, HistoryOK
  <2>6. HistoryOK'
    BY <1>0, <1>16, <2>5, Watched DEF Boot
  <2> QED
    BY <2>2, <2>3, <2>4, <2>6 DEF TypeOK
<1>17. CASE UNCHANGED vars
  BY <1>0, <1>17 DEF vars, tables, logins, locals, TypeOK, TablesOK, SessionsOK, RequestsOK, HistoryOK
<1> QED
  BY <1>1, <1>2, <1>3, <1>4, <1>5, <1>6, <1>7, <1>8, <1>9, <1>10, <1>11, <1>12, <1>13, <1>14,
     <1>15, <1>16, <1>17 DEF Next, Serve

\* Every reachable state of tables, sessions and requests is well typed.
THEOREM TypeCorrect == Spec => []TypeOK
BY TypeInitial, TypeStep, PTL DEF Spec

-----------------------------------------------------------------------------
(* Who acts.                                                               *)

\* The flag is true only of somebody who was entitled when it was read, and so was
\* whoever has passed the checks.
Entitled ==
  \A r \in Requests :
    /\ isAdmin[r] => pc[r] # "idle" /\ r \in held
    /\ pc[r] \in {"act", "grant", "sessions", "token", "ok"} /\ call[r].kind # "logout" => r \in held

\* What a list has or will show is covered by what its caller was seen to hold.
Overseen ==
  \A r \in Requests : pc[r] # "idle" /\ call[r].kind = "list" =>
    /\ isAdmin[r] => seen[r] = ProjectIds
    /\ pc[r] \in Serving => Visible(who[r]) \subseteq seen[r]
    /\ pc[r] = "ok" => listed[r] \subseteq seen[r]

AInv == TypeOK /\ Entitled /\ Overseen

LEMMA AInitial == Init => AInv
<1> SUFFICES ASSUME Init PROVE AInv
  OBVIOUS
<1>1. Entitled /\ Overseen
  BY DEF Init, Entitled, Overseen
<1> QED
  BY TypeInitial, <1>1 DEF AInv

\* A request that does not move, or is lost, stays as it was, whoever else moves.
LEMMA GoesOn ==
  ASSUME AInv, Watch, NEW q \in Requests,
         pc'[q] = pc[q] \/ (pc'[q] = "lost" /\ pc[q] # "idle"),
         call'[q] = call[q], isAdmin'[q] = isAdmin[q], listed'[q] = listed[q]
  PROVE  /\ isAdmin'[q] => pc'[q] # "idle" /\ q \in held'
         /\ pc'[q] \in {"act", "grant", "sessions", "token", "ok"} /\ call'[q].kind # "logout" => q \in held'
         /\ pc'[q] # "idle" /\ call'[q].kind = "list" =>
              /\ isAdmin'[q] => seen'[q] = ProjectIds
              /\ pc'[q] = "ok" => listed'[q] \subseteq seen'[q]
<1>1. held \subseteq held' /\ seen[q] \subseteq seen'[q]
  BY DEF Watch
<1>2. seen[q] \subseteq ProjectIds /\ Visible(who[q])' \subseteq ProjectIds
  BY DEF AInv, TypeOK, HistoryOK, Visible
<1>3. seen'[q] \subseteq seen[q] \cup Visible(who[q])'
  BY DEF Watch
<1>4. /\ isAdmin'[q] => pc'[q] # "idle" /\ q \in held'
      /\ pc'[q] \in {"act", "grant", "sessions", "token", "ok"} /\ call'[q].kind # "logout" => q \in held'
  BY <1>1 DEF AInv, Entitled
<1>5. ASSUME pc'[q] # "idle", call'[q].kind = "list"
      PROVE  /\ isAdmin'[q] => seen'[q] = ProjectIds
             /\ pc'[q] = "ok" => listed'[q] \subseteq seen'[q]
  <2>1. /\ isAdmin[q] => seen[q] = ProjectIds
        /\ pc[q] = "ok" => listed[q] \subseteq seen[q]
    BY <1>5 DEF AInv, Overseen
  <2> QED
    BY <1>1, <1>2, <1>3, <2>1
<1> QED
  BY <1>4, <1>5

\* Watch sees what a list that is being served may show.
LEMMA WatchSees ==
  ASSUME Watch, NEW q \in Requests, pc'[q] \in Serving, call'[q].kind = "list"
  PROVE  Visible(who[q])' \subseteq seen'[q]
BY DEF Watch, Listing

\* The step of one request, seen from the others and from itself.
LEMMA OthersGoOn ==
  ASSUME AInv, Watch, NEW r \in Requests,
         \A q \in Requests : q # r =>
           pc'[q] = pc[q] /\ call'[q] = call[q] /\ isAdmin'[q] = isAdmin[q] /\ listed'[q] = listed[q],
         isAdmin'[r] => pc'[r] # "idle" /\ r \in held',
         pc'[r] \in {"act", "grant", "sessions", "token", "ok"} /\ call'[r].kind # "logout" => r \in held',
         pc'[r] # "idle" /\ call'[r].kind = "list" =>
           /\ isAdmin'[r] => seen'[r] = ProjectIds
           /\ pc'[r] = "ok" => listed'[r] \subseteq seen'[r]
  PROVE  Entitled' /\ Overseen'
<1>1. ASSUME NEW q \in Requests
      PROVE  /\ isAdmin'[q] => pc'[q] # "idle" /\ q \in held'
             /\ pc'[q] \in {"act", "grant", "sessions", "token", "ok"} /\ call'[q].kind # "logout" => q \in held'
             /\ pc'[q] # "idle" /\ call'[q].kind = "list" =>
                  /\ isAdmin'[q] => seen'[q] = ProjectIds
                  /\ pc'[q] = "ok" => listed'[q] \subseteq seen'[q]
  <2>1. CASE q = r
    BY <2>1
  <2>2. CASE q # r
    BY <2>2, GoesOn
  <2> QED
    BY <2>1, <2>2
<1> QED
  BY <1>1, WatchSees DEF Entitled, Overseen

LEMMA AStep == AInv /\ [Next]_vars => AInv'
<1> SUFFICES ASSUME AInv, [Next]_vars PROVE Entitled' /\ Overseen'
  BY TypeStep DEF AInv
<1> USE DEF Acts
<1>0. TypeOK /\ RequestsOK /\ HistoryOK /\ Entitled /\ Overseen
  BY DEF AInv, TypeOK
<1>a. Watch => /\ held \subseteq held'
               /\ \A q \in Requests : pc'[q] \in Serving /\ May(q)' => q \in held'
  BY DEF Watch
<1>1. ASSUME NEW r \in Requests, NEW c \in Calls, Login(r, c) PROVE Entitled' /\ Overseen'
  <2>1. /\ pc[r] = "idle" /\ pc' = [pc EXCEPT ![r] = "token"] /\ call' = [call EXCEPT ![r] = c]
        /\ who' = [who EXCEPT ![r] = c.name] /\ UNCHANGED <<users, isAdmin, listed>> /\ Watch
        /\ c.kind = "login" /\ Exists(c.name)
    BY <1>1 DEF Login, GoTo, tables
  <2>2. ~isAdmin[r]
    BY <1>0, <2>1 DEF Entitled
  <2>3. pc'[r] = "token" /\ call'[r] = c /\ who'[r] = c.name
    BY <1>0, <2>1 DEF RequestsOK
  <2>4. May(r)'
    BY <2>1, <2>3 DEF May, Exists, AdminOnly, OfProject
  <2>5. r \in held'
    BY <1>a, <2>1, <2>3, <2>4 DEF Serving
  <2> QED
    BY <1>0, <2>1, <2>2, <2>3, <2>5, OthersGoOn DEF RequestsOK
<1>2. ASSUME NEW r \in Requests, NEW c \in Calls, NEW t \in issued, Arrive(r, t, c) \/ Logout(r, t, c)
      PROVE  Entitled' /\ Overseen'
  <2>1. /\ pc[r] = "idle" /\ call' = [call EXCEPT ![r] = c] /\ UNCHANGED <<isAdmin, listed>> /\ Watch
        /\ \/ pc' = [pc EXCEPT ![r] = "refused"]
           \/ pc' = [pc EXCEPT ![r] = "flag"]
           \/ pc' = [pc EXCEPT ![r] = "ok"] /\ c.kind = "logout"
    BY <1>2 DEF Arrive, Logout, GoTo
  <2>2. ~isAdmin[r]
    BY <1>0, <2>1 DEF Entitled
  <2>3. call'[r] = c /\ (pc'[r] \in {"refused", "flag"} \/ (pc'[r] = "ok" /\ c.kind = "logout"))
    BY <1>0, <2>1 DEF RequestsOK
  <2> QED
    BY <1>0, <2>1, <2>2, <2>3, OthersGoOn DEF RequestsOK
<1>3. ASSUME NEW r \in Requests, ReadFlag(r) PROVE Entitled' /\ Overseen'
  <2>1. /\ pc[r] = "flag" /\ UNCHANGED <<users, call, who, listed>> /\ Watch
        /\ pc' = [pc EXCEPT ![r] = "act"] \/ pc' = [pc EXCEPT ![r] = "right"]
    BY <1>3 DEF ReadFlag, GoTo, tables
  <2>2. pc'[r] \in {"act", "right"} /\ pc'[r] \in Serving
    BY <1>0, <2>1 DEF RequestsOK, Serving
  <2>3. CASE /\ call[r].kind \in AdminOnly /\ Admin(who[r])
             /\ pc' = [pc EXCEPT ![r] = "act"] /\ UNCHANGED isAdmin
    <3>1. May(r)'
      BY <2>1, <2>3 DEF May, Admin, Exists, AdminOnly, OfProject
    <3>2. r \in held' /\ call[r].kind # "list"
      BY <1>a, <2>1, <2>2, <2>3, <3>1 DEF AdminOnly
    <3> QED
      BY <1>0, <2>1, <2>2, <2>3, <3>2, OthersGoOn DEF RequestsOK
  <2>4. CASE /\ call[r].kind = "settings" /\ Exists(who[r])
             /\ pc' = [pc EXCEPT ![r] = "act"] /\ UNCHANGED isAdmin
    <3>1. May(r)'
      BY <2>1, <2>4 DEF May, Exists, AdminOnly, OfProject
    <3>2. r \in held'
      BY <1>a, <2>1, <2>2, <3>1
    <3> QED
      BY <1>0, <2>1, <2>2, <2>4, <3>2, OthersGoOn DEF RequestsOK
  <2>5. ASSUME call[r].kind \in OfProject \cup {"create", "list"},
               NEW flag \in {Admin(who[r]), FALSE}, isAdmin' = [isAdmin EXCEPT ![r] = flag],
               pc' = [pc EXCEPT ![r] = "right"]
        PROVE  Entitled' /\ Overseen'
    <3>1. isAdmin'[r] = flag /\ (isAdmin'[r] => Admin(who[r]))
      BY <1>0, <2>5 DEF RequestsOK
    <3>2. isAdmin'[r] => May(r)'
      BY <2>1, <2>5, <3>1 DEF May, Admin, Exists, AdminOnly, OfProject
    <3>3. isAdmin'[r] => r \in held'
      BY <1>a, <2>1, <2>2, <3>2
    <3>4. isAdmin'[r] => Visible(who[r])' = ProjectIds
      BY <2>1, <3>1 DEF Visible, Admin, Exists
    <3>5. call'[r].kind = "list" => seen'[r] = seen[r] \cup Visible(who[r])'
      BY <2>1, <2>2 DEF Watch, Listing
    <3>6. isAdmin'[r] /\ call'[r].kind = "list" => seen'[r] = ProjectIds
      BY <1>0, <3>4, <3>5 DEF HistoryOK
    <3>7. pc'[r] = "right"
      BY <1>0, <2>5 DEF RequestsOK
    <3> QED
      BY <1>0, <2>1, <2>5, <3>3, <3>6, <3>7, OthersGoOn DEF RequestsOK
  <2> QED
    BY <1>3, <2>3, <2>4, <2>5 DEF ReadFlag, GoTo
<1>4. ASSUME NEW r \in Requests, ReadRight(r) PROVE Entitled' /\ Overseen'
  <2>1. /\ pc[r] = "right" /\ UNCHANGED <<users, perms, call, who, isAdmin, listed>> /\ Watch
        /\ pc' = [pc EXCEPT ![r] = "act"]
    BY <1>4 DEF ReadRight, GoTo, tables, locals
  <2>2. pc'[r] = "act" /\ pc'[r] \in Serving
    BY <1>0, <2>1 DEF RequestsOK, Serving
  <2>3. isAdmin[r] \/ May(r)'
    BY <1>4, <2>1 DEF ReadRight, May, Admin, Exists, HasRight, AdminOnly, OfProject
  <2>4. r \in held'
    BY <1>0, <1>a, <2>1, <2>2, <2>3 DEF Entitled
  <2>5. call'[r].kind # "list"
    BY <1>4, <2>1 DEF ReadRight, OfProject
  <2> QED
    BY <1>0, <2>1, <2>2, <2>4, <2>5, OthersGoOn DEF RequestsOK
<1>5. ASSUME NEW r \in Requests, ReadRows(r) PROVE Entitled' /\ Overseen'
  <2>1. /\ pc[r] = "right" /\ UNCHANGED <<call, who, isAdmin>> /\ Watch /\ call[r].kind = "list"
        /\ pc' = [pc EXCEPT ![r] = "act"] /\ \E rows : listed' = [listed EXCEPT ![r] = rows]
    BY <1>5 DEF ReadRows, GoTo
  <2>2. pc'[r] = "act" /\ pc'[r] \in Serving
    BY <1>0, <2>1 DEF RequestsOK, Serving
  <2>3. May(r)'
    BY <2>1 DEF May, AdminOnly, OfProject
  <2>4. r \in held'
    BY <1>a, <2>1, <2>2, <2>3
  <2>5. isAdmin[r] => seen'[r] = ProjectIds
    <3>1. seen'[r] = seen[r] \cup Visible(who[r])' /\ Visible(who[r])' \subseteq ProjectIds
      BY <2>1, <2>2 DEF Watch, Listing, Visible
    <3>2. isAdmin[r] => seen[r] = ProjectIds
      BY <1>0, <2>1 DEF Overseen
    <3> QED
      BY <3>1, <3>2
  <2> QED
    BY <1>0, <2>1, <2>2, <2>4, <2>5, OthersGoOn DEF RequestsOK
<1>6. ASSUME NEW r \in Requests, List(r) PROVE Entitled' /\ Overseen'
  <2>1. /\ pc[r] = "act" /\ UNCHANGED <<call, who, isAdmin>> /\ Watch /\ call[r].kind = "list"
        /\ pc' = [pc EXCEPT ![r] = "ok"]
        /\ listed' = [listed EXCEPT ![r] =
             IF isAdmin[r] THEN @ ELSE {p \in @ : perms[who[r]][p] # "none"}]
    BY <1>6 DEF List, GoTo
  <2>2. pc'[r] = "ok" /\ listed[r] \subseteq ProjectIds /\ who[r] \in Names
        /\ listed'[r] = IF isAdmin[r] THEN listed[r] ELSE {p \in listed[r] : perms[who[r]][p] # "none"}
    BY <1>0, <2>1 DEF RequestsOK, Serving
  <2>3. seen'[r] = seen[r] /\ r \in held'
    BY <1>0, <1>a, <2>1, <2>2 DEF Watch, Listing, Serving, Entitled
  <2>4. /\ isAdmin[r] => seen[r] = ProjectIds
        /\ Visible(who[r]) \subseteq seen[r]
    BY <1>0, <2>1 DEF Overseen, Serving
  <2>5. listed'[r] \subseteq seen'[r]
    BY <2>2, <2>3, <2>4 DEF Visible
  <2> QED
    BY <1>0, <2>1, <2>2, <2>3, <2>4, <2>5, OthersGoOn DEF RequestsOK
<1>7. ASSUME NEW r \in Requests, Refuse(r) PROVE Entitled' /\ Overseen'
  <2>1. /\ pc[r] # "idle" /\ UNCHANGED <<call, isAdmin, listed>> /\ Watch
        /\ pc' = [pc EXCEPT ![r] = "refused"]
    BY <1>7 DEF Refuse, GoTo, locals
  <2>2. pc'[r] = "refused" /\ (isAdmin[r] => r \in held')
    BY <1>0, <1>a, <2>1 DEF RequestsOK, Entitled
  <2>3. seen'[r] = seen[r] /\ (call[r].kind = "list" /\ isAdmin[r] => seen[r] = ProjectIds)
    BY <1>0, <2>1, <2>2 DEF Watch, Listing, Serving, Overseen
  <2> QED
    BY <1>0, <2>1, <2>2, <2>3, OthersGoOn DEF RequestsOK
<1>8. ASSUME NEW r \in Requests,
             \/ \E p \in ProjectIds : CreateProject(r, p)
             \/ GrantCreator(r) \/ EditProject(r) \/ DeleteProject(r) \/ Deploy(r)
             \/ CreateUser(r) \/ UpdateUser(r) \/ UpdateUsername(r) \/ DeleteUser(r) \/ UpdateSettings(r)
             \/ \E t \in Tokens : NewSession(r, t)
      PROVE  Entitled' /\ Overseen'
  <2>1. /\ pc[r] \in {"act", "grant", "sessions", "token"} /\ UNCHANGED <<call, isAdmin, listed>> /\ Watch
        /\ \E to \in {"ok", "grant", "sessions", "token"} : pc' = [pc EXCEPT ![r] = to]
    BY <1>8 DEF CreateProject, GrantCreator, EditProject, DeleteProject, Deploy, CreateUser, UpdateUser,
       UpdateUsername, DeleteUser, UpdateSettings, NewSession, KeepsRest, GoTo, locals
  <2>2. call[r].kind # "list"
    <3>1. call[r] \in Calls /\ (pc[r] = "sessions" => call[r].kind = "update")
          /\ (pc[r] = "token" => call[r].kind \in {"login", "settings"})
          /\ (pc[r] = "grant" => call[r].kind = "create")
      BY <1>0, <2>1 DEF RequestsOK, Serving
    <3> QED
      BY <1>8, <3>1 DEF CreateProject, GrantCreator, EditProject, DeleteProject, Deploy, CreateUser,
         UpdateUser, UpdateUsername, DeleteUser, UpdateSettings, NewSession
  <2>3. pc'[r] \in {"ok", "grant", "sessions", "token"}
    BY <1>0, <2>1 DEF RequestsOK
  <2>4. call[r].kind # "logout" => r \in held'
    BY <1>0, <1>a, <2>1 DEF Entitled
  <2>5. isAdmin[r] => r \in held'
    BY <1>0, <1>a, <2>1 DEF Entitled
  <2> QED
    BY <1>0, <2>1, <2>2, <2>3, <2>4, <2>5, OthersGoOn DEF RequestsOK
<1>9. CASE GrowPool \/ Boot
  <2>1. Watch
    BY <1>9 DEF GrowPool, Boot
  <2>2. UNCHANGED <<call, isAdmin, listed>>
    BY <1>9 DEF GrowPool, Boot, locals
  <2>3. \A q \in Requests : pc'[q] = pc[q] \/ (pc'[q] = "lost" /\ pc[q] # "idle")
    BY <1>9 DEF GrowPool, Boot, InFlight, Serving
  <2>4. ASSUME NEW q \in Requests
        PROVE  /\ isAdmin'[q] => pc'[q] # "idle" /\ q \in held'
               /\ pc'[q] \in {"act", "grant", "sessions", "token", "ok"} /\ call'[q].kind # "logout" => q \in held'
               /\ pc'[q] # "idle" /\ call'[q].kind = "list" =>
                    /\ isAdmin'[q] => seen'[q] = ProjectIds
                    /\ pc'[q] = "ok" => listed'[q] \subseteq seen'[q]
    BY <2>1, <2>2, <2>3, GoesOn
  <2> QED
    BY <2>1, <2>4, WatchSees DEF Entitled, Overseen
<1>10. CASE UNCHANGED vars
  BY <1>0, <1>10 DEF vars, tables, logins, locals, Entitled, Overseen, Visible, Admin, Exists
<1> QED
  BY <1>1, <1>2, <1>3, <1>4, <1>5, <1>6, <1>7, <1>8, <1>9, <1>10 DEF Next, Serve

\* Whoever acted has held the right at some moment while the request was served,
\* whatever was taken away, renamed or deleted meanwhile.
THEOREM OnlyByRight == Spec => []ActsByRight
<1>1. AInv => ActsByRight
  BY DEF AInv, Entitled, ActsByRight, Acted
<1> QED
  BY AInitial, AStep, <1>1, PTL DEF Spec

\* No list shows a project for which its caller held no right while it was served.
THEOREM ListsOnlyByRight == Spec => []ListsByRight
<1>1. AInv => ListsByRight
  BY DEF AInv, Overseen, ListsByRight
<1> QED
  BY AInitial, AStep, <1>1, PTL DEF Spec

-----------------------------------------------------------------------------
(* What becomes of the permissions.                                        *)

RightsStep ==
  \A n \in Names, p \in ProjectIds : perms'[n][p] # perms[n][p] =>
    \E r \in held : pc'[r] # pc[r] /\ Sets(r, n, p, perms'[n][p])

LEMMA RightsNext == AInv /\ [Next]_vars => RightsStep
<1> SUFFICES ASSUME AInv, [Next]_vars PROVE RightsStep
  OBVIOUS
<1> USE DEF Acts
<1>0. TablesOK /\ RequestsOK /\ Entitled
  BY DEF AInv, TypeOK
<1>a. \A r \in Requests : pc[r] \in Serving => call[r] \in Calls /\ who[r] \in Names
  BY <1>0 DEF RequestsOK
<1>b. perms \in [Names -> Rights] /\ \A f \in Rights : f \in [ProjectIds -> Level \cup {"none"}]
  BY <1>0 DEF TablesOK, Rights
\* Whoever writes the table has passed the checks, and moves on.
<1>c. ASSUME NEW r \in Requests, NEW to \in {"ok", "sessions"}, GoTo(r, to),
             \/ pc[r] = "act" /\ call[r].kind \in {"edit", "remove", "adduser", "update", "deluser"}
             \/ pc[r] = "grant"
      PROVE  r \in held /\ pc'[r] # pc[r]
  <2>1. pc[r] = "grant" => call[r].kind = "create"
    BY <1>0 DEF RequestsOK, Serving
  <2> QED
    BY <1>0, <1>c, <2>1 DEF GoTo, RequestsOK, Entitled
<1>1. ASSUME UNCHANGED perms PROVE RightsStep
  BY <1>1 DEF RightsStep
<1>2. ASSUME NEW r \in Requests, GrantCreator(r) PROVE RightsStep
  <2>1. /\ who[r] \in Names /\ created[r] \in ProjectIds /\ call[r].kind = "create"
        /\ r \in held /\ pc'[r] # pc[r]
    BY <1>0, <1>c, <1>2 DEF GrantCreator, RequestsOK, TablesOK, Serving
  <2>2. CASE perms' = [perms EXCEPT ![who[r]][created[r]] = "delete"]
    <3>1. ASSUME NEW n \in Names, NEW p \in ProjectIds, perms'[n][p] # perms[n][p]
          PROVE  n = who[r] /\ p = created[r] /\ perms'[n][p] = "delete"
      BY <1>b, <2>1, <2>2, <3>1 DEF Rights
    <3> QED
      BY <2>1, <3>1 DEF RightsStep, Sets
  <2> QED
    BY <1>1, <1>2, <2>2 DEF GrantCreator
<1>3. ASSUME NEW r \in Requests, EditProject(r) \/ DeleteProject(r) PROVE RightsStep
  <2>1. call[r].kind \in {"edit", "remove"} /\ r \in held /\ pc'[r] # pc[r]
    BY <1>c, <1>3 DEF EditProject, DeleteProject
  <2>2. PICK keys : perms' = Cascade(call[r].project, keys)
    BY <1>3 DEF EditProject, DeleteProject
  <2>3. ASSUME NEW n \in Names, NEW p \in ProjectIds, perms'[n][p] # perms[n][p]
        PROVE  p = call[r].project /\ perms'[n][p] = "none"
    BY <1>b, <2>2, <2>3 DEF Cascade, Rights
  <2> QED
    BY <2>1, <2>3 DEF RightsStep, Sets
<1>4. ASSUME NEW r \in Requests, CreateUser(r) PROVE RightsStep
  <2> DEFINE m == call[r].name
             form == call[r].form
  <2>1. /\ call[r].kind = "adduser" /\ r \in held /\ pc'[r] # pc[r]
        /\ perms' = [perms EXCEPT ![m] =
             [p \in ProjectIds |-> IF p \in Granted(form) THEN Stored(form)[p] ELSE @[p]]]
    BY <1>c, <1>4 DEF CreateUser
  <2>2. ASSUME NEW n \in Names, NEW p \in ProjectIds, perms'[n][p] # perms[n][p]
        PROVE  n = m /\ perms'[n][p] = Stored(form)[p]
    BY <1>b, <2>1, <2>2
  <2> QED
    BY <2>1, <2>2 DEF RightsStep, Sets
<1>5. ASSUME NEW r \in Requests, UpdateUser(r) PROVE RightsStep
  <2> DEFINE k == call[r].name
             m == call[r].to
             form == call[r].form
  <2>1. /\ call[r].kind = "update" /\ r \in held /\ pc'[r] # pc[r]
        /\ perms' = [perms EXCEPT ![k] = NoRights, ![m] = Stored(form)]
    BY <1>c, <1>5 DEF UpdateUser
  <2>2. ASSUME NEW n \in Names, NEW p \in ProjectIds, perms'[n][p] # perms[n][p]
        PROVE  (n = m /\ perms'[n][p] = Stored(form)[p]) \/ (n = k /\ perms'[n][p] = "none")
    BY <1>b, <2>1, <2>2 DEF NoRights
  <2> QED
    BY <2>1, <2>2 DEF RightsStep, Sets
<1>6. ASSUME NEW r \in Requests, DeleteUser(r) PROVE RightsStep
  <2>1. /\ call[r].kind = "deluser" /\ r \in held /\ pc'[r] # pc[r]
        /\ perms' = [perms EXCEPT ![call[r].name] = NoRights]
    BY <1>c, <1>6 DEF DeleteUser
  <2>2. ASSUME NEW n \in Names, NEW p \in ProjectIds, perms'[n][p] # perms[n][p]
        PROVE  n = call[r].name /\ perms'[n][p] = "none"
    BY <1>b, <2>1, <2>2 DEF NoRights
  <2> QED
    BY <2>1, <2>2 DEF RightsStep, Sets
<1>7. ASSUME NEW r \in Requests,
             \/ \E c \in Calls : Login(r, c)
             \/ \E c \in Calls, t \in issued : Arrive(r, t, c) \/ Logout(r, t, c)
             \/ ReadFlag(r) \/ ReadRight(r) \/ Refuse(r) \/ ReadRows(r) \/ List(r) \/ Deploy(r)
             \/ UpdateUsername(r) \/ UpdateSettings(r) \/ \E p \in ProjectIds : CreateProject(r, p)
             \/ \E t \in Tokens : NewSession(r, t)
      PROVE  UNCHANGED perms
  BY <1>7 DEF Login, Arrive, Logout, ReadFlag, ReadRight, Refuse, ReadRows, List, Deploy,
     UpdateUsername, UpdateSettings, CreateProject, NewSession, tables
<1>8. CASE GrowPool \/ Boot
  BY <1>1, <1>8 DEF GrowPool, Boot
<1>9. CASE UNCHANGED vars
  BY <1>1, <1>9 DEF vars, tables
<1> QED
  BY <1>1, <1>2, <1>3, <1>4, <1>5, <1>6, <1>7, <1>8, <1>9 DEF Next, Serve

\* A permission changes only by a request that names it and whose caller held the
\* right at some moment since it arrived, on every connection of the pool.
THEOREM RightsChangeOnlyByRight == Spec => RightsChangeByRight
<1>1. AInv /\ [Next]_vars => [RightsStep]_vars
  BY RightsNext
<1>2. RightsChangeByRight <=> [][RightsStep]_vars
  BY DEF RightsChangeByRight, RightsStep
<1> QED
  BY AInitial, AStep, <1>1, <1>2, PTL DEF Spec
=============================================================================
