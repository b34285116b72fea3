------------------------------ MODULE Dashboard ------------------------------
(***************************************************************************)
(* One page of the dashboard (server/web/app.js): the sign-in, the timers, *)
(* the list of deployments, the terminal and the dialog about a failure.   *)
(*                                                                         *)
(* The page runs one task at a time, so that an action is what the browser *)
(* runs without a pause: a click, a timer, or what follows the answer of a *)
(* fetch.  Requests overlap: the server may take them in any order, and    *)
(* their answers arrive in any order.  The history of the server moves on  *)
(* by itself.  Projects and webhooks are polled as deployments are, and    *)
(* are left out.                                                           *)
(***************************************************************************)
EXTENDS Naturals, FiniteSets

CONSTANTS
  Deps, Projects,
  ProjectOf,      \* the project of each deployment
  FirstHistory,   \* the history when the page is loaded
  Slots,          \* bound: requests that are under way at a time
  None, Free, Pending, Ok, Failed, Unauthorized, Loading,
  Ways,           \* what the user may click
  MaxClicks, MaxTokens, MaxFailures

\* The requests that change the sessions of the server.
Signs == {"login", "settings", "logout"}

\* The page tells RUNNING and FAILED apart from the rest.
Status == {"none", "RUNNING", "FAILED", "over"}

ASSUME DashboardAssumption ==
  /\ ProjectOf \in [Deps -> Projects]
  /\ FirstHistory \in [Deps -> Status]
  /\ None \notin Deps \cup Projects
  /\ {Failed, Loading} \cap [dep: Deps, seen: Status] = {}
  /\ Ok \notin {Pending, Failed} /\ Pending \notin Nat /\ Failed \notin Nat
  /\ Free \notin [kind: Signs, arg: {"login", "settings", None}, then: {None},
                  cookie: 0..MaxTokens, answer: 0..MaxTokens \cup {Ok}]
  /\ MaxClicks \in Nat /\ MaxTokens \in Nat \ {0} /\ MaxFailures \in Nat

VARIABLES
  history, sessions, tokens,   \* the server: status of each deployment, the
                               \* tokens that are valid, and how many were given out
  net,                         \* a request and its answer in each slot
  cookie,                      \* the browser's token, 0 for none
  shown,                       \* the page, or else the sign-in form
  auto, on, ticker,            \* autoRefreshInterval, isAutoRefreshOn, liveTickerInterval
  list,                        \* deployments
  active, terminal,            \* activeTerminalDepId, terminalContent
  soon,                        \* terminals that open in 400 ms
  dialog, failure, current,    \* failureModal, failureContent, currentFailedProjectId
  clicks, failures

server == <<history, sessions, tokens>>
page   == <<shown, auto, on, ticker>>
console == <<active, terminal, soon>>
diagnosis == <<dialog, failure, current>>
vars == <<server, net, cookie, page, list, console, diagnosis, clicks, failures>>

Record == [dep: Deps, seen: Status]

\* What the server answers, if not an error, when "given" tokens were given out.
Answers(kind, given) ==
  CASE kind = "list" -> [Deps -> Status]
    [] kind = "detail" -> Record
    [] kind = "deploy" -> Deps
    [] kind \in {"login", "settings"} -> 1..given
    [] OTHER -> {Ok}

Legal(r, given) ==
  /\ r = [kind |-> r.kind, arg |-> r.arg, then |-> r.then,
          cookie |-> r.cookie, answer |-> r.answer]
  /\ r.kind = "detail" => r.arg \in Deps
  /\ r.kind \in Signs => r.arg \in {"login", "settings", None} /\ r.then = None
  /\ r.cookie \in 0..given
  /\ \/ r.answer \in {Pending, Failed}
     \/ r.kind = "list" /\ r.answer = Unauthorized
     \/ r.answer \in Answers(r.kind, given)

ServerOK ==
  /\ history \in [Deps -> Status]
  /\ tokens \in 0..MaxTokens
  /\ sessions \subseteq 1..tokens
  /\ cookie \in 0..tokens

NetOK ==
  /\ net = [s \in Slots |-> net[s]]
  /\ \A s \in Slots : net[s] # Free => Legal(net[s], tokens)

PageOK ==
  /\ shown \in BOOLEAN /\ auto \in BOOLEAN /\ on \in BOOLEAN /\ ticker \in BOOLEAN
  /\ list \in [Deps -> Status]
  /\ active \in Deps \cup {None}
  /\ \A content \in {terminal, failure} : content \in {Loading, Failed} \/ content \in Record
  /\ soon \subseteq Deps
  /\ dialog \in BOOLEAN
  /\ current \in Projects \cup {None}
  /\ clicks \in 0..MaxClicks
  /\ failures \in 0..MaxFailures

TypeOK == ServerOK /\ NetOK /\ PageOK

-----------------------------------------------------------------------------
(* The network.  "then" is what awaits the answer: "start" the timers, a    *)
(* dialog that is to be filled, or the deployment whose terminal opens.     *)

Request(kind, arg, then, token) ==
  [kind |-> kind, arg |-> arg, then |-> then, cookie |-> token, answer |-> Pending]

Send(kind, arg, then) ==
  \E s \in Slots : /\ net[s] = Free
                   /\ net' = [net EXCEPT ![s] = Request(kind, arg, then, cookie)]

\* A button that is disabled until its request is done.
Busy(button) == \E s \in Slots : net[s] # Free /\ net[s].arg = button

SignedIn(r) == r.cookie \in sessions

Init ==
  /\ history = FirstHistory
  /\ sessions = {1} /\ tokens = 1 /\ cookie = 1
  /\ shown = FALSE /\ auto = FALSE /\ on = TRUE /\ ticker = FALSE
  /\ list = [d \in Deps |-> "none"]
  /\ active = None /\ terminal = Loading /\ soon = {}
  /\ dialog = FALSE /\ failure = Loading /\ current = None
  /\ \E first \in Slots : net = [s \in Slots |->
       IF s = first THEN Request("auth", None, "start", 1) ELSE Free]
  /\ clicks = 0 /\ failures = 0

-----------------------------------------------------------------------------
(* The server.                                                             *)

\* A deployment by webhook, the end of one, and a stop that comes late.
Moves == {<<"none", "RUNNING">>, <<"RUNNING", "FAILED">>, <<"RUNNING", "over">>, <<"FAILED", "over">>}

HistoryMoves(d) ==
  /\ \E m \in Moves : m[1] = history[d] /\ history' = [history EXCEPT ![d] = m[2]]
  /\ UNCHANGED <<sessions, tokens, net, cookie, page, list, console, diagnosis, clicks, failures>>

Answer(s, a) == net' = [net EXCEPT ![s].answer = a]

\* The handlers that read.
ServerReads(s) ==
  LET r == net[s] IN
  /\ r # Free /\ r.answer = Pending
  /\ \/ r.kind = "auth" /\ Answer(s, IF SignedIn(r) THEN Ok ELSE Failed)
     \/ r.kind = "list" /\ Answer(s, IF SignedIn(r) THEN history ELSE Unauthorized)
     \/ r.kind = "detail" /\ Answer(s, IF SignedIn(r)
                                       THEN [dep |-> r.arg, seen |-> history[r.arg]]
                                       ELSE Failed)
  /\ UNCHANGED <<server, cookie, page, list, console, diagnosis, clicks, failures>>

\* With a bug: a change of the settings ends the session before its password is
\* compared.
ServerSignsDeletesFirst(s) ==
  LET r == net[s] IN
  /\ r # Free /\ r.answer = Pending
  /\ \/ /\ r.kind = "logout"
        /\ sessions' = sessions \ {r.cookie}
        /\ Answer(s, Ok)
        /\ UNCHANGED tokens
     \/ /\ r.kind \in {"login", "settings"}
        /\ r.kind = "settings" => SignedIn(r)
        /\ tokens < MaxTokens
        /\ tokens' = tokens + 1
        /\ sessions' = (IF r.kind = "settings" THEN sessions \ {r.cookie} ELSE sessions)
                       \cup {tokens'}
        /\ Answer(s, tokens')
     \/ /\ r.kind \in {"login", "settings"}
        /\ sessions' = IF r.kind = "settings" THEN sessions \ {r.cookie} ELSE sessions
        /\ Answer(s, Failed)
        /\ UNCHANGED tokens
  /\ UNCHANGED <<history, cookie, page, list, console, diagnosis, clicks, failures>>

\* A session for the right password; the change of one's name or password
\* replaces the session.
ServerSigns(s) ==
  LET r == net[s] IN
  /\ r # Free /\ r.answer = Pending
  /\ \/ /\ r.kind = "logout"
        /\ sessions' = sessions \ {r.cookie}
        /\ Answer(s, Ok)
        /\ UNCHANGED tokens
     \/ /\ r.kind \in {"login", "settings"}
        /\ r.kind = "settings" => SignedIn(r)
        /\ tokens < MaxTokens
        /\ tokens' = tokens + 1
        /\ sessions' = (IF r.kind = "settings" THEN sessions \ {r.cookie} ELSE sessions)
                       \cup {tokens'}
        /\ Answer(s, tokens')
     \/ /\ r.kind \in {"login", "settings"}
        /\ Answer(s, Failed)
        /\ UNCHANGED <<sessions, tokens>>
  /\ UNCHANGED <<history, cookie, page, list, console, diagnosis, clicks, failures>>

\* The start of a deployment and the stop of one, or a refusal.
ServerActs(s) ==
  LET r == net[s] IN
  /\ r # Free /\ r.answer = Pending
  /\ \/ /\ r.kind = "deploy"
        /\ SignedIn(r)
        /\ \E d \in Deps : /\ history[d] = "none" /\ ProjectOf[d] = r.arg
                           /\ history' = [history EXCEPT ![d] = "RUNNING"]
                           /\ Answer(s, d)
     \/ /\ r.kind = "stop"
        /\ SignedIn(r)
        /\ history' = [history EXCEPT ![r.arg] = "over"]
        /\ Answer(s, Ok)
     \/ /\ r.kind \in {"deploy", "stop"}
        /\ Answer(s, Failed)
        /\ UNCHANGED history
  /\ UNCHANGED <<sessions, tokens, cookie, page, list, console, diagnosis, clicks, failures>>

\* The server restarts and its sessions are gone.
Restart ==
  /\ failures < MaxFailures
  /\ failures' = failures + 1
  /\ sessions' = {}
  /\ UNCHANGED <<history, tokens, net, cookie, page, list, console, diagnosis, clicks>>

\* A fetch fails, before the server took the request or after.
Lose(s) ==
  /\ failures < MaxFailures
  /\ failures' = failures + 1
  /\ net[s] # Free /\ net[s].answer # Failed
  /\ Answer(s, Failed)
  /\ UNCHANGED <<server, cookie, page, list, console, diagnosis, clicks>>

-----------------------------------------------------------------------------
(* What follows an answer.                                                 *)

Answered(s, kinds) ==
  /\ net[s] # Free
  /\ net[s].kind \in kinds
  /\ net[s].answer # Pending

\* The slot is free, or the page sends its next request at once.
Done(s) == net' = [net EXCEPT ![s] = Free]
Follow(s, kind, arg, then) == net' = [net EXCEPT ![s] = Request(kind, arg, then, cookie')]

\* checkAuth and what awaits it in init and handleLogin.
\* With a bug: the timer is left running under the sign-in form.
CheckAuthKeepsPolling(s) ==
  /\ Answered(s, {"auth"})
  /\ UNCHANGED cookie
  /\ \/ /\ net[s].answer = Failed
        /\ shown' = FALSE
        /\ Done(s)
        /\ UNCHANGED <<auto, ticker>>
     \/ /\ net[s].answer = Ok
        /\ shown' = TRUE
        /\ IF net[s].then = "start"
           THEN /\ auto' = TRUE /\ ticker' = TRUE
                /\ Follow(s, "list", None, None)
           ELSE Done(s) /\ UNCHANGED <<auto, ticker>>
  /\ UNCHANGED <<server, on, list, console, diagnosis, clicks, failures>>
CheckAuth(s) ==
  /\ Answered(s, {"auth"})
  /\ UNCHANGED cookie
  /\ \/ /\ net[s].answer = Failed
        /\ shown' = FALSE
        /\ auto' = FALSE
        /\ Done(s)
        /\ UNCHANGED ticker
     \/ /\ net[s].answer = Ok
        /\ shown' = TRUE
        /\ IF net[s].then = "start"
           THEN /\ auto' = TRUE /\ ticker' = TRUE
                /\ Follow(s, "list", None, None)
           ELSE Done(s) /\ UNCHANGED <<auto, ticker>>
  /\ UNCHANGED <<server, on, list, console, diagnosis, clicks, failures>>

\* fetchDeployments and what awaits it in triggerDeploy.
\* With a bug: the status of the answer is not looked at.
FetchDeploymentsUnchecked(s) ==
  /\ Answered(s, {"list"})
  /\ list' = net[s].answer
  /\ Done(s)
  /\ soon' = soon \cup ({net[s].then} \cap Deps)
  /\ UNCHANGED <<server, cookie, page, active, terminal, diagnosis, clicks, failures>>
FetchDeployments(s) ==
  LET r == net[s] IN
  /\ Answered(s, {"list"})
  /\ UNCHANGED cookie
  /\ \/ /\ r.answer = Unauthorized
        /\ Follow(s, "auth", None, None)
        /\ UNCHANGED list
     \/ /\ r.answer = Failed
        /\ Done(s)
        /\ UNCHANGED list
     \/ /\ r.answer \notin {Unauthorized, Failed}
        /\ list' = r.answer
        /\ Done(s)
  /\ soon' = soon \cup ({r.then} \cap Deps)
  /\ UNCHANGED <<server, page, active, terminal, diagnosis, clicks, failures>>

\* The terminal shows whatever arrives last.
FetchAndStreamTerminal(s) ==
  /\ Answered(s, {"detail"})
  /\ net[s].then = "terminal"
  /\ terminal' = net[s].answer
  /\ Done(s)
  /\ UNCHANGED <<server, cookie, page, list, active, soon, diagnosis, clicks, failures>>

FailureAnswered(s) ==
  /\ Answered(s, {"detail"})
  /\ net[s].then = "failure"
  /\ failure' = net[s].answer
  /\ current' = IF net[s].answer # Failed THEN ProjectOf[net[s].answer.dep] ELSE current
  /\ Done(s)
  /\ UNCHANGED <<server, cookie, page, list, console, dialog, clicks, failures>>

\* The rest of handleLogin, handleSaveSettings and handleLogout.
SignAnswered(s) ==
  LET r == net[s] IN
  /\ Answered(s, Signs)
  /\ \/ /\ r.answer = Failed
        /\ UNCHANGED cookie
        /\ Done(s)
     \/ /\ r.answer # Failed
        /\ cookie' = IF r.kind = "logout" THEN 0 ELSE r.answer
        /\ Follow(s, "auth", r.arg, IF r.kind = "login" THEN "start" ELSE None)
  /\ UNCHANGED <<server, page, list, console, diagnosis, clicks, failures>>

\* The rest of triggerDeploy and stopDeployment.
ActAnswered(s) ==
  LET r == net[s] IN
  /\ Answered(s, {"deploy", "stop"})
  /\ UNCHANGED cookie
  /\ \/ r.answer = Failed /\ Done(s)
     \/ r.answer # Failed /\ Follow(s, "list", None, IF r.kind = "deploy" THEN r.answer ELSE None)
  /\ UNCHANGED <<server, page, list, console, diagnosis, clicks, failures>>

-----------------------------------------------------------------------------
(* The timers.                                                             *)

\* With a bug: nothing is fetched unless the list knows of something RUNNING.
PollRunning ==
  /\ auto /\ on
  /\ \E d \in Deps : list[d] = "RUNNING"
  /\ Send("list", None, None)
  /\ UNCHANGED <<server, cookie, page, list, console, diagnosis, clicks, failures>>
Poll ==
  /\ auto /\ on
  /\ Send("list", None, None)
  /\ UNCHANGED <<server, cookie, page, list, console, diagnosis, clicks, failures>>

\* With a bug: only while the terminal still waits for its first text.
TickOnce ==
  /\ ticker
  /\ active # None
  /\ list[active] = "RUNNING" /\ terminal = Loading
  /\ Send("detail", active, "terminal")
  /\ UNCHANGED <<server, cookie, page, list, console, diagnosis, clicks, failures>>
Tick ==
  /\ ticker
  /\ active # None
  /\ list[active] = "RUNNING"
  /\ Send("detail", active, "terminal")
  /\ UNCHANGED <<server, cookie, page, list, console, diagnosis, clicks, failures>>

\* openTerminalModal.
ShowTerminal(d) ==
  /\ active' = d
  /\ terminal' = Loading
  /\ Send("detail", d, "terminal")

OpenSoon(d) ==
  /\ d \in soon
  /\ ShowTerminal(d)
  /\ soon' = soon \ {d}
  /\ UNCHANGED <<server, cookie, page, list, diagnosis, clicks, failures>>

-----------------------------------------------------------------------------
(* The user.  A dialog covers the page.                                    *)

Click(way) ==
  /\ way \in Ways
  /\ clicks < MaxClicks
  /\ clicks' = clicks + 1
  /\ UNCHANGED <<server, cookie, list, failures>>

Uncovered == shown /\ active = None /\ ~dialog

ClickLogin ==
  /\ Click("login")
  /\ ~shown /\ ~Busy("login")
  /\ Send("login", "login", None)
  /\ UNCHANGED <<page, console, diagnosis>>

ClickSettings ==
  /\ Click("settings")
  /\ Uncovered /\ ~Busy("settings")
  /\ Send("settings", "settings", None)
  /\ UNCHANGED <<page, console, diagnosis>>

ClickLogout ==
  /\ Click("logout")
  /\ Uncovered
  /\ Send("logout", None, None)
  /\ UNCHANGED <<page, console, diagnosis>>

ClickRefresh ==
  /\ Click("refresh")
  /\ Uncovered
  /\ Send("list", None, None)
  /\ UNCHANGED <<page, console, diagnosis>>

ClickToggle ==
  /\ Click("toggle")
  /\ Uncovered
  /\ on' = ~on
  /\ auto' = on'
  /\ UNCHANGED <<net, shown, ticker, console, diagnosis>>

ClickDeploy(p) ==
  /\ Click("deploy")
  /\ Uncovered
  /\ Send("deploy", p, None)
  /\ UNCHANGED <<page, console, diagnosis>>

ClickStop(d) ==
  /\ Click("stop")
  /\ Uncovered
  /\ list[d] = "RUNNING"
  /\ Send("stop", d, None)
  /\ UNCHANGED <<page, console, diagnosis>>

ClickViewLog(d) ==
  /\ Click("terminal")
  /\ Uncovered
  /\ list[d] # "none"
  /\ ShowTerminal(d)
  /\ UNCHANGED <<page, soon, diagnosis>>

CloseTerminal ==
  /\ Click("terminal")
  /\ active # None
  /\ active' = None
  /\ UNCHANGED <<net, page, terminal, soon, diagnosis>>

\* openFailureModal.
ClickWhyFailed(d) ==
  /\ Click("failure")
  /\ Uncovered
  /\ list[d] = "FAILED"
  /\ dialog' = TRUE
  /\ failure' = Loading
  /\ Send("detail", d, "failure")
  /\ UNCHANGED <<page, console, current>>

CloseFailure ==
  /\ Click("failure")
  /\ dialog
  /\ dialog' = FALSE
  /\ current' = None
  /\ UNCHANGED <<net, page, console, failure>>

\* The project is looked up in the list of projects, where it may be missing.
ClickRetry ==
  /\ Click("failure")
  /\ dialog
  /\ current # None
  /\ dialog' = FALSE
  /\ current' = None
  /\ Send("deploy", current, None) \/ UNCHANGED net
  /\ UNCHANGED <<page, console, failure>>

User ==
  \/ ClickLogin \/ ClickSettings \/ ClickLogout \/ ClickRefresh \/ ClickToggle
  \/ CloseTerminal \/ CloseFailure \/ ClickRetry
  \/ \E p \in Projects : ClickDeploy(p)
  \/ \E d \in Deps : ClickStop(d) \/ ClickViewLog(d) \/ ClickWhyFailed(d)

Serve(s) == ServerReads(s) \/ ServerSigns(s) \/ ServerActs(s)

Deliver(s) ==
  \/ CheckAuth(s) \/ FetchDeployments(s) \/ FetchAndStreamTerminal(s)
  \/ FailureAnswered(s) \/ SignAnswered(s) \/ ActAnswered(s)

Next ==
  \/ \E d \in Deps : HistoryMoves(d) \/ OpenSoon(d)
  \/ \E s \in Slots : Serve(s) \/ Lose(s) \/ Deliver(s)
  \/ Restart \/ Poll \/ Tick \/ User

Spec == Init /\ [][Next]_vars

\* The server answers, answers arrive, and the timers fire.  A timer never
\* waits for a slot, so that it fires although others take them: SF.
FairSpec ==
  /\ Spec
  /\ \A s \in Slots : WF_vars(Serve(s)) /\ WF_vars(Deliver(s))
  /\ SF_vars(Poll) /\ SF_vars(Tick)
  /\ \A d \in Deps : SF_vars(OpenSoon(d))

-----------------------------------------------------------------------------

\* Unless the server restarted or an answer was lost, the token that the browser
\* keeps is one the server knows, or there is none, although a sign-out, a sign-in
\* and a change of the settings overlap, are served in one order and answered in
\* another: it is only wrong while one of the requests that take a token away is
\* under way.
Signing == {s \in Slots : net[s] # Free /\ net[s].kind \in {"settings", "logout"}}
CookieIsGood == failures = 0 /\ Signing = {} => cookie \in sessions \cup {0}

\* The timer of startAutoRefresh, which asks for the list, does not run for ever
\* with a session that is gone, after a restart of the server or a sign-out whose
\* answer was lost: some refused poll leads to a check of the session that is
\* refused, too, and stops the timer for good, whatever other answers arrive in
\* between.  Only this timer: stopAutoRefresh leaves the one of startLiveTicker, and
\* a terminal that is open goes on asking every second for a deployment the list
\* says is RUNNING, which Tick does.
PollingEnds == <>[](cookie \notin sessions) => <>[]~(auto /\ on)

\* With the timer on and the session in order the list becomes, and stays, the
\* history of the server, although answers arrive out of order.
ListCatchesUp ==
  <>[](auto /\ on /\ cookie \in sessions) => <>[](list = history)

\* A terminal that stays open while its deployment runs comes to show its
\* record, whatever answers for other terminals were under way.
TerminalFollows ==
  \A d \in Deps :
    <>[](active = d /\ ticker /\ list[d] = "RUNNING" /\ cookie \in sessions)
      => <>[](terminal \in Record /\ terminal.dep = d)

-----------------------------------------------------------------------------
(* What the documentation says and the code does not do.                   *)

\* README.md:162 "the real-time Console Log Viewer showing output logs": a
\* terminal that stays open does not keep the text of a running deployment for
\* ever when the deployment has ended, which is when its output is written.
TerminalCatchesUp ==
  \A d \in Deps :
    <>[](active = d /\ auto /\ on /\ ticker /\ cookie \in sessions)
      => <>[](terminal = [dep |-> d, seen |-> "RUNNING"] => history[d] = "RUNNING")
=============================================================================
