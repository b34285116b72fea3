--------------------------- MODULE DashboardProofs ---------------------------
(***************************************************************************)
(* Every reachable state of Dashboard is well typed, and the browser keeps *)
(* a token that is good.  The proof of typing has one lemma for each way   *)
(* to change the requests under way, and one for each group of actions.    *)
(***************************************************************************)
EXTENDS Dashboard, TLAPS

USE DashboardAssumption DEF Signs

\* What was answered stays legal when more tokens are given out.
LEMMA LegalLater ==
  ASSUME NEW m \in Nat, NEW n \in Nat, m <= n, NEW r, Legal(r, m)
  PROVE  Legal(r, n)
<1>1. 0..m \subseteq 0..n /\ 1..m \subseteq 1..n
  OBVIOUS
<1>2. Answers(r.kind, m) \subseteq Answers(r.kind, n)
  BY <1>1 DEF Answers
<1> QED
  BY <1>1, <1>2 DEF Legal

\* A new request is legal.
LEMMA RequestLegal ==
  ASSUME NEW n \in Nat, NEW kind, NEW arg, NEW then, NEW c \in 0..n,
         kind = "detail" => arg \in Deps,
         kind \in Signs => arg \in {"login", "settings", None} /\ then = None
  PROVE  Legal(Request(kind, arg, then, c), n)
BY DEF Legal, Request

\* One slot takes a legal request, or none.
LEMMA SlotChanges ==
  ASSUME TypeOK, NEW s \in Slots, NEW r, r # Free => Legal(r, tokens'),
         tokens' \in Nat, tokens <= tokens', net' = [net EXCEPT ![s] = r]
  PROVE  NetOK'
<1>1. tokens \in Nat
  BY DEF TypeOK, ServerOK
<1>2. \A t \in Slots : net'[t] = IF t = s THEN r ELSE net[t]
  BY DEF TypeOK, NetOK
<1>3. ASSUME NEW t \in Slots, net'[t] # Free
      PROVE  Legal(net'[t], tokens')
  <2>1. CASE t = s
    BY <2>1, <1>2, <1>3
  <2>2. CASE t # s
    BY <2>2, <1>1, <1>2, <1>3, LegalLater DEF TypeOK, NetOK
  <2> QED
    BY <2>1, <2>2
<1>4. net' = [t \in Slots |-> net'[t]]
  BY DEF TypeOK, NetOK
<1> QED
  BY <1>3, <1>4 DEF NetOK

\* The page sends a request.
LEMMA Sends ==
  ASSUME TypeOK, NEW kind, NEW arg, NEW then, Send(kind, arg, then),
         kind = "detail" => arg \in Deps,
         kind \in Signs => arg \in {"login", "settings", None} /\ then = None,
         tokens' = tokens
  PROVE  NetOK'
<1> DEFINE r == Request(kind, arg, then, cookie)
<1>1. PICK s \in Slots : net' = [net EXCEPT ![s] = r]
  BY DEF Send
<1>2. tokens \in Nat /\ cookie \in 0..tokens
  BY DEF TypeOK, ServerOK
<1>3. Legal(r, tokens')
  BY <1>2, RequestLegal
<1>4. tokens' \in Nat /\ tokens <= tokens'
  BY <1>2
<1> HIDE DEF r
<1> QED
  BY <1>1, <1>3, <1>4, SlotChanges

\* The page is done with an answer, or goes on with another request.
LEMMA GoesOn ==
  ASSUME TypeOK, NEW s \in Slots, tokens' = tokens, cookie' \in 0..tokens,
         Done(s) \/ \E kind, arg, then : kind \in {"auth", "list"} /\ Follow(s, kind, arg, then)
  PROVE  NetOK'
<1>1. tokens \in Nat /\ tokens' \in Nat /\ tokens <= tokens'
  BY DEF TypeOK, ServerOK
<1>2. CASE Done(s)
  <2>1. net' = [net EXCEPT ![s] = Free]
    BY <1>2 DEF Done
  <2> QED
    BY <2>1, <1>1, SlotChanges
<1>3. CASE \E kind, arg, then : kind \in {"auth", "list"} /\ Follow(s, kind, arg, then)
  <2>1. PICK kind, arg, then : kind \in {"auth", "list"} /\ Follow(s, kind, arg, then)
    BY <1>3
  <2> DEFINE r == Request(kind, arg, then, cookie')
  <2>2. net' = [net EXCEPT ![s] = r]
    BY <2>1 DEF Follow
  <2>3. Legal(r, tokens')
    BY <2>1, <1>1, RequestLegal
  <2> HIDE DEF r
  <2> QED
    BY <2>2, <2>3, <1>1, SlotChanges
<1> QED
  BY <1>2, <1>3

\* A request is answered.
LEMMA IsAnswered ==
  ASSUME TypeOK, NEW s \in Slots, net[s] # Free, NEW a, Answer(s, a),
         tokens' \in Nat, tokens <= tokens',
         \/ a = Failed
         \/ net[s].kind = "list" /\ a = Unauthorized
         \/ a \in Answers(net[s].kind, tokens')
  PROVE  NetOK'
<1> DEFINE r == [kind |-> net[s].kind, arg |-> net[s].arg, then |-> net[s].then,
                 cookie |-> net[s].cookie, answer |-> a]
<1>1. tokens \in Nat
  BY DEF TypeOK, ServerOK
<1>2. Legal(net[s], tokens)
  BY DEF TypeOK, NetOK
<1>3. [net[s] EXCEPT !.answer = a] = r
  BY <1>2 DEF Legal
<1>4. net' = [net EXCEPT ![s] = r]
  BY <1>3 DEF Answer
<1>5. net[s].cookie \in 0..tokens'
  BY <1>1, <1>2 DEF Legal
<1>6. Legal(r, tokens')
  BY <1>2, <1>5 DEF Legal
<1> HIDE DEF r
<1> QED
  BY <1>4, <1>6, SlotChanges

\* What an answer may be, by the kind of its request.
LEMMA AnswersOfKind ==
  ASSUME TypeOK, NEW s \in Slots, net[s] # Free, net[s].answer # Pending
  PROVE  /\ net[s].kind = "list" =>
               net[s].answer \in {Failed, Unauthorized} \/ net[s].answer \in [Deps -> Status]
         /\ net[s].kind = "detail" =>
               net[s].answer = Failed \/ net[s].answer \in Record
         /\ net[s].kind \in {"login", "settings"} =>
               net[s].answer = Failed \/ net[s].answer \in 1..tokens
BY DEF TypeOK, NetOK, Legal, Answers

LEMMA InitTyped == Init => TypeOK
<1> SUFFICES ASSUME Init PROVE TypeOK
  OBVIOUS
<1>1. ServerOK
  BY DEF Init, ServerOK
<1>2. PageOK
  <2>1. 0 \in 0..MaxClicks /\ 0 \in 0..MaxFailures
    OBVIOUS
  <2>2. list \in [Deps -> Status]
    BY DEF Init, Status
  <2> QED
    BY <2>1, <2>2 DEF Init, PageOK
<1>3. NetOK
  <2>1. PICK first \in Slots : net = [s \in Slots |->
          IF s = first THEN Request("auth", None, "start", 1) ELSE Free]
    BY DEF Init
  <2>2. Legal(Request("auth", None, "start", 1), 1)
    BY RequestLegal
  <2> QED
    BY <2>1, <2>2 DEF NetOK, Init
<1> QED
  BY <1>1, <1>2, <1>3 DEF TypeOK

\* What the server does.
LEMMA ServerTyped ==
  ASSUME TypeOK, NEW s \in Slots, Serve(s)
  PROVE  TypeOK'
<1>1. net[s] # Free /\ net[s].answer = Pending
  BY DEF Serve, ServerReads, ServerSigns, ServerActs
<1>2. /\ tokens \in Nat /\ tokens <= tokens
      /\ history \in [Deps -> Status] /\ Legal(net[s], tokens)
  BY <1>1 DEF TypeOK, ServerOK, NetOK
<1>3. PageOK'
  BY DEF Serve, ServerReads, ServerSigns, ServerActs, TypeOK, PageOK, page, console, diagnosis
<1>4. CASE ServerReads(s)
  <2>1. ServerOK' /\ tokens' = tokens /\ tokens' \in Nat /\ tokens <= tokens'
    BY <1>4, <1>2 DEF ServerReads, server, TypeOK, ServerOK
  <2>2. ASSUME net[s].kind = "auth" PROVE NetOK'
    <3>1. PICK a \in {Ok, Failed} : Answer(s, a)
      BY <1>4, <2>2 DEF ServerReads
    <3> QED
      BY <3>1, <2>2, <2>1, <1>1, <1>2, IsAnswered DEF Answers
  <2>3. ASSUME net[s].kind = "list" PROVE NetOK'
    <3>1. PICK a : Answer(s, a) /\ a \in {history, Unauthorized}
      BY <1>4, <2>3 DEF ServerReads
    <3>2. a = Unauthorized \/ a \in Answers("list", tokens)
      BY <3>1, <1>2 DEF Answers
    <3> QED
      BY <3>1, <3>2, <2>3, <2>1, <1>1, <1>2, IsAnswered
  <2>4. ASSUME net[s].kind = "detail" PROVE NetOK'
    <3>1. PICK a : Answer(s, a) /\ a \in {[dep |-> net[s].arg, seen |-> history[net[s].arg]], Failed}
      BY <1>4, <2>4 DEF ServerReads
    <3>2. net[s].arg \in Deps
      BY <1>2, <2>4 DEF Legal
    <3>3. [dep |-> net[s].arg, seen |-> history[net[s].arg]] \in Answers("detail", tokens)
      BY <3>2, <1>2 DEF Answers, Record
    <3> QED
      BY <3>1, <3>3, <2>4, <2>1, <1>1, <1>2, IsAnswered
  <2> QED
    BY <1>3, <1>4, <2>1, <2>2, <2>3, <2>4 DEF ServerReads, TypeOK
<1>5. CASE ServerSigns(s)
  <2>1. CASE /\ net[s].kind = "logout"
             /\ sessions' = sessions \ {net[s].cookie} /\ Answer(s, Ok) /\ tokens' = tokens
    <3>1. ServerOK'
      BY <2>1, <1>5 DEF ServerSigns, TypeOK, ServerOK
    <3>2. NetOK'
      BY <2>1, <1>1, <1>2, IsAnswered DEF Answers
    <3> QED
      BY <3>1, <3>2, <1>3 DEF TypeOK
  <2>2. CASE /\ net[s].kind \in {"login", "settings"}
             /\ tokens < MaxTokens /\ tokens' = tokens + 1
             /\ sessions' = (IF net[s].kind = "settings" THEN sessions \ {net[s].cookie}
                             ELSE sessions) \cup {tokens'}
             /\ Answer(s, tokens')
    <3>1. tokens' \in Nat /\ tokens' \in 0..MaxTokens /\ tokens' \in 1..tokens'
          /\ tokens <= tokens'
      BY <2>2, <1>2
    <3>2. sessions' \subseteq 1..tokens' /\ cookie \in 0..tokens'
      <4>1. sessions \subseteq 1..tokens /\ cookie \in 0..tokens
        BY DEF TypeOK, ServerOK
      <4>2. 1..tokens \subseteq 1..tokens' /\ 0..tokens \subseteq 0..tokens'
        BY <1>2, <3>1
      <4>3. sessions' \subseteq sessions \cup {tokens'}
        BY <2>2
      <4> QED
        BY <4>1, <4>2, <4>3, <3>1
    <3>3. ServerOK'
      BY <3>1, <3>2, <1>5, <1>2 DEF ServerSigns, ServerOK
    <3>4. tokens' \in Answers(net[s].kind, tokens')
      BY <2>2, <3>1 DEF Answers
    <3>5. NetOK'
      BY <2>2, <3>1, <3>4, <1>1, IsAnswered
    <3> QED
      BY <3>3, <3>5, <1>3 DEF TypeOK
  <2>3. CASE Answer(s, Failed) /\ sessions' = sessions /\ tokens' = tokens
    <3>1. ServerOK'
      BY <2>3, <1>5 DEF ServerSigns, TypeOK, ServerOK
    <3>2. NetOK'
      BY <2>3, <1>1, <1>2, IsAnswered
    <3> QED
      BY <3>1, <3>2, <1>3 DEF TypeOK
  <2> QED
    BY <1>5, <2>1, <2>2, <2>3 DEF ServerSigns
<1>6. CASE ServerActs(s)
  <2>1. tokens' = tokens /\ cookie' = cookie /\ sessions' = sessions
    BY <1>6 DEF ServerActs
  <2>2. history' \in [Deps -> Status]
    BY <1>6, <1>2 DEF ServerActs, Status
  <2>3. ServerOK'
    BY <2>1, <2>2 DEF TypeOK, ServerOK
  <2>4. PICK a : /\ Answer(s, a)
                 /\ \/ a = Failed
                    \/ net[s].kind = "deploy" /\ a \in Deps
                    \/ net[s].kind = "stop" /\ a = Ok
    BY <1>6 DEF ServerActs
  <2>5. a = Failed \/ a \in Answers(net[s].kind, tokens)
    BY <2>4 DEF Answers
  <2>6. NetOK'
    BY <2>1, <2>4, <2>5, <1>1, <1>2, IsAnswered
  <2> QED
    BY <2>3, <2>6, <1>3 DEF TypeOK
<1> QED
  BY <1>4, <1>5, <1>6 DEF Serve

\* What follows an answer.
LEMMA DeliverTyped ==
  ASSUME TypeOK, NEW s \in Slots, Deliver(s)
  PROVE  TypeOK'
<1>1. net[s] # Free /\ net[s].answer # Pending
  BY DEF Deliver, CheckAuth, FetchDeployments, FetchAndStreamTerminal, FailureAnswered,
         SignAnswered, ActAnswered, Answered
<1>2. tokens' = tokens /\ history' = history /\ sessions' = sessions
  BY DEF Deliver, CheckAuth, FetchDeployments, FetchAndStreamTerminal, FailureAnswered,
         SignAnswered, ActAnswered, server
<1>3. cookie \in 0..tokens /\ tokens \in Nat
  BY DEF TypeOK, ServerOK
<1>4. ASSUME cookie' \in 0..tokens PROVE ServerOK'
  BY <1>2, <1>4 DEF TypeOK, ServerOK
<1>5. CASE CheckAuth(s)
  <2>1. cookie' = cookie
    BY <1>5 DEF CheckAuth
  <2>2. Done(s) \/ Follow(s, "list", None, None)
    BY <1>5 DEF CheckAuth
  <2>3. NetOK'
    BY <2>1, <2>2, <1>2, <1>3, GoesOn
  <2>4. PageOK'
    BY <1>5 DEF CheckAuth, TypeOK, PageOK, console, diagnosis
  <2> QED
    BY <2>1, <2>3, <2>4, <1>3, <1>4 DEF TypeOK
<1>6. CASE FetchDeployments(s)
  <2>1. cookie' = cookie
    BY <1>6 DEF FetchDeployments
  <2>2. Done(s) \/ Follow(s, "auth", None, None)
    BY <1>6 DEF FetchDeployments
  <2>3. NetOK'
    BY <2>1, <2>2, <1>2, <1>3, GoesOn
  <2>4. list' \in [Deps -> Status]
    BY <1>6, <1>1, AnswersOfKind DEF FetchDeployments, Answered, TypeOK, PageOK
  <2>5. PageOK'
    BY <1>6, <2>4 DEF FetchDeployments, TypeOK, PageOK, page, diagnosis
  <2> QED
    BY <2>1, <2>3, <2>5, <1>3, <1>4 DEF TypeOK
<1>7. CASE FetchAndStreamTerminal(s)
  <2>1. cookie' = cookie
    BY <1>7 DEF FetchAndStreamTerminal
  <2>2. Done(s)
    BY <1>7 DEF FetchAndStreamTerminal
  <2>3. NetOK'
    BY <2>1, <2>2, <1>2, <1>3, GoesOn
  <2>4. terminal' = Failed \/ terminal' \in Record
    BY <1>7, <1>1, AnswersOfKind DEF FetchAndStreamTerminal, Answered
  <2>5. PageOK'
    BY <1>7, <2>4 DEF FetchAndStreamTerminal, TypeOK, PageOK, page, diagnosis
  <2> QED
    BY <2>1, <2>3, <2>5, <1>3, <1>4 DEF TypeOK
<1>8. CASE FailureAnswered(s)
  <2>1. cookie' = cookie
    BY <1>8 DEF FailureAnswered
  <2>2. Done(s)
    BY <1>8 DEF FailureAnswered
  <2>3. NetOK'
    BY <2>1, <2>2, <1>2, <1>3, GoesOn
  <2>4. net[s].answer = Failed \/ net[s].answer \in Record
    BY <1>8, <1>1, AnswersOfKind DEF FailureAnswered, Answered
  <2>5. failure' = Failed \/ failure' \in Record
    BY <1>8, <2>4 DEF FailureAnswered
  <2>6. current' \in Projects \cup {None}
    BY <1>8, <2>4 DEF FailureAnswered, TypeOK, PageOK, Record
  <2>7. PageOK'
    BY <1>8, <2>5, <2>6 DEF FailureAnswered, TypeOK, PageOK, page, console
  <2> QED
    BY <2>1, <2>3, <2>7, <1>3, <1>4 DEF TypeOK
<1>9. CASE SignAnswered(s)
  <2>1. cookie' \in 0..tokens
    BY <1>9, <1>1, <1>3, AnswersOfKind DEF SignAnswered, Answered
  <2>2. Done(s) \/ \E then : Follow(s, "auth", net[s].arg, then)
    BY <1>9 DEF SignAnswered
  <2>3. NetOK'
    BY <2>1, <2>2, <1>2, GoesOn
  <2>4. PageOK'
    BY <1>9 DEF SignAnswered, TypeOK, PageOK, page, console, diagnosis
  <2> QED
    BY <2>1, <2>3, <2>4, <1>4 DEF TypeOK
<1>10. CASE ActAnswered(s)
  <2>1. cookie' = cookie
    BY <1>10 DEF ActAnswered
  <2>2. Done(s) \/ \E then : Follow(s, "list", None, then)
    BY <1>10 DEF ActAnswered
  <2>3. NetOK'
    BY <2>1, <2>2, <1>2, <1>3, GoesOn
  <2>4. PageOK'
    BY <1>10 DEF ActAnswered, TypeOK, PageOK, page, console, diagnosis
  <2> QED
    BY <2>1, <2>3, <2>4, <1>3, <1>4 DEF TypeOK
<1> QED
  BY <1>5, <1>6, <1>7, <1>8, <1>9, <1>10 DEF Deliver

\* The history, the timers, a restart and a lost request.
LEMMA WorldTyped ==
  ASSUME TypeOK,
         \/ \E d \in Deps : HistoryMoves(d) \/ OpenSoon(d)
         \/ \E s \in Slots : Lose(s)
         \/ Restart \/ Poll \/ Tick
  PROVE  TypeOK'
<1>1. tokens \in Nat
  BY DEF TypeOK, ServerOK
<1>2. ASSUME NEW d \in Deps, HistoryMoves(d) PROVE TypeOK'
  <2>1. history' \in [Deps -> Status]
    BY <1>2 DEF HistoryMoves, Moves, TypeOK, ServerOK, Status
  <2> QED
    BY <1>2, <2>1 DEF HistoryMoves, TypeOK, ServerOK, NetOK, PageOK, page, console, diagnosis
<1>3. ASSUME NEW d \in Deps, OpenSoon(d) PROVE TypeOK'
  <2>1. NetOK'
    BY <1>3, Sends DEF OpenSoon, ShowTerminal, server
  <2>2. PageOK'
    BY <1>3 DEF OpenSoon, ShowTerminal, TypeOK, PageOK, page, diagnosis
  <2> QED
    BY <1>3, <2>1, <2>2 DEF OpenSoon, TypeOK, ServerOK, server
<1>4. ASSUME NEW s \in Slots, Lose(s) PROVE TypeOK'
  <2>1. NetOK'
    BY <1>4, <1>1, IsAnswered DEF Lose, server
  <2>2. PageOK'
    BY <1>4 DEF Lose, TypeOK, PageOK, page, console, diagnosis
  <2> QED
    BY <1>4, <2>1, <2>2 DEF Lose, TypeOK, ServerOK, server
<1>5. CASE Restart
  <2>1. PageOK'
    BY <1>5 DEF Restart, TypeOK, PageOK, page, console, diagnosis
  <2> QED
    BY <1>5, <2>1 DEF Restart, TypeOK, ServerOK, NetOK
<1>6. CASE Poll
  <2>1. NetOK'
    BY <1>6, Sends DEF Poll, server
  <2> QED
    BY <1>6, <2>1 DEF Poll, TypeOK, ServerOK, PageOK, server, page, console, diagnosis
<1>7. CASE Tick
  <2>1. active \in Deps
    BY <1>7 DEF Tick, TypeOK, PageOK
  <2>2. NetOK'
    BY <1>7, <2>1, Sends DEF Tick, server
  <2> QED
    BY <1>7, <2>2 DEF Tick, TypeOK, ServerOK, PageOK, server, page, console, diagnosis
<1> QED
  BY <1>2, <1>3, <1>4, <1>5, <1>6, <1>7

\* The user.
LEMMA UserTyped ==
  ASSUME TypeOK, User
  PROVE  TypeOK'
<1>1. /\ server' = server /\ cookie' = cookie /\ list' = list
      /\ failures' = failures /\ clicks < MaxClicks /\ clicks' = clicks + 1
  BY DEF User, Click, ClickLogin, ClickSettings, ClickLogout, ClickRefresh, ClickToggle,
         CloseTerminal, CloseFailure, ClickRetry, ClickDeploy, ClickStop, ClickViewLog,
         ClickWhyFailed
<1>2. ServerOK' /\ tokens' = tokens
  BY <1>1 DEF TypeOK, ServerOK, server
<1>3. NetOK'
  <2>1. CASE net' = net
    BY <2>1, <1>2 DEF TypeOK, NetOK
  <2>2. CASE \E kind, arg, then :
               /\ Send(kind, arg, then)
               /\ kind = "detail" => arg \in Deps
               /\ kind \in Signs => arg \in {"login", "settings", None} /\ then = None
    BY <2>2, <1>2, Sends
  <2> QED
    BY <2>1, <2>2
    DEF User, ClickLogin, ClickSettings, ClickLogout, ClickRefresh, ClickToggle,
        CloseTerminal, CloseFailure, ClickRetry, ClickDeploy, ClickStop, ClickViewLog,
        ClickWhyFailed, ShowTerminal
<1>4. clicks' \in 0..MaxClicks
  BY <1>1 DEF TypeOK, PageOK
<1>5. shown' \in BOOLEAN /\ auto' \in BOOLEAN /\ on' \in BOOLEAN /\ ticker' \in BOOLEAN
  BY DEF User, ClickLogin, ClickSettings, ClickLogout, ClickRefresh, ClickToggle,
         CloseTerminal, CloseFailure, ClickRetry, ClickDeploy, ClickStop, ClickViewLog,
         ClickWhyFailed, page, TypeOK, PageOK
<1>6. /\ active' \in Deps \cup {None}
      /\ terminal' \in {Loading, Failed} \/ terminal' \in Record
      /\ soon' \subseteq Deps
  BY DEF User, ClickLogin, ClickSettings, ClickLogout, ClickRefresh, ClickToggle,
         CloseTerminal, CloseFailure, ClickRetry, ClickDeploy, ClickStop, ClickViewLog,
         ClickWhyFailed, ShowTerminal, console, TypeOK, PageOK
<1>7. /\ dialog' \in BOOLEAN
      /\ failure' \in {Loading, Failed} \/ failure' \in Record
      /\ current' \in Projects \cup {None}
  BY DEF User, ClickLogin, ClickSettings, ClickLogout, ClickRefresh, ClickToggle,
         CloseTerminal, CloseFailure, ClickRetry, ClickDeploy, ClickStop, ClickViewLog,
         ClickWhyFailed, diagnosis, console, TypeOK, PageOK
<1>8. PageOK'
  BY <1>1, <1>4, <1>5, <1>6, <1>7 DEF TypeOK, PageOK
<1> QED
  BY <1>2, <1>3, <1>8 DEF TypeOK

\* Every reachable state is well typed: each request under way and its answer
\* fit together, no token is used that was not given out.
THEOREM TypeCorrect == Spec => []TypeOK
<1>1. TypeOK /\ [Next]_vars => TypeOK'
  <2> SUFFICES ASSUME TypeOK, [Next]_vars PROVE TypeOK'
    OBVIOUS
  <2>1. CASE UNCHANGED vars
    BY <2>1 DEF vars, server, page, console, diagnosis, TypeOK, ServerOK, NetOK, PageOK
  <2> QED
    BY <2>1, ServerTyped, DeliverTyped, WorldTyped, UserTyped DEF Next
<1> QED
  BY InitTyped, <1>1, PTL DEF Spec

-----------------------------------------------------------------------------
(* The token of the browser.  An answer that was not delivered yet may tell *)
(* that the browser's token was taken away, and may bring a new one, which  *)
(* the server knows and which nobody has used.                              *)

Telling(r) ==
  /\ r # Free /\ r.kind \in Signs /\ r.answer \notin {Pending, Failed}
Gives(r) == Telling(r) /\ r.kind # "logout"
Takes(r) == Telling(r) /\ r.kind # "login"

CookieLives ==
  cookie \in sessions \cup {0} \/ \E s \in Slots : Takes(net[s]) /\ net[s].cookie = cookie

NewTokenIsNew ==
  \A s \in Slots : Gives(net[s]) =>
    /\ net[s].answer \in sessions \ {cookie}
    /\ \A t \in Slots : net[t] # Free => net[t].cookie # net[s].answer
    /\ \A t \in Slots \ {s} : Gives(net[t]) => net[t].answer # net[s].answer

TokenInv == failures = 0 => CookieLives /\ NewTokenIsNew

\* What becomes of a slot in a step that neither brings nor delivers such an answer.
Untold(t) ==
  \/ net'[t] = net[t]
  \/ /\ ~Telling(net[t]) /\ ~Telling(net'[t])
     /\ \/ net'[t] = Free
        \/ net'[t].cookie = cookie
        \/ net[t] # Free /\ net'[t].cookie = net[t].cookie

LEMMA UntoldKeeps ==
  ASSUME TokenInv, UNCHANGED <<sessions, cookie>>, failures' = 0 => failures = 0,
         \A t \in Slots : Untold(t)
  PROVE  TokenInv'
<1> SUFFICES ASSUME failures' = 0 PROVE CookieLives' /\ NewTokenIsNew'
  BY DEF TokenInv
<1>1. CookieLives /\ NewTokenIsNew
  BY DEF TokenInv
<1>2. \A t \in Slots : Telling(net[t]) \/ Telling(net'[t]) => net'[t] = net[t]
  BY DEF Untold
<1>3. CookieLives'
  BY <1>1, <1>2 DEF CookieLives, Takes, Telling
<1>4. NewTokenIsNew'
  <2> SUFFICES ASSUME NEW s \in Slots, Gives(net'[s])
               PROVE  /\ net'[s].answer \in sessions \ {cookie}
                      /\ \A t \in Slots : net'[t] # Free => net'[t].cookie # net'[s].answer
                      /\ \A t \in Slots \ {s} : Gives(net'[t]) => net'[t].answer # net'[s].answer
    BY DEF NewTokenIsNew, Gives, Telling
  <2>1. net'[s] = net[s] /\ Gives(net[s])
    BY <1>2 DEF Gives
  <2>2. /\ net[s].answer \in sessions \ {cookie}
        /\ \A t \in Slots : net[t] # Free => net[t].cookie # net[s].answer
        /\ \A t \in Slots \ {s} : Gives(net[t]) => net[t].answer # net[s].answer
    BY <1>1, <2>1 DEF NewTokenIsNew
  <2>3. ASSUME NEW t \in Slots, net'[t] # Free PROVE net'[t].cookie # net[s].answer
    BY <2>2, <2>3 DEF Untold
  <2>4. ASSUME NEW t \in Slots \ {s}, Gives(net'[t]) PROVE net'[t].answer # net[s].answer
    BY <1>2, <2>2, <2>4 DEF Gives
  <2> QED
    BY <2>1, <2>2, <2>3, <2>4
<1> QED
  BY <1>3, <1>4

\* One slot changes.
LEMMA UntoldSlot ==
  ASSUME TypeOK, NEW s \in Slots, NEW r, net' = [net EXCEPT ![s] = r],
         ~Telling(net[s]), ~Telling(r),
         r = Free \/ r.cookie = cookie \/ (net[s] # Free /\ r.cookie = net[s].cookie)
  PROVE  \A t \in Slots : Untold(t)
BY DEF TypeOK, NetOK, Untold

LEMMA UntoldSend ==
  ASSUME TypeOK, NEW kind, NEW arg, NEW then, Send(kind, arg, then)
  PROVE  \A t \in Slots : Untold(t)
<1> DEFINE r == Request(kind, arg, then, cookie)
<1>1. PICK s \in Slots : net[s] = Free /\ net' = [net EXCEPT ![s] = r]
  BY DEF Send
<1>2. r.cookie = cookie /\ r.answer = Pending
  BY DEF Request
<1> HIDE DEF r
<1> QED
  BY <1>1, <1>2, UntoldSlot DEF Telling

\* A request that has been answered is gone, or another takes its place.
LEMMA UntoldGoesOn ==
  ASSUME TypeOK, NEW s \in Slots, ~Telling(net[s]), cookie' = cookie,
         Done(s) \/ \E kind, arg, then : Follow(s, kind, arg, then)
  PROVE  \A t \in Slots : Untold(t)
<1>1. CASE Done(s)
  BY <1>1, UntoldSlot DEF Done, Telling
<1>2. CASE \E kind, arg, then : Follow(s, kind, arg, then)
  <2>1. PICK kind, arg, then : Follow(s, kind, arg, then)
    BY <1>2
  <2> DEFINE r == Request(kind, arg, then, cookie)
  <2>2. net' = [net EXCEPT ![s] = r]
    BY <2>1 DEF Follow
  <2>3. r.cookie = cookie /\ r.answer = Pending
    BY DEF Request
  <2> HIDE DEF r
  <2> QED
    BY <2>2, <2>3, UntoldSlot DEF Telling
<1> QED
  BY <1>1, <1>2

\* What an answer leaves of its request.
LEMMA AnswerKeeps ==
  ASSUME TypeOK, NEW s \in Slots, net[s] # Free, NEW a
  PROVE  LET r == [net[s] EXCEPT !.answer = a]
         IN  r.kind = net[s].kind /\ r.cookie = net[s].cookie /\ r.answer = a
BY DEF TypeOK, NetOK, Legal

LEMMA UntoldAnswer ==
  ASSUME TypeOK, NEW s \in Slots, net[s] # Free, net[s].answer = Pending, NEW a, Answer(s, a),
         a = Failed \/ net[s].kind \notin Signs
  PROVE  \A t \in Slots : Untold(t)
<1> DEFINE r == [net[s] EXCEPT !.answer = a]
<1>1. net' = [net EXCEPT ![s] = r]
  BY DEF Answer
<1>2. r.kind = net[s].kind /\ r.cookie = net[s].cookie /\ r.answer = a
  BY AnswerKeeps
<1> HIDE DEF r
<1>3. ~Telling(net[s]) /\ ~Telling(r)
  BY <1>2 DEF Telling
<1> QED
  BY <1>1, <1>2, <1>3, UntoldSlot

\* The server ends the session of a request, or gives out a new one, or both.
LEMMA SignsKeeps ==
  ASSUME TypeOK, TokenInv, NEW s \in Slots, ServerSigns(s)
  PROVE  TokenInv'
<1> DEFINE r == net[s]
<1> SUFFICES ASSUME failures' = 0, ~(Answer(s, Failed) /\ UNCHANGED <<sessions, tokens>>)
             PROVE  CookieLives' /\ NewTokenIsNew'
  BY UntoldAnswer, UntoldKeeps DEF ServerSigns, TokenInv
<1>1. r # Free /\ r.answer = Pending /\ cookie' = cookie /\ failures = 0
  BY DEF ServerSigns
<1>2. CookieLives /\ NewTokenIsNew
  BY <1>1 DEF TokenInv
<1>3. /\ tokens \in Nat /\ cookie \in 0..tokens
      /\ \A t \in Slots : net[t] # Free => Legal(net[t], tokens)
  BY DEF TypeOK, ServerOK, NetOK
<1>4. PICK a :
        /\ Answer(s, a)
        /\ \/ r.kind = "logout" /\ a = Ok /\ sessions' = sessions \ {r.cookie}
           \/ /\ r.kind \in {"login", "settings"} /\ a = tokens + 1 /\ a \in 1..MaxTokens
              /\ sessions' = (IF r.kind = "settings" THEN sessions \ {r.cookie} ELSE sessions)
                             \cup {a}
  <2>1. tokens < MaxTokens => tokens + 1 \in 1..MaxTokens
    BY <1>3
  <2> QED
    BY <2>1 DEF ServerSigns
<1>5. a \notin {Pending, Failed}
  BY <1>3, <1>4
<1>6. /\ \A t \in Slots : t # s => net'[t] = net[t]
      /\ net'[s] = [r EXCEPT !.answer = a]
  BY <1>4 DEF Answer, TypeOK, NetOK
<1>7. net'[s].kind = r.kind /\ net'[s].cookie = r.cookie /\ net'[s].answer = a
  BY <1>1, <1>6, AnswerKeeps
<1>8. net'[s] # Free
  <2>1. /\ a \in 0..MaxTokens \cup {Ok} /\ r.cookie \in 0..MaxTokens /\ r.kind \in Signs
        /\ r.arg \in {"login", "settings", None} /\ r.then = None
        /\ r = [kind |-> r.kind, arg |-> r.arg, then |-> r.then,
                cookie |-> r.cookie, answer |-> r.answer]
    <3>1. 0..tokens \subseteq 0..MaxTokens /\ 1..MaxTokens \subseteq 0..MaxTokens
      BY DEF TypeOK, ServerOK
    <3> QED
      BY <3>1, <1>1, <1>3, <1>4 DEF Legal
  <2>2. net'[s] = [kind |-> r.kind, arg |-> r.arg, then |-> r.then,
                   cookie |-> r.cookie, answer |-> a]
    BY <2>1, <1>6
  <2> QED
    BY <2>1, <2>2
<1>9. Telling(net'[s]) /\ ~Telling(net[s])
  BY <1>1, <1>4, <1>5, <1>7, <1>8 DEF Telling
<1>10. CookieLives'
  <2>1. CASE \E t \in Slots : Takes(net[t]) /\ net[t].cookie = cookie
    <3>1. PICK t \in Slots : Takes(net[t]) /\ net[t].cookie = cookie
      BY <2>1
    <3>2. net'[t] = net[t]
      BY <3>1, <1>6, <1>9 DEF Takes
    <3> QED
      BY <3>1, <3>2, <1>1 DEF CookieLives, Takes, Telling
  <2>2. CASE cookie \in sessions \cup {0} /\ cookie \in sessions' \cup {0}
    BY <2>2, <1>1 DEF CookieLives
  <2>3. CASE cookie \in sessions \cup {0} /\ cookie \notin sessions' \cup {0}
    <3>1. r.kind # "login" /\ r.cookie = cookie
      BY <2>3, <1>4
    <3> QED
      BY <3>1, <1>1, <1>7, <1>9 DEF CookieLives, Takes, Telling
  <2> QED
    BY <1>2, <2>1, <2>2, <2>3 DEF CookieLives
<1>11. NewTokenIsNew'
  <2> SUFFICES ASSUME NEW u \in Slots, Gives(net'[u])
               PROVE  /\ net'[u].answer \in sessions' \ {cookie}
                      /\ \A t \in Slots : net'[t] # Free => net'[t].cookie # net'[u].answer
                      /\ \A t \in Slots \ {u} : Gives(net'[t]) => net'[t].answer # net'[u].answer
    BY <1>1 DEF NewTokenIsNew, Gives, Telling
  <2>1. \A t \in Slots : net'[t] # Free => net[t] # Free /\ net'[t].cookie = net[t].cookie
    BY <1>1, <1>6, <1>7
  <2>2. \A t \in Slots : t # s /\ Gives(net[t]) => net[t].answer \in 1..tokens
    BY AnswersOfKind DEF Gives, Telling
  <2>3. CASE u = s
    <3>1. a = tokens + 1 /\ a \in sessions'
      BY <2>3, <1>4, <1>7 DEF Gives
    <3>2. \A t \in Slots : net'[t] # Free => net'[t].cookie # a
      <4>1. \A t \in Slots : net[t] # Free => net[t].cookie \in 0..tokens
        BY <1>3 DEF Legal
      <4> QED
        BY <4>1, <3>1, <2>1, <1>3
    <3>3. \A t \in Slots \ {s} : Gives(net'[t]) => net'[t].answer # a
      BY <3>1, <2>2, <1>3, <1>6 DEF Gives
    <3> QED
      BY <3>1, <3>2, <3>3, <2>3, <1>3, <1>7
  <2>4. CASE u # s
    <3>1. net'[u] = net[u] /\ Gives(net[u])
      BY <2>4, <1>6
    <3>2. /\ net[u].answer \in sessions \ {cookie}
          /\ \A t \in Slots : net[t] # Free => net[t].cookie # net[u].answer
          /\ \A t \in Slots \ {u} : Gives(net[t]) => net[t].answer # net[u].answer
      BY <3>1, <1>2 DEF NewTokenIsNew
    <3>3. net[u].answer \in sessions' \ {cookie}
      BY <3>2, <1>1, <1>4
    <3>4. \A t \in Slots : net'[t] # Free => net'[t].cookie # net[u].answer
      BY <3>2, <2>1
    <3>5. ASSUME NEW t \in Slots \ {u}, Gives(net'[t]) PROVE net'[t].answer # net[u].answer
      <4>1. CASE t = s
        <5>1. net'[t].answer = tokens + 1
          BY <4>1, <3>5, <1>4, <1>7 DEF Gives
        <5> QED
          BY <5>1, <2>2, <2>4, <3>1, <1>3
      <4>2. CASE t # s
        BY <4>2, <3>2, <3>5, <1>6
      <4> QED
        BY <4>1, <4>2
    <3> QED
      BY <3>1, <3>3, <3>4, <3>5
  <2> QED
    BY <2>3, <2>4
<1> QED
  BY <1>10, <1>11

\* The browser takes over the token of an answer, or drops its own.
LEMMA SignAnsweredKeeps ==
  ASSUME TypeOK, TokenInv, NEW s \in Slots, SignAnswered(s)
  PROVE  TokenInv'
<1> DEFINE r == net[s]
<1>1. CASE r.answer = Failed
  <2>1. cookie' = cookie /\ Done(s) /\ UNCHANGED <<sessions, failures>> /\ ~Telling(net[s])
    BY <1>1 DEF SignAnswered, server, Telling
  <2> QED
    BY <2>1, UntoldGoesOn, UntoldKeeps
<1>2. CASE r.answer # Failed
  <2> SUFFICES ASSUME failures' = 0 PROVE CookieLives' /\ NewTokenIsNew'
    BY DEF TokenInv
  <2>1. /\ r # Free /\ r.kind \in Signs /\ Telling(r)
        /\ cookie' = IF r.kind = "logout" THEN 0 ELSE r.answer
        /\ \E kind, arg, then : Follow(s, kind, arg, then)
        /\ sessions' = sessions /\ failures = 0
    BY <1>2 DEF SignAnswered, Answered, Telling, server
  <2>2. CookieLives /\ NewTokenIsNew
    BY <2>1 DEF TokenInv
  <2>3. PICK kind, arg, then : net' = [net EXCEPT ![s] = Request(kind, arg, then, cookie')]
    BY <2>1 DEF Follow
  <2>4. /\ \A t \in Slots : t # s => net'[t] = net[t]
        /\ net'[s].cookie = cookie' /\ net'[s].answer = Pending
    BY <2>3 DEF TypeOK, NetOK, Request
  <2>5. cookie' \in sessions' \cup {0}
    BY <2>1, <2>2 DEF NewTokenIsNew, Gives
  <2>6. NewTokenIsNew'
    <3> SUFFICES ASSUME NEW u \in Slots, Gives(net'[u])
                 PROVE  /\ net'[u].answer \in sessions \ {cookie'}
                        /\ \A t \in Slots : net'[t] # Free => net'[t].cookie # net'[u].answer
                        /\ \A t \in Slots \ {u} : Gives(net'[t]) => net'[t].answer # net'[u].answer
      BY <2>1 DEF NewTokenIsNew, Gives, Telling
    <3>1. u # s /\ net'[u] = net[u] /\ Gives(net[u])
      BY <2>4 DEF Gives, Telling
    <3>2. /\ net[u].answer \in sessions \ {cookie}
          /\ \A t \in Slots : net[t] # Free => net[t].cookie # net[u].answer
          /\ \A t \in Slots \ {u} : Gives(net[t]) => net[t].answer # net[u].answer
      BY <3>1, <2>2 DEF NewTokenIsNew
    <3>3. net[u].answer # 0
      BY <3>1, AnswersOfKind DEF Gives, Telling, TypeOK, ServerOK
    <3>4. net[u].answer # cookie'
      BY <3>1, <3>2, <3>3, <2>1 DEF Gives
    <3>5. \A t \in Slots : net'[t] # Free => net'[t].cookie # net[u].answer
      BY <3>2, <3>4, <2>4
    <3>6. \A t \in Slots \ {u} : Gives(net'[t]) => net'[t].answer # net[u].answer
      BY <3>2, <2>4 DEF Gives, Telling
    <3> QED
      BY <3>1, <3>2, <3>4, <3>5, <3>6
  <2> QED
    BY <2>5, <2>6 DEF CookieLives
<1> QED
  BY <1>1, <1>2

\* What else the server does and what else follows an answer.
LEMMA OtherKeeps ==
  ASSUME TypeOK, TokenInv, NEW s \in Slots,
         \/ ServerReads(s) \/ ServerActs(s)
         \/ CheckAuth(s) \/ FetchDeployments(s) \/ FetchAndStreamTerminal(s)
         \/ FailureAnswered(s) \/ ActAnswered(s)
  PROVE  TokenInv'
<1>1. CASE ServerReads(s) \/ ServerActs(s)
  <2>1. /\ net[s] # Free /\ net[s].answer = Pending
        /\ net[s].kind \in {"auth", "list", "detail", "deploy", "stop"}
        /\ \E a : Answer(s, a)
        /\ cookie' = cookie /\ sessions' = sessions /\ failures' = failures
    BY <1>1 DEF ServerReads, ServerActs, server
  <2> QED
    BY <2>1, UntoldAnswer, UntoldKeeps
<1>2. CASE \/ CheckAuth(s) \/ FetchDeployments(s) \/ FetchAndStreamTerminal(s)
           \/ FailureAnswered(s) \/ ActAnswered(s)
  <2>1. /\ net[s].kind \in {"auth", "list", "detail", "deploy", "stop"}
        /\ Done(s) \/ \E kind, arg, then : Follow(s, kind, arg, then)
        /\ cookie' = cookie /\ sessions' = sessions /\ failures' = failures
    BY <1>2 DEF CheckAuth, FetchDeployments, FetchAndStreamTerminal, FailureAnswered,
                ActAnswered, Answered, server
  <2>2. ~Telling(net[s])
    BY <2>1 DEF Telling
  <2> QED
    BY <2>1, <2>2, UntoldGoesOn, UntoldKeeps
<1> QED
  BY <1>1, <1>2

\* The history, the timers and the user.
LEMMA PageKeeps ==
  ASSUME TypeOK, TokenInv,
         Poll \/ Tick \/ User \/ \E d \in Deps : HistoryMoves(d) \/ OpenSoon(d)
  PROVE  TokenInv'
<1>1. /\ net' = net \/ \E kind, arg, then : Send(kind, arg, then)
      /\ cookie' = cookie /\ sessions' = sessions /\ failures' = failures
  BY DEF Poll, Tick, HistoryMoves, OpenSoon, ShowTerminal, server, User, Click, ClickLogin,
         ClickSettings, ClickLogout, ClickRefresh, ClickToggle, CloseTerminal, CloseFailure,
         ClickRetry, ClickDeploy, ClickStop, ClickViewLog, ClickWhyFailed
<1>2. \A t \in Slots : Untold(t)
  BY <1>1, UntoldSend DEF Untold
<1> QED
  BY <1>1, <1>2, UntoldKeeps

\* Without a restart and a lost answer the browser's token is known to the server,
\* or there is none, whenever no request that takes a token away is under way: in
\* whatever order sign-outs, sign-ins and changes of the settings are served and
\* their answers arrive, and however many overlap.
THEOREM CookieStaysGood == Spec => []CookieIsGood
<1>1. Init => TokenInv
  <2> SUFFICES ASSUME Init PROVE CookieLives /\ NewTokenIsNew
    BY DEF TokenInv
  <2>1. \A s \in Slots : ~Telling(net[s])
    BY DEF Init, Request, Telling
  <2> QED
    BY <2>1 DEF Init, CookieLives, NewTokenIsNew, Gives
<1>2. TypeOK /\ TokenInv /\ [Next]_vars => TokenInv'
  <2> SUFFICES ASSUME TypeOK, TokenInv, [Next]_vars PROVE TokenInv'
    OBVIOUS
  <2>1. CASE Restart \/ \E s \in Slots : Lose(s)
    BY <2>1 DEF Restart, Lose, TokenInv, TypeOK, PageOK
  <2>2. CASE UNCHANGED vars
    <3>1. (\A t \in Slots : Untold(t)) /\ UNCHANGED <<sessions, cookie, failures>>
      BY <2>2 DEF vars, server, Untold
    <3> QED
      BY <3>1, UntoldKeeps
  <2> QED
    BY <2>1, <2>2, SignsKeeps, SignAnsweredKeeps, OtherKeeps, PageKeeps
    DEF Next, Serve, Deliver
<1>3. TokenInv => CookieIsGood
  BY DEF TokenInv, CookieLives, CookieIsGood, Signing, Takes, Telling
<1> QED
  BY <1>1, <1>2, <1>3, TypeCorrect, PTL DEF Spec
=============================================================================
