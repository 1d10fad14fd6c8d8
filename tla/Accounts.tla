----------------------------- MODULE Accounts -----------------------------
(***************************************************************************)
(* Accounts, tokens and the visits of a browser: the gateway's start with  *)
(* its store (gateway/cmd/server/main.go), register, login, history and    *)
(* the saving of runs (internal/http/handlers.go), the tokens              *)
(* (internal/auth/token.go), the tables (internal/storage/postgres.go),    *)
(* the pages and their redirects (internal/http/pages.go) and what the     *)
(* pages' scripts do with tokens and refusals.                             *)
(*                                                                         *)
(* The tabs of a browser share its cookie and its localStorage.  A token   *)
(* is carried twice: the login's response sets the cookie, then the page's *)
(* script stores the token, which later calls send as a header that wins   *)
(* over the cookie; loading a page sends the cookie only.  Time is counted *)
(* in units of which a token lives TTL.  auth_sessions is written at each  *)
(* login and never read: it is left out.                                   *)
(***************************************************************************)
EXTENDS Integers, FiniteSets

CONSTANTS Tab, Browser,
          Visits,      \* bounds: what happens at most, [browserOf: the browser of each
                       \* tab, forms: the credentials typed, ticks: of the clock,
                       \* troubles: failures of /api/me, and by[t]: the pages opened
                       \* by hand, forms and frames sent in t]
          Credentials, \* what is typed into a form: [name, password]
          ColonNames,  \* the names that have a ":" in them
          NoToken, NoUser, NoAuth,
          Attempts,    \* the attempts to reach the database at the start (12)
          TTL          \* the life of a token

ASSUME AccountsAssumption ==
    /\ TTL \in Nat /\ Attempts \in Nat \ {0}
    /\ \A v \in Visits :
          /\ {"browserOf", "forms", "ticks", "troubles", "by"} \subseteq DOMAIN v
          /\ v.browserOf \in [Tab -> Browser] /\ {v.ticks, v.troubles} \subseteq Nat
          /\ v.forms \subseteq Credentials
          /\ v.by \in [Tab -> [opens : Nat, auths : Nat, frames : Nat]]

VARIABLES boot,      \* the start of the gateway: [stage, attempt]
          store,     \* whether the gateway has a store
          now,
          users,     \* the rows of users: [id, name, password]
          runs,      \* the rows of processing_runs: [user, by]
          visit,     \* what is left of the bounds
          cookie,    \* auth_token of each browser
          storage,   \* localStorage's token of each browser
          page, nav, \* the page of a tab, and the path it is navigating to
          token,     \* the app page's own variable
          calls,     \* the API calls a tab's page has in flight
          auth,      \* the login or registration a tab has in flight
          history    \* what a tab shows: the rows, and whose token asked

db == << users, runs >>
jar == << cookie, storage >>
tabs == << page, nav, token, calls, auth, history >>
fixed == << boot, store >>
vars == << fixed, now, db, jar, tabs, visit >>

Page == {"blank", "login", "panel", "app"}
Path == {"/", "/login", "/panel", "/app", "/logout"}
NoPath == "stay"
NoHistory == [rows |-> {}, by |-> NoUser]

\* A token of a user; `by` is the password that was supplied for it.
Token == [id : Nat, name : { c.name : c \in Credentials }, exp : Nat,
          by : { c.password : c \in Credentials }]

AccountsTypeOK ==
    /\ boot.stage \in {"connect", "migrate", "serving", "exited"}
    /\ boot.attempt \in 1 .. Attempts
    /\ cookie \in [Browser -> Token \cup {NoToken}]
    /\ storage \in [Browser -> Token \cup {NoToken}]
    /\ page \in [Tab -> Page] /\ nav \in [Tab -> Path \cup {NoPath}]
    /\ \A u, v \in users : u.id = v.id \/ u.name = v.name => u = v
    /\ ~ store => users = {}

Init ==
    /\ store \in BOOLEAN
    /\ boot = [stage |-> IF store THEN "connect" ELSE "serving", attempt |-> 1]
    /\ now = 0
    /\ users = {} /\ runs = {}
    /\ visit \in Visits
    /\ cookie = [b \in Browser |-> NoToken] /\ storage = [b \in Browser |-> NoToken]
    /\ page = [t \in Tab |-> "blank"] /\ nav = [t \in Tab |-> NoPath]
    /\ token = [t \in Tab |-> NoToken]
    /\ calls = [t \in Tab |-> {}]
    /\ auth = [t \in Tab |-> NoAuth]
    /\ history = [t \in Tab |-> NoHistory]

Serving == boot.stage = "serving"
browserOf == visit.browserOf
Spend(t, what) == visit.by[t][what] > 0 /\ visit' = [visit EXCEPT !.by[t][what] = @ - 1]

-----------------------------------------------------------------------------
(* The start.                                                              *)

\* openStoreWithRetry: each attempt has five seconds, two pass between them.
Connect ==
    /\ boot.stage = "connect"
    /\ \/ boot' = [boot EXCEPT !.stage = "migrate"]
       \/ /\ boot.attempt < Attempts
          /\ boot' = [boot EXCEPT !.attempt = @ + 1]
       \/ /\ boot.attempt = Attempts
          /\ boot' = [boot EXCEPT !.stage = "exited"]
    /\ UNCHANGED << store, now, db, jar, tabs, visit >>

Migrate ==
    /\ boot.stage = "migrate"
    /\ boot' \in { [stage |-> s, attempt |-> 1] : s \in {"serving", "exited"} }
    /\ UNCHANGED << store, now, db, jar, tabs, visit >>

Tick ==
    /\ Serving
    /\ visit.ticks > 0 /\ visit' = [visit EXCEPT !.ticks = @ - 1]
    /\ now' = now + 1
    /\ UNCHANGED << fixed, db, jar, tabs >>

-----------------------------------------------------------------------------
(* Tokens.                                                                 *)

Issue(user, password) ==
    [id |-> user.id, name |-> user.name, exp |-> now + TTL, by |-> password]

\* The payload is split at ":" into exactly four parts, then signature and time
\* are checked; a signature that is wrong cannot come from a page.
Verify(tok) == tok # NoToken /\ tok.name \notin ColonNames /\ now <= tok.exp

\* The header, if there is one, else the cookie.
ExtractToken(header, sent) == IF header # NoToken THEN header ELSE sent

\* The cookie a browser sends: it lives as long as its token, whole seconds
\* rounded down.
Sent(b) == IF cookie[b] # NoToken /\ now < cookie[b].exp THEN cookie[b] ELSE NoToken

-----------------------------------------------------------------------------
(* Pages.                                                                  *)

OpenPath(t) ==
    /\ Serving /\ nav[t] = NoPath
    /\ Spend(t, "opens")
    /\ \E path \in Path : nav' = [nav EXCEPT ![t] = path]
    /\ UNCHANGED << fixed, now, db, jar, page, token, calls, auth, history >>

Goto(t, path) ==
    /\ nav' = [nav EXCEPT ![t] = path]
    /\ UNCHANGED << page, token, calls, auth, history >>

Call(kind, header) == [kind |-> kind, header |-> header, user |-> NoUser]

\* A page is loaded: what the one before had in flight is given up, although the
\* gateway may go on with it.  The panel asks who it is and for the statistics.
Show(t, p) ==
    LET stored == storage[browserOf[t]]
    IN  /\ page' = [page EXCEPT ![t] = p]
        /\ nav' = [nav EXCEPT ![t] = NoPath]
        /\ token' = [token EXCEPT ![t] = IF p = "app" THEN stored ELSE NoToken]
        /\ calls' = [calls EXCEPT ![t] =
                        IF p = "panel" THEN {Call("me", stored), Call("stats", stored)} ELSE {}]
        /\ auth' = [auth EXCEPT ![t] = IF @ = NoAuth THEN @ ELSE [@ EXCEPT !.heard = FALSE]]
        /\ history' = [history EXCEPT ![t] = NoHistory]

\* HandleRoot, HandleLoginPage, HandlePanelPage (for /app too) and HandleLogout.
Arrive(t) ==
    /\ Serving
    /\ LET known == Verify(Sent(browserOf[t]))
       IN  \/ /\ nav[t] = "/"
              /\ Goto(t, IF known THEN "/panel" ELSE "/login")
              /\ UNCHANGED cookie
           \/ /\ nav[t] = "/login"
              /\ IF known THEN Goto(t, "/panel") ELSE Show(t, "login")
              /\ UNCHANGED cookie
           \/ /\ nav[t] \in {"/panel", "/app"}
              /\ IF known THEN Show(t, IF nav[t] = "/panel" THEN "panel" ELSE "app")
                          ELSE Goto(t, "/login")
              /\ UNCHANGED cookie
           \/ /\ nav[t] = "/logout"
              /\ cookie' = [cookie EXCEPT ![browserOf[t]] = NoToken]
              /\ Goto(t, "/login")
    /\ UNCHANGED << fixed, now, db, storage, visit >>

-----------------------------------------------------------------------------
(* Login and registration, from the login page or the app page.            *)

Submit(t) ==
    /\ Serving
    /\ page[t] \in {"login", "app"} /\ auth[t] = NoAuth
    /\ Spend(t, "auths")
    /\ \E kind \in {"register", "login"}, c \in visit.forms :
          auth' = [auth EXCEPT ![t] =
                      [kind |-> kind, cred |-> c, stage |-> "sent", issued |-> NoToken, heard |-> TRUE]]
    /\ UNCHANGED << fixed, now, db, jar, page, nav, token, calls, history >>

\* The gateway has answered: with a token, or with an error, which is shown.
Answered(t, tok) ==
    auth' = IF tok = NoToken THEN [auth EXCEPT ![t] = NoAuth]
            ELSE [auth EXCEPT ![t].stage = "answered", ![t].issued = tok]

\* The username is unique.
Row(name) == { u \in users : u.name = name }

\* What the insert of CreateUser returns for a free name.
NewUser(c) == [id |-> Cardinality(users) + 1, name |-> c.name, password |-> c.password]

\* Authenticate: the row that has the name, if it has the password.
Matching(c) == { u \in Row(c.name) : u.password = c.password }

\* Variant: the insert updates the row that has the name.
CreateUserOrUpdate(t) ==
    LET c == auth[t].cred
        u == [NewUser(c) EXCEPT !.id =
                 IF Row(c.name) = {} THEN @ ELSE (CHOOSE r \in Row(c.name) : TRUE).id]
    IN  /\ auth[t] # NoAuth /\ auth[t].kind = "register" /\ auth[t].stage = "sent" /\ store
        /\ users' = (users \ Row(c.name)) \cup {u}
        /\ Answered(t, Issue(u, c.password))
        /\ UNCHANGED << fixed, now, runs, jar, page, nav, token, calls, history, visit >>

\* HandleRegister: the insert finds the name free, or fails on the unique name
\* or on the connection; the row may be there although an error is reported.
CreateUser(t) ==
    LET c == auth[t].cred
    IN  /\ auth[t] # NoAuth /\ auth[t].kind = "register" /\ auth[t].stage = "sent" /\ store
        /\ \/ /\ Row(c.name) = {}
              /\ users' = users \cup {NewUser(c)}
              /\ Answered(t, Issue(NewUser(c), c.password)) \/ Answered(t, NoToken)
           \/ Answered(t, NoToken) /\ UNCHANGED users
        /\ UNCHANGED << fixed, now, runs, jar, page, nav, token, calls, history, visit >>

\* HandleLogin: no such row, another password, or an error of the query.
Authenticate(t) ==
    LET c == auth[t].cred
    IN  /\ auth[t] # NoAuth /\ auth[t].kind = "login" /\ auth[t].stage = "sent" /\ store
        /\ \/ \E u \in Matching(c) : Answered(t, Issue(u, c.password))
           \/ Answered(t, NoToken)
        /\ UNCHANGED << fixed, now, db, jar, page, nav, token, calls, history, visit >>

\* Without a store both are refused.
Unavailable(t) ==
    /\ auth[t] # NoAuth /\ auth[t].stage = "sent" /\ ~ store
    /\ Answered(t, NoToken)
    /\ UNCHANGED << fixed, now, db, jar, page, nav, token, calls, history, visit >>

\* The response of writeToken reaches the browser, which keeps the cookie even
\* when the page is about to be left; one that nobody waits for may be lost.
SetCookie(t) ==
    /\ auth[t] # NoAuth /\ auth[t].stage = "answered"
    /\ auth' = [auth EXCEPT ![t].stage = "read"]
    /\ \/ cookie' = [cookie EXCEPT ![browserOf[t]] = auth[t].issued]
       \/ ~ auth[t].heard /\ UNCHANGED cookie
    /\ UNCHANGED << fixed, now, db, storage, page, nav, token, calls, history, visit >>

\* The script goes on, if its page is still there: doLogin and doRegister leave
\* for the panel, the app page keeps the token for its own calls.
KeepToken(t) ==
    /\ auth[t] # NoAuth /\ auth[t].stage = "read"
    /\ auth' = [auth EXCEPT ![t] = NoAuth]
    /\ IF auth[t].heard
       THEN /\ storage' = [storage EXCEPT ![browserOf[t]] = auth[t].issued]
            /\ token' = IF page[t] = "app" THEN [token EXCEPT ![t] = auth[t].issued] ELSE token
            /\ nav' = IF page[t] = "login" THEN [nav EXCEPT ![t] = "/panel"] ELSE nav
       ELSE UNCHANGED << storage, token, nav >>
    /\ UNCHANGED << fixed, now, db, cookie, page, calls, history, visit >>

-----------------------------------------------------------------------------
(* The calls of the panel and of the app page.                             *)

Header(t) == IF page[t] = "panel" THEN storage[browserOf[t]] ELSE token[t]

Pending(t, kind) == { c \in calls[t] : c.kind = kind }

\* A call made by hand, one at a time.  The panel repeats its calls of the start every two and
\* four seconds; these repeats meet the same answers and are left out.
Ask(t, kind) ==
    /\ Serving
    /\ \A c \in calls[t] : c.kind \in {"me", "stats"}
    /\ calls' = [calls EXCEPT ![t] = @ \cup {Call(kind, Header(t))}]
    /\ history' = [history EXCEPT ![t] = NoHistory]
    /\ UNCHANGED << fixed, now, db, jar, page, nav, token, auth >>

AskHistory(t) == page[t] = "app" /\ Ask(t, "history") /\ UNCHANGED visit
SendFrame(t) == page[t] \in {"panel", "app"} /\ Ask(t, "process") /\ Spend(t, "frames")

CallUser(t, c) == ExtractToken(c.header, Sent(browserOf[t]))

\* Variant: the token stays in localStorage.
RefusedKeepsToken(t, c) ==
    /\ calls' = [calls EXCEPT ![t] = @ \ {c}]
    /\ nav' = IF page[t] = "panel" THEN [nav EXCEPT ![t] = "/login"] ELSE nav
    /\ UNCHANGED storage

\* 401: the panel's fetch forgets the token and leaves for the login page; its
\* very first call, for /api/me, does not go through that fetch and only leaves.
\* The app page shows the error.
Refused(t, c) ==
    /\ calls' = [calls EXCEPT ![t] = @ \ {c}]
    /\ storage' = IF page[t] = "panel" /\ c.kind # "me"
                  THEN [storage EXCEPT ![browserOf[t]] = NoToken] ELSE storage
    /\ nav' = IF page[t] = "panel" THEN [nav EXCEPT ![t] = "/login"] ELSE nav

Unauthorized(t, kind) ==
    /\ Serving
    /\ \E c \in Pending(t, kind) :
          /\ c.user = NoUser /\ ~ Verify(CallUser(t, c))
          /\ Refused(t, c)
    /\ UNCHANGED << fixed, now, db, cookie, page, token, auth, history, visit >>

\* Any other failure of the panel's first call, of the network or a 429, makes it
\* leave as well.
MeFails(t) ==
    /\ visit.troubles > 0 /\ visit' = [visit EXCEPT !.troubles = @ - 1]
    /\ \E c \in Pending(t, "me") :
          /\ calls' = [calls EXCEPT ![t] = @ \ {c}]
          /\ nav' = [nav EXCEPT ![t] = "/login"]
    /\ UNCHANGED << fixed, now, db, jar, page, token, auth, history >>

\* HandleMe and HandleStats.
Served(t, kind) ==
    /\ Serving
    /\ \E c \in Pending(t, kind) :
          /\ Verify(CallUser(t, c))
          /\ calls' = [calls EXCEPT ![t] = @ \ {c}]
    /\ UNCHANGED << fixed, now, db, jar, page, nav, token, auth, history, visit >>

\* Variant: the query has no WHERE.
RecentRunsOfAll(user) == runs

RecentRuns(user) == { r \in runs : r.user = user.id }

\* HandleHistory.
ShowHistory(t) ==
    /\ Serving
    /\ \E c \in Pending(t, "history") :
          /\ Verify(CallUser(t, c))
          /\ calls' = [calls EXCEPT ![t] = @ \ {c}]
          /\ IF store
             THEN history' = [history EXCEPT ![t] =
                                 [rows |-> RecentRuns(CallUser(t, c)), by |-> CallUser(t, c).by]]
             ELSE UNCHANGED history
    /\ UNCHANGED << fixed, now, db, jar, page, nav, token, auth, visit >>

\* HandleProcessFrame takes its user first, then the frame is processed.
TakeFrame(t) ==
    /\ Serving
    /\ \E c \in Pending(t, "process") :
          /\ c.user = NoUser /\ Verify(CallUser(t, c))
          /\ calls' = [calls EXCEPT ![t] = (@ \ {c}) \cup {[c EXCEPT !.user = CallUser(t, c)]}]
    /\ UNCHANGED << fixed, now, db, jar, page, nav, token, auth, history, visit >>

\* Then its run is saved, unless the processor or the database fails.
SaveRun(t) ==
    /\ Serving
    /\ \E c \in Pending(t, "process") :
          /\ c.user # NoUser
          /\ calls' = [calls EXCEPT ![t] = @ \ {c}]
          /\ \/ store /\ runs' = runs \cup {[user |-> c.user.id, by |-> c.user.by]}
             \/ UNCHANGED runs
    /\ UNCHANGED << fixed, now, users, jar, page, nav, token, auth, history, visit >>

-----------------------------------------------------------------------------
AuthStep(t) ==
    CreateUser(t) \/ Authenticate(t) \/ Unavailable(t) \/ SetCookie(t) \/ KeepToken(t)

Kind == {"me", "stats", "history", "process"}

CallStep(t) ==
    \/ \E kind \in Kind : Unauthorized(t, kind)
    \/ MeFails(t) \/ Served(t, "me") \/ Served(t, "stats")
    \/ ShowHistory(t) \/ TakeFrame(t) \/ SaveRun(t)

PersonStep(t) == OpenPath(t) \/ Submit(t) \/ AskHistory(t) \/ SendFrame(t)

Next ==
    \/ Connect \/ Migrate \/ Tick
    \/ \E t \in Tab : PersonStep(t) \/ Arrive(t) \/ AuthStep(t) \/ CallStep(t)

\* The gateway's start goes on, and what is asked is answered.  Of a panel that
\* is left and loaded again and again, the answer to the statistics comes once
\* before the page has been replaced.
Fairness ==
    /\ WF_vars(Connect \/ Migrate)
    /\ \A t \in Tab :
          /\ WF_vars(Arrive(t)) /\ WF_vars(AuthStep(t))
          /\ \A kind \in {"me", "stats"} : WF_vars(Served(t, kind) \/ Unauthorized(t, kind))
          /\ SF_vars(Unauthorized(t, "stats"))

Spec == Init /\ [][Next]_vars /\ Fairness

-----------------------------------------------------------------------------
(* Properties.                                                             *)

Held == { cookie[b] : b \in Browser } \cup { storage[b] : b \in Browser }
        \cup { token[t] : t \in Tab } \cup { auth[t].issued : t \in { t \in Tab : auth[t] # NoAuth } }

\* Every token a browser holds is for an account whose password was supplied for
\* it, however registrations of one name race, answers are lost and forms are
\* sent again: of those who ask for a free name one gets it, and the others
\* neither take the account over nor get a token for it.
TokensAreEarned ==
    \A tok \in Held \ {NoToken} :
        \E u \in users : u.id = tok.id /\ u.name = tok.name /\ u.password = tok.by

\* A history shows only runs of frames that were sent with the password of the
\* account that asks for it, whoever else logged in on the same browser between
\* the frame, its saving and the question.
HistoryIsOwn ==
    \A t \in Tab : \A r \in history[t].rows : r.by = history[t].by

\* A visit comes to rest on a page: the redirects between /, /login and /panel
\* and the panel's own departures for /login do not go round for ever, also when
\* the stored token and the cookie disagree.
VisitsSettle ==
    \A t \in Tab : []<>(~ Serving \/ (nav[t] = NoPath /\ Pending(t, "me") = {}))
=============================================================================
