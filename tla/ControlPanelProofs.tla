-------------------------- MODULE ControlPanelProofs --------------------------
(***************************************************************************)
(* Proofs about accounts and tokens, for any number of tabs, browsers,     *)
(* names and visits, and about the panel: what its scripts do keeps the    *)
(* accounts as they are, the load generator's counters fit, and what the   *)
(* camera stream has started can be stopped, for any number of messages,   *)
(* starts and frames.                                                      *)
(***************************************************************************)
EXTENDS ControlPanel, FiniteSetTheorems, TLAPS

(***************************************************************************)
(* Accounts, tokens and sessions: the pages without the panel's scripts.   *)
(***************************************************************************)

\* Somebody supplied the password of the account the token is for.
Earned(tok) == \E u \in users : u.id = tok.id /\ u.name = tok.name /\ u.password = tok.by
Fine(tok) == tok = NoToken \/ Earned(tok)

\* BIGSERIAL and UNIQUE: a row has an id and a name of its own.
UsersFit ==
    /\ IsFiniteSet(users)
    /\ \A u \in users : u.id \in 1 .. Cardinality(users)
    /\ \A u, v \in users : u.id = v.id \/ u.name = v.name => u = v

Shapes ==
    /\ "browserOf" \in DOMAIN visit
    /\ visit.browserOf \in [Tab -> Browser]
    /\ DOMAIN cookie = Browser /\ DOMAIN storage = Browser
    /\ DOMAIN token = Tab /\ DOMAIN calls = Tab
    /\ DOMAIN auth = Tab /\ DOMAIN history = Tab
    /\ \A t \in Tab : auth[t] = NoAuth \/ DOMAIN auth[t] = {"kind", "cred", "stage", "issued", "heard"}
    /\ \A t \in Tab : \A c \in calls[t] : DOMAIN c = {"kind", "header", "user"}

\* Every token is earned, those on their way included.
JarFits == \A b \in Browser : Fine(cookie[b]) /\ Fine(storage[b])
TabsFit ==
    \A t \in Tab :
        /\ Fine(token[t])
        /\ auth[t] # NoAuth => Fine(auth[t].issued)
        /\ \A c \in calls[t] : Fine(c.header) /\ (c.user # NoUser => Earned(c.user))

\* A run is of the account whose password its token was earned with.
RunsFit == \A r \in runs : \E u \in users : u.id = r.user /\ u.password = r.by

IInv == UsersFit /\ Shapes /\ JarFits /\ TabsFit /\ RunsFit /\ HistoryIsOwn

LEMMA InitEstablishes == Init => IInv
<1> SUFFICES ASSUME Init PROVE IInv
    OBVIOUS
<1>1. UsersFit
    BY FS_EmptySet DEF Init, UsersFit
<1>2. Shapes
    BY AccountsAssumption DEF Init, Shapes
<1>3. JarFits /\ TabsFit
    BY DEF Init, JarFits, TabsFit, Fine
<1>4. RunsFit /\ HistoryIsOwn
    BY DEF Init, RunsFit, HistoryIsOwn, NoHistory
<1> QED
    BY <1>1, <1>2, <1>3, <1>4 DEF IInv

\* The rows of a history are of the account that asks.
LEMMA HistoryFits ==
    ASSUME IInv, NEW tok, Earned(tok)
    PROVE  \A r \in RecentRuns(tok) : r.by = tok.by
    BY DEF IInv, UsersFit, RunsFit, Earned, RecentRuns

\* A step that leaves the tables alone: what is earned stays earned.
LEMMA SameUsers ==
    ASSUME IInv, UNCHANGED users
    PROVE  UsersFit' /\ \A tok : (Earned(tok)' <=> Earned(tok)) /\ (Fine(tok)' <=> Fine(tok))
    BY DEF IInv, UsersFit, Earned, Fine

\* A token that verifies is earned: it comes from the header or from the cookie.
LEMMA CallerEarned ==
    ASSUME IInv, NEW t \in Tab, NEW c \in calls[t], Verify(CallUser(t, c))
    PROVE  Earned(CallUser(t, c))
    BY DEF IInv, Shapes, browserOf, JarFits, TabsFit, Fine, Verify, CallUser, ExtractToken, Sent

LEMMA PagesKeep ==
    ASSUME IInv, NEW t \in Tab, OpenPath(t) \/ Arrive(t) \/ Submit(t)
    PROVE  IInv'
<1>0. UNCHANGED << db, storage >> /\ visit'.browserOf = visit.browserOf /\ DOMAIN visit' = DOMAIN visit
    BY DEF OpenPath, Arrive, Submit, Spend, jar, IInv, Shapes
<1>1. UsersFit' /\ \A tok : (Earned(tok)' <=> Earned(tok)) /\ (Fine(tok)' <=> Fine(tok))
    BY <1>0, SameUsers DEF db
<1>2. RunsFit'
    BY <1>0 DEF db, IInv, RunsFit
<1>3. cookie' = cookie \/ cookie' = [cookie EXCEPT ![browserOf[t]] = NoToken]
    BY DEF OpenPath, Arrive, Submit, jar
<1>4. JarFits'
    BY <1>0, <1>1, <1>3 DEF IInv, Shapes, JarFits, Fine
<1>5. CASE UNCHANGED << token, calls, history >>
           /\ \/ auth' = auth
              \/ \E a :
                    /\ auth' = [auth EXCEPT ![t] = a] /\ a.issued = NoToken
                    /\ DOMAIN a = {"kind", "cred", "stage", "issued", "heard"}
  <2>1. Shapes'
      BY <1>0, <1>3, <1>5 DEF IInv, Shapes
  <2>2. TabsFit'
      BY <1>1, <1>5 DEF IInv, Shapes, TabsFit, Fine
  <2>3. HistoryIsOwn'
      BY <1>5 DEF IInv, HistoryIsOwn
  <2> QED
      BY <1>1, <1>2, <1>4, <2>1, <2>2, <2>3 DEF IInv
<1>6. ASSUME NEW p, Show(t, p)
      PROVE  IInv'
  <2> DEFINE stored == storage[browserOf[t]]
  <2>1. Fine(stored)
      BY DEF IInv, Shapes, JarFits, browserOf
  <2>2. /\ token' = [token EXCEPT ![t] = IF p = "app" THEN stored ELSE NoToken]
        /\ calls' = [calls EXCEPT ![t] =
                       IF p = "panel" THEN {Call("me", stored), Call("stats", stored)} ELSE {}]
        /\ auth' = [auth EXCEPT ![t] = IF @ = NoAuth THEN @ ELSE [@ EXCEPT !.heard = FALSE]]
        /\ history' = [history EXCEPT ![t] = NoHistory]
      BY <1>6 DEF Show
  <2>3. Shapes'
      BY <1>0, <1>3, <2>2 DEF IInv, Shapes, Call
  <2>4. \A u \in Tab :
            /\ token'[u] \in {token[u], stored, NoToken}
            /\ auth'[u] # NoAuth => auth[u] # NoAuth /\ auth'[u].issued = auth[u].issued
            /\ \A c \in calls'[u] : c \in calls[u] \/ (c.header = stored /\ c.user = NoUser)
      BY <2>2 DEF IInv, Shapes, Call
  <2>5. TabsFit'
      BY <1>0, <1>1, <2>1, <2>4 DEF IInv, TabsFit, Fine, Earned, db
  <2>6. HistoryIsOwn'
      BY <2>2 DEF IInv, Shapes, HistoryIsOwn, NoHistory
  <2> QED
      BY <1>1, <1>2, <1>4, <2>3, <2>5, <2>6 DEF IInv
<1>7. CASE OpenPath(t)
    BY <1>5, <1>7 DEF OpenPath
<1>8. CASE Submit(t)
  <2>1. PICK kind \in {"register", "login"}, c \in visit.forms :
            auth' = [auth EXCEPT ![t] =
                        [kind |-> kind, cred |-> c, stage |-> "sent", issued |-> NoToken, heard |-> TRUE]]
      BY <1>8 DEF Submit
  <2> DEFINE a == [kind |-> kind, cred |-> c, stage |-> "sent", issued |-> NoToken, heard |-> TRUE]
  <2>2. a.issued = NoToken /\ DOMAIN a = {"kind", "cred", "stage", "issued", "heard"}
      OBVIOUS
  <2>3. auth' = [auth EXCEPT ![t] = a]
      BY <2>1
  <2> HIDE DEF a
  <2> QED
      BY <1>5, <1>8, <2>2, <2>3 DEF Submit
<1>9. CASE Arrive(t)
    BY <1>5, <1>6, <1>9 DEF Arrive, Goto
<1> QED
    BY <1>7, <1>8, <1>9

\* What Answered makes of a login: it ends, or goes on with the token it was given.
LEMMA AnsweredIs ==
    ASSUME Shapes, NEW t \in Tab, NEW tok, Answered(t, tok), auth[t] # NoAuth
    PROVE  /\ DOMAIN auth' = Tab
           /\ \A u \in Tab : auth'[u] = NoAuth \/ DOMAIN auth'[u] = {"kind", "cred", "stage", "issued", "heard"}
           /\ \A u \in Tab : auth'[u] # NoAuth /\ auth'[u] # auth[u] => auth'[u].issued = tok
<1>1. CASE tok = NoToken
    BY <1>1 DEF Answered, Shapes
<1>2. CASE tok # NoToken
  <2>1. auth' = [auth EXCEPT ![t] = [auth[t] EXCEPT !.stage = "answered", !.issued = tok]]
      BY <1>2 DEF Answered, Shapes
  <2>2. DOMAIN auth[t] = {"kind", "cred", "stage", "issued", "heard"}
      BY DEF Shapes
  <2>3. auth'[t].issued = tok /\ DOMAIN auth'[t] = DOMAIN auth[t]
      BY <2>1, <2>2 DEF Shapes
  <2>4. \A u \in Tab : u # t => auth'[u] = auth[u]
      BY <2>1 DEF Shapes
  <2> QED
      BY <2>1, <2>2, <2>3, <2>4 DEF Shapes
<1> QED
    BY <1>1, <1>2

\* The row of a new account takes an id and a name that no other row has, and what
\* was earned before stays earned.
LEMMA NewUserFits ==
    ASSUME UsersFit, NEW c, Row(c.name) = {}, users' = users \cup {NewUser(c)}
    PROVE  UsersFit'
<1>1. NewUser(c) \notin users /\ NewUser(c).id = Cardinality(users) + 1 /\ NewUser(c).name = c.name
    BY DEF Row, NewUser
<1>2. IsFiniteSet(users') /\ Cardinality(users') = Cardinality(users) + 1 /\ Cardinality(users) \in Nat
    BY <1>1, FS_AddElement, FS_CardinalityType DEF UsersFit
<1>3. \A u \in users' : u.id \in 1 .. Cardinality(users')
    BY <1>1, <1>2 DEF UsersFit
<1>4. ASSUME NEW u \in users', NEW v \in users', u.id = v.id \/ u.name = v.name
      PROVE  u = v
  <2>1. CASE u \in users /\ v \in users
      BY <1>4, <2>1 DEF UsersFit
  <2>2. \A w \in users : w.id # NewUser(c).id /\ w.name # NewUser(c).name
      BY <1>1, <1>2 DEF UsersFit, Row
  <2> QED
      BY <1>4, <2>1, <2>2
<1> QED
    BY <1>2, <1>3, <1>4 DEF UsersFit

\* A token that is issued for a row, with the password the row has, is earned.
LEMMA IssuedIsEarned ==
    ASSUME NEW u \in users, NEW password, u.password = password
    PROVE  Earned(Issue(u, password))
    BY DEF Earned, Issue

LEMMA AnswersKeep ==
    ASSUME IInv, NEW t \in Tab, CreateUser(t) \/ Authenticate(t) \/ Unavailable(t)
    PROVE  IInv'
<1>0. UNCHANGED << runs, cookie, storage, token, calls, history, visit >> /\ auth[t] # NoAuth
    BY DEF CreateUser, Authenticate, Unavailable, jar, db
<1>1. PICK tok : Answered(t, tok) /\ UsersFit' /\ users \subseteq users' /\ Fine(tok)'
  <2> DEFINE c == auth[t].cred
             u == NewUser(c)
  <2>1. CASE users' = users /\ Answered(t, NoToken)
      BY <2>1, SameUsers DEF Fine
  <2>2. CASE /\ Row(c.name) = {} /\ users' = users \cup {u}
             /\ Answered(t, Issue(u, c.password)) \/ Answered(t, NoToken)
    <3>1. UsersFit'
        BY <2>2, NewUserFits DEF IInv
    <3>2. PICK x : x = Issue(u, c.password)
        OBVIOUS
    <3>3. PICK row \in users' : x.id = row.id /\ x.name = row.name /\ x.by = row.password
      <4>1. u \in users'
          BY <2>2
      <4>2. x.id = u.id /\ x.name = u.name /\ x.by = u.password
          BY <3>2 DEF NewUser, Issue
      <4> HIDE DEF u
      <4> QED
          BY <4>1, <4>2
    <3>4. Fine(NoToken)' /\ Fine(x)'
        BY <3>3 DEF Fine, Earned
    <3> QED
        BY <2>2, <3>1, <3>2, <3>4
  <2>3. CASE Authenticate(t)
    <3>1. CASE \E v \in Matching(c) : Answered(t, Issue(v, c.password))
      <4>1. PICK v \in users : v.password = c.password /\ Answered(t, Issue(v, c.password))
          BY <3>1 DEF Matching, Row
      <4>2. UNCHANGED users
          BY <2>3 DEF Authenticate, db
      <4>3. PICK x : x = Issue(v, c.password)
          OBVIOUS
      <4>4. Earned(x)
          BY <4>1, <4>3, IssuedIsEarned
      <4>5. Fine(x)'
          BY <4>2, <4>4 DEF Fine, Earned
      <4> QED
          BY <4>1, <4>2, <4>3, <4>5, SameUsers
    <3> QED
        BY <2>1, <2>3, <3>1 DEF Authenticate, db
  <2> QED
      BY <2>1, <2>2, <2>3 DEF CreateUser, Unavailable, db
<1>2. \A x : (Earned(x) => Earned(x)') /\ (Fine(x) => Fine(x)')
    BY <1>1 DEF Earned, Fine
<1>3. Shapes'
    BY <1>0, <1>1, AnsweredIs DEF IInv, Shapes
<1>4. JarFits'
    BY <1>0, <1>1 DEF IInv, JarFits, Fine, Earned
<1>5. TabsFit'
  <2>1. \A u \in Tab : auth'[u] # NoAuth /\ auth'[u] # auth[u] => auth'[u].issued = tok
      BY <1>0, <1>1, AnsweredIs DEF IInv
  <2> QED
      BY <1>0, <1>1, <2>1 DEF IInv, TabsFit, Fine, Earned
<1>6. RunsFit'
    BY <1>0, <1>1 DEF IInv, RunsFit
<1>7. HistoryIsOwn'
    BY <1>0 DEF IInv, HistoryIsOwn
<1> QED
    BY <1>1, <1>3, <1>4, <1>5, <1>6, <1>7 DEF IInv

\* The browser and the page's script only pass on the token that was issued.
LEMMA TokenKeeps ==
    ASSUME IInv, NEW t \in Tab, SetCookie(t) \/ KeepToken(t)
    PROVE  IInv'
<1>0. /\ UNCHANGED << db, calls, history, visit >>
      /\ auth[t] # NoAuth /\ Fine(auth[t].issued)
    BY DEF SetCookie, KeepToken, IInv, TabsFit
<1>1. UsersFit' /\ \A tok : (Earned(tok)' <=> Earned(tok)) /\ (Fine(tok)' <=> Fine(tok))
    BY <1>0, SameUsers DEF db
<1>2. RunsFit' /\ HistoryIsOwn'
    BY <1>0 DEF db, IInv, RunsFit, HistoryIsOwn
<1>3. PICK x : x = auth[t].issued
    OBVIOUS
<1>4. /\ cookie' = cookie \/ cookie' = [cookie EXCEPT ![browserOf[t]] = x]
      /\ storage' = storage \/ storage' = [storage EXCEPT ![browserOf[t]] = x]
      /\ token' = token \/ token' = [token EXCEPT ![t] = x]
      /\ auth' = [auth EXCEPT ![t].stage = "read"] \/ auth' = [auth EXCEPT ![t] = NoAuth]
    BY <1>3 DEF SetCookie, KeepToken
<1>5. Shapes'
    BY <1>0, <1>4 DEF IInv, Shapes
<1>6. JarFits'
  <2>1. \A b \in Browser : cookie'[b] \in {cookie[b], x} /\ storage'[b] \in {storage[b], x}
      BY <1>4 DEF IInv, Shapes
  <2> QED
      BY <1>0, <1>3, <2>1 DEF db, IInv, JarFits, Fine, Earned
<1>7. TabsFit'
  <2>1. \A u \in Tab :
            /\ token'[u] \in {token[u], x}
            /\ auth'[u] # NoAuth => auth[u] # NoAuth /\ auth'[u].issued = auth[u].issued
    <3>1. DOMAIN auth = Tab /\ DOMAIN token = Tab
          /\ DOMAIN auth[t] = {"kind", "cred", "stage", "issued", "heard"}
        BY <1>0 DEF IInv, Shapes
    <3>2. auth'[t] = NoAuth \/ auth'[t].issued = auth[t].issued
        BY <1>4, <3>1
    <3> QED
        BY <1>0, <1>4, <3>1, <3>2
  <2> QED
      BY <1>0, <1>3, <2>1 DEF db, IInv, TabsFit, Fine, Earned
<1> QED
    BY <1>1, <1>2, <1>5, <1>6, <1>7 DEF IInv

\* A call is made with a token of the browser, and answered or given up.
LEMMA CallsKeep ==
    ASSUME IInv, NEW t \in Tab,
           \/ AskHistory(t) \/ SendFrame(t) \/ CallStep(t)
    PROVE  IInv'
<1>0. /\ UNCHANGED << users, cookie, token, auth >>
      /\ visit'.browserOf = visit.browserOf /\ DOMAIN visit' = DOMAIN visit
    BY DEF AskHistory, SendFrame, Ask, Spend, CallStep, Unauthorized, MeFails, Served, ShowHistory,
           TakeFrame, SaveRun, db, jar, IInv, Shapes
<1>1. UsersFit' /\ \A tok : (Earned(tok)' <=> Earned(tok)) /\ (Fine(tok)' <=> Fine(tok))
    BY <1>0, SameUsers
<1>2. storage' = storage \/ storage' = [storage EXCEPT ![browserOf[t]] = NoToken]
    BY DEF AskHistory, SendFrame, Ask, CallStep, Unauthorized, Refused, MeFails, Served, ShowHistory,
           TakeFrame, SaveRun, jar
<1>3. JarFits'
    BY <1>0, <1>1, <1>2 DEF IInv, Shapes, JarFits, Fine
<1>4. /\ DOMAIN calls' = Tab
      /\ \A u \in Tab : \A c \in calls'[u] :
            /\ DOMAIN c = {"kind", "header", "user"}
            /\ Fine(c.header) /\ (c.user # NoUser => Earned(c.user))
  <2>1. \A u \in Tab : \A c \in calls[u] :
            /\ DOMAIN c = {"kind", "header", "user"}
            /\ Fine(c.header) /\ (c.user # NoUser => Earned(c.user))
      BY DEF IInv, Shapes, TabsFit
  <2>2. CASE AskHistory(t) \/ SendFrame(t)
    <3>1. PICK kind : calls' = [calls EXCEPT ![t] = @ \cup {Call(kind, Header(t))}]
        BY <2>2 DEF AskHistory, SendFrame, Ask
    <3>2. Fine(Header(t))
        BY DEF Header, IInv, Shapes, JarFits, TabsFit, browserOf
    <3> QED
        BY <2>1, <3>1, <3>2 DEF Call, IInv, Shapes
  <2>3. CASE TakeFrame(t)
    <3>1. PICK c \in calls[t] :
              /\ Verify(CallUser(t, c))
              /\ calls' = [calls EXCEPT ![t] = (@ \ {c}) \cup {[c EXCEPT !.user = CallUser(t, c)]}]
        BY <2>3 DEF TakeFrame, Pending
    <3>2. Earned(CallUser(t, c))
        BY <3>1, CallerEarned
    <3>3. DOMAIN [c EXCEPT !.user = CallUser(t, c)] = {"kind", "header", "user"}
          /\ [c EXCEPT !.user = CallUser(t, c)].header = c.header
          /\ [c EXCEPT !.user = CallUser(t, c)].user = CallUser(t, c)
        BY <2>1
    <3> QED
        BY <2>1, <3>1, <3>2, <3>3 DEF IInv, Shapes
  <2>4. CASE \E c \in calls[t] : calls' = [calls EXCEPT ![t] = @ \ {c}]
      BY <2>1, <2>4 DEF IInv, Shapes
  <2> QED
      BY <2>2, <2>3, <2>4 DEF CallStep, Unauthorized, Refused, MeFails, Served, ShowHistory, SaveRun, Pending
<1>5. TabsFit'
    BY <1>0, <1>1, <1>4 DEF IInv, TabsFit, Fine, Earned
<1>6. RunsFit'
  <2>1. CASE runs' = runs
      BY <1>0, <2>1 DEF IInv, RunsFit
  <2>2. CASE SaveRun(t)
    <3>1. PICK c \in calls[t] :
              c.user # NoUser /\ runs' \subseteq runs \cup {[user |-> c.user.id, by |-> c.user.by]}
        BY <2>2 DEF SaveRun, Pending
    <3>2. Earned(c.user)
        BY <3>1 DEF IInv, TabsFit
    <3> QED
        BY <1>0, <3>1, <3>2 DEF IInv, RunsFit, Earned
  <2> QED
      BY <2>1, <2>2 DEF AskHistory, SendFrame, Ask, CallStep, Unauthorized, MeFails, Served,
                        ShowHistory, TakeFrame, db
<1>7. DOMAIN history' = Tab /\ HistoryIsOwn'
  <2>1. CASE history' = history
      BY <2>1 DEF IInv, Shapes, HistoryIsOwn
  <2>2. CASE history' = [history EXCEPT ![t] = NoHistory]
      BY <2>2 DEF IInv, Shapes, HistoryIsOwn, NoHistory
  <2>3. CASE ShowHistory(t)
    <3>1. PICK c \in calls[t] :
              /\ Verify(CallUser(t, c))
              /\ \/ history' = history
                 \/ history' = [history EXCEPT ![t] =
                                   [rows |-> RecentRuns(CallUser(t, c)), by |-> CallUser(t, c).by]]
        BY <2>3 DEF ShowHistory, Pending
    <3>2. \A r \in RecentRuns(CallUser(t, c)) : r.by = CallUser(t, c).by
        BY <3>1, CallerEarned, HistoryFits
    <3> QED
        BY <2>1, <3>1, <3>2 DEF IInv, Shapes, HistoryIsOwn
  <2> QED
      BY <2>1, <2>2, <2>3 DEF AskHistory, SendFrame, Ask, CallStep, Unauthorized, MeFails, Served,
                              TakeFrame, SaveRun
<1>8. Shapes'
    BY <1>0, <1>2, <1>4, <1>7 DEF IInv, Shapes
<1> QED
    BY <1>1, <1>3, <1>5, <1>6, <1>7, <1>8 DEF IInv

LEMMA NextKeeps == IInv /\ [Next]_vars => IInv'
<1> SUFFICES ASSUME IInv, [Next]_vars PROVE IInv'
    OBVIOUS
<1>1. CASE UNCHANGED << db, jar, token, calls, auth, history >>
           /\ visit'.browserOf = visit.browserOf /\ DOMAIN visit' = DOMAIN visit
    BY <1>1 DEF db, jar, IInv, UsersFit, Shapes, JarFits, TabsFit, RunsFit, HistoryIsOwn, Fine, Earned
<1>2. CASE Connect \/ Migrate \/ Tick \/ UNCHANGED vars
    BY <1>1, <1>2 DEF Connect, Migrate, Tick, tabs, vars, IInv, Shapes
<1>3. ASSUME NEW t \in Tab, PersonStep(t) \/ Arrive(t) \/ AuthStep(t) \/ CallStep(t)
      PROVE  IInv'
    BY <1>3, PagesKeep, AnswersKeep, TokenKeeps, CallsKeep DEF PersonStep, AuthStep
<1> QED
    BY <1>2, <1>3 DEF Next

LEMMA Invariance == Spec => []IInv
    BY InitEstablishes, NextKeeps, PTL DEF Spec

\* Every token a browser holds is for an account whose password was supplied for it.
THEOREM TokensEarned == Spec => []TokensAreEarned
<1>1. IInv => TokensAreEarned
    BY DEF IInv, JarFits, TabsFit, Fine, Earned, TokensAreEarned, Held
<1> QED
    BY <1>1, Invariance, PTL

\* A history shows only runs of frames sent with the password of the account that
\* asks for it.
THEOREM HistoriesOwn == Spec => []HistoryIsOwn
<1>1. IInv => HistoryIsOwn
    BY DEF IInv
<1> QED
    BY <1>1, Invariance, PTL

(***************************************************************************)
(* The panel's scripts beside them.                                        *)
(***************************************************************************)

\* A script that is in use changes nothing of the accounts.
LEMMA PanelStepKeeps == IInv /\ [PanelNext]_panelVars => IInv'
<1> SUFFICES ASSUME IInv, [PanelNext]_panelVars PROVE IInv'
    OBVIOUS
<1>1. CASE VideoStep
    BY <1>1, NextKeeps DEF VideoStep, PressStart, PressStop, LeaveVideo, CaptureFrame, CameraAnswers,
                           Plays, SocketOpens, SocketFails, SocketCloses, FrameAnswered, Using
<1>2. CASE LoadStep
    BY <1>2, NextKeeps DEF LoadStep, StartContinuous, StopContinuous, ResetCounters, SendMessage,
                           ResponseHead, ResponseBody, Using
<1>3. CASE RoutingStep
    BY <1>3, NextKeeps DEF RoutingStep, GatewayChanges, Pick, ApplyRouting, Applied, Poll, Refresh,
                           RefreshAnswered, RefreshShown, Using
<1> QED
    BY <1>1, <1>2, <1>3, NextKeeps DEF PanelNext, panelVars

\* With the panel's scripts as without them: tokens are earned and histories own.
THEOREM PanelKeepsAccounts == PanelSpec => [](TokensAreEarned /\ HistoryIsOwn)
<1>1. PanelInit => IInv
    BY InitEstablishes DEF PanelInit
<1>2. IInv => TokensAreEarned /\ HistoryIsOwn
    BY DEF IInv, JarFits, TabsFit, Fine, Earned, TokensAreEarned, Held
<1> QED
    BY <1>1, <1>2, PanelStepKeeps, PTL DEF PanelSpec

-----------------------------------------------------------------------------
(* The load generator: a message that has been counted as a request and    *)
(* not yet as an outcome is being read.                                    *)

Stage == {"unsent", "sending", "reading", "failing", "done"}
Reading(stage) == Cardinality({ m \in Message : stage[m] = "reading" })

ByHand == Message \cup {NoMessage}

LoadType ==
    [running : BOOLEAN, byHand : ByHand, stage : [Message -> Stage],
     requests : Nat, success : Nat, errors : Nat, torn : BOOLEAN]

LoadFits ==
    /\ load \in LoadType
    /\ load.torn \/ load.success + load.errors + Reading(load.stage) <= load.requests

LEMMA ReadingIsNat ==
    ASSUME NEW stage
    PROVE  /\ IsFiniteSet({ m \in Message : stage[m] = "reading" })
           /\ Reading(stage) \in Nat
<1>0. 1 \in Int /\ MaxMessages \in Int
    BY ControlPanelAssumption
<1>1. IsFiniteSet(Message)
    BY <1>0, FS_Interval DEF Message
<1>2. { m \in Message : stage[m] = "reading" } \in SUBSET Message
    OBVIOUS
<1> QED
    BY <1>1, <1>2, FS_Subset, FS_CardinalityType DEF Reading

LEMMA ReadingMoves ==
    ASSUME NEW stage \in [Message -> Stage], NEW m \in Message, NEW to \in Stage
    PROVE  /\ Reading(stage) \in Nat
           /\ Reading([stage EXCEPT ![m] = to]) =
                IF to = "reading" /\ stage[m] # "reading" THEN Reading(stage) + 1
                ELSE IF to # "reading" /\ stage[m] = "reading" THEN Reading(stage) - 1
                ELSE Reading(stage)
<1> DEFINE before == { n \in Message : stage[n] = "reading" }
           after == { n \in Message : [stage EXCEPT ![m] = to][n] = "reading" }
<1>1. IsFiniteSet(before) /\ Cardinality(before) \in Nat
    BY ReadingIsNat DEF Reading
<1>2. after = IF to = "reading" THEN before \cup {m} ELSE before \ {m}
    OBVIOUS
<1>3. m \in before <=> stage[m] = "reading"
    OBVIOUS
<1>4. Reading(stage) = Cardinality(before) /\ Reading([stage EXCEPT ![m] = to]) = Cardinality(after)
    BY DEF Reading
<1> HIDE DEF before, after
<1>5. CASE to = "reading"
  <2>1. Cardinality(before \cup {m}) = IF m \in before THEN Cardinality(before) ELSE Cardinality(before) + 1
      BY <1>1, FS_AddElement
  <2> QED
      BY <1>1, <1>2, <1>3, <1>4, <1>5, <2>1
<1>6. CASE to # "reading"
  <2>1. Cardinality(before \ {m}) = IF m \in before THEN Cardinality(before) - 1 ELSE Cardinality(before)
      BY <1>1, FS_RemoveElement
  <2> QED
      BY <1>1, <1>2, <1>3, <1>4, <1>6, <2>1
<1> QED
    BY <1>5, <1>6

LEMMA NoLoadFits ==
    NoLoad \in LoadType /\ NoLoad.success + NoLoad.errors + Reading(NoLoad.stage) <= NoLoad.requests
<1>1. NoLoad \in LoadType
    BY DEF NoLoad, LoadType, ByHand, Stage
<1>2. { m \in Message : NoLoad.stage[m] = "reading" } = {}
    BY DEF NoLoad
<1>3. Reading(NoLoad.stage) = 0
    BY <1>2, FS_EmptySet DEF Reading
<1>4. NoLoad.success = 0 /\ NoLoad.errors = 0 /\ NoLoad.requests = 0
    BY DEF NoLoad
<1> QED
    BY <1>1, <1>3, <1>4

\* The record after a message's step to another stage.
Counted(m, to, hand, requests, success, errors) ==
    [load EXCEPT !.stage[m] = to, !.byHand = hand, !.requests = requests,
                 !.success = success, !.errors = errors]

\* A message in its last steps gives what it has taken: no outcome without a request.
LEMMA CountsKeep ==
    ASSUME LoadFits, NEW m \in Message, NEW to \in Stage, NEW hand \in ByHand,
           NEW requests \in Nat, NEW success \in Nat, NEW errors \in Nat,
           load' = Counted(m, to, hand, requests, success, errors),
           (success - load.success) + (errors - load.errors) + (IF to = "reading" THEN 1 ELSE 0)
               <= (requests - load.requests) + (IF load.stage[m] = "reading" THEN 1 ELSE 0)
    PROVE  LoadFits'
<1>1. load \in LoadType /\ load.stage \in [Message -> Stage]
    BY DEF LoadFits, LoadType
<1>2. load' \in LoadType
    BY <1>1 DEF LoadType, Counted
<1>3. /\ load'.torn = load.torn /\ load'.stage = [load.stage EXCEPT ![m] = to]
      /\ load'.requests = requests /\ load'.success = success /\ load'.errors = errors
    BY <1>1 DEF LoadType, Counted
<1>4. load.requests \in Nat /\ load.success \in Nat /\ load.errors \in Nat
    BY <1>1 DEF LoadType
<1>5. Reading(load.stage) \in Nat
      /\ Reading(load'.stage) =
           IF to = "reading" /\ load.stage[m] # "reading" THEN Reading(load.stage) + 1
           ELSE IF to # "reading" /\ load.stage[m] = "reading" THEN Reading(load.stage) - 1
           ELSE Reading(load.stage)
    BY <1>1, <1>3, ReadingMoves
<1>6. ASSUME load.success + load.errors + Reading(load.stage) <= load.requests
      PROVE  load'.success + load'.errors + Reading(load'.stage) <= load'.requests
    BY <1>3, <1>4, <1>5, <1>6
<1> QED
    BY <1>2, <1>3, <1>6 DEF LoadFits

LEMMA LoadStepKeeps == LoadFits /\ LoadStep => LoadFits'
<1> SUFFICES ASSUME LoadFits, LoadStep PROVE LoadFits'
    OBVIOUS
<1>0. load \in LoadType
    BY DEF LoadFits
<1>1. CASE StartContinuous \/ StopContinuous
    BY <1>0, <1>1 DEF StartContinuous, StopContinuous, LoadFits, LoadType
<1>2. CASE ResetCounters
  <2>1. /\ load' \in LoadType /\ load'.stage = load.stage
        /\ load'.requests = 0 /\ load'.success = 0 /\ load'.errors = 0
        /\ load'.torn = (load.torn \/ \E m \in Message : load.stage[m] = "reading")
      BY <1>0, <1>2 DEF ResetCounters, LoadType
  <2>2. CASE \E m \in Message : load.stage[m] = "reading"
      BY <2>1, <2>2 DEF LoadFits
  <2>3. CASE \A m \in Message : load.stage[m] # "reading"
    <3>1. { m \in Message : load.stage[m] = "reading" } = {}
        BY <2>3
    <3>2. Reading(load'.stage) = 0
        BY <2>1, <3>1, FS_EmptySet DEF Reading
    <3> QED
        BY <2>1, <3>2 DEF LoadFits
  <2> QED
      BY <2>2, <2>3
<1>3. load.requests \in Nat /\ load.success \in Nat /\ load.errors \in Nat /\ load.byHand \in ByHand
    BY <1>0 DEF LoadType
<1>7. \A n \in Nat : n + 1 \in Nat /\ (n + 1) - n = 1 /\ n - n = 0
    OBVIOUS
<1>4. ASSUME NEW m \in Message, SendMessage(m) PROVE LoadFits'
  <2>1. load.byHand \in ByHand /\ m \in ByHand /\ {"sending"} \subseteq Stage /\ load.stage[m] = "unsent"
      BY <1>0, <1>4 DEF SendMessage, LoadType, ByHand, Stage
  <2>2. CASE load' = [load EXCEPT !.stage[m] = "sending"]
    <3>1. load' = Counted(m, "sending", load.byHand, load.requests, load.success, load.errors)
        BY <1>0, <2>2 DEF LoadType, Counted
    <3> QED
        BY <1>3, <1>7, <2>1, <3>1, CountsKeep
  <2>3. CASE load' = [[load EXCEPT !.stage[m] = "sending"] EXCEPT !.byHand = m]
    <3>1. load' = Counted(m, "sending", m, load.requests, load.success, load.errors)
        BY <1>0, <2>3 DEF LoadType, Counted
    <3> QED
        BY <1>3, <1>7, <2>1, <3>1, CountsKeep
  <2> QED
      BY <1>4, <2>2, <2>3 DEF SendMessage
<1>5. ASSUME NEW m \in Message, ResponseHead(m) PROVE LoadFits'
  <2> DEFINE counted == [load EXCEPT !.requests = @ + 1]
  <2>1. PICK hand \in ByHand : hand = IF load.byHand = m THEN NoMessage ELSE load.byHand
      BY <1>0 DEF LoadType, ByHand
  <2>2. load.byHand \in ByHand /\ "reading" \in Stage /\ "failing" \in Stage /\ "done" \in Stage
      BY <1>0 DEF LoadType, Stage
  <2>6. load.stage[m] # "reading"
      BY <1>5 DEF ResponseHead
  <2>7. load.requests + 1 \in Nat /\ load.errors + 1 \in Nat
      BY <1>3
  <2>3. CASE load' = [counted EXCEPT !.stage[m] = "reading"]
    <3>1. load' = Counted(m, "reading", load.byHand, load.requests + 1, load.success, load.errors)
        BY <1>0, <2>3 DEF LoadType, Counted
    <3>2. (load.success - load.success) + ((load.errors) - load.errors) + (IF "reading" = "reading" THEN 1 ELSE 0)
            <= ((load.requests + 1) - load.requests) + (IF load.stage[m] = "reading" THEN 1 ELSE 0)
        BY <1>3, <2>6
    <3> QED
        BY <1>3, <2>1, <2>2, <2>7, <3>1, <3>2, CountsKeep
  <2>4. CASE load' = [counted EXCEPT !.stage[m] = "failing", !.errors = @ + 1]
    <3>1. load' = Counted(m, "failing", load.byHand, load.requests + 1, load.success, load.errors + 1)
        BY <1>0, <2>4 DEF LoadType, Counted
    <3>2. (load.success - load.success) + ((load.errors + 1) - load.errors) + (IF "failing" = "reading" THEN 1 ELSE 0)
            <= ((load.requests + 1) - load.requests) + (IF load.stage[m] = "reading" THEN 1 ELSE 0)
        BY <1>3, <2>6
    <3> QED
        BY <1>3, <2>1, <2>2, <2>7, <3>1, <3>2, CountsKeep
  <2>5. CASE load' = Done([counted EXCEPT !.errors = @ + 1], m)
    <3>1. load' = Counted(m, "done", hand, load.requests + 1, load.success, load.errors + 1)
        BY <1>0, <2>1, <2>5 DEF LoadType, Counted, Done
    <3>2. (load.success - load.success) + ((load.errors + 1) - load.errors) + (IF "done" = "reading" THEN 1 ELSE 0)
            <= ((load.requests + 1) - load.requests) + (IF load.stage[m] = "reading" THEN 1 ELSE 0)
        BY <1>3, <2>6
    <3> QED
        BY <1>3, <2>1, <2>2, <2>7, <3>1, <3>2, CountsKeep
  <2> QED
      BY <1>5, <2>3, <2>4, <2>5 DEF ResponseHead
<1>6. ASSUME NEW m \in Message, ResponseBody(m) PROVE LoadFits'
  <2> DEFINE read == Done(load, m)
  <2>1. PICK hand \in ByHand : hand = IF load.byHand = m THEN NoMessage ELSE load.byHand
      BY <1>0 DEF LoadType, ByHand
  <2>2. "done" \in Stage
      BY DEF Stage
  <2>3. CASE load.stage[m] = "reading" /\ load' = [read EXCEPT !.success = @ + 1]
    <3>1. load' = Counted(m, "done", hand, load.requests, load.success + 1, load.errors)
        BY <1>0, <2>1, <2>3 DEF LoadType, Counted, Done
    <3> QED
        BY <1>3, <1>7, <2>1, <2>2, <2>3, <3>1, CountsKeep
  <2>4. CASE load.stage[m] = "reading" /\ load' = [read EXCEPT !.errors = @ + 1]
    <3>1. load' = Counted(m, "done", hand, load.requests, load.success, load.errors + 1)
        BY <1>0, <2>1, <2>4 DEF LoadType, Counted, Done
    <3> QED
        BY <1>3, <1>7, <2>1, <2>2, <2>4, <3>1, CountsKeep
  <2>5. CASE load' = read
    <3>1. load' = Counted(m, "done", hand, load.requests, load.success, load.errors)
        BY <1>0, <2>1, <2>5 DEF LoadType, Counted, Done
    <3> QED
        BY <1>3, <1>7, <2>1, <2>2, <3>1, CountsKeep
  <2>6. CASE load' = BodyLost(read)
    <3>1. load' = Counted(m, "done", hand, load.requests + 1, load.success, load.errors + 1)
        BY <1>0, <2>1, <2>6 DEF LoadType, Counted, Done, BodyLost
    <3> QED
        BY <1>3, <1>7, <2>1, <2>2, <3>1, CountsKeep
  <2> QED
      BY <1>6, <2>3, <2>4, <2>5, <2>6 DEF ResponseBody
<1> QED
    BY <1>1, <1>2, <1>4, <1>5, <1>6 DEF LoadStep

\* The load generator never shows more outcomes than requests, unless the counters
\* were reset between the two counts of a message.
THEOREM LoadCountsFit == PanelSpec => []LoadStatsAddUp
<1>1. PanelInit => LoadFits
    BY NoLoadFits DEF PanelInit, LoadFits
<1>2. ASSUME LoadFits, [PanelNext]_panelVars PROVE LoadFits'
  <2> USE <1>2
  <2>1. CASE load' = load
      BY <2>1 DEF LoadFits
  <2>2. CASE load' = NoLoad
      BY <2>2, NoLoadFits DEF LoadFits
  <2>3. CASE LoadStep
      BY <2>3, LoadStepKeeps
  <2>4. CASE VideoStep
      BY <2>1, <2>4 DEF VideoStep, PressStart, PressStop, LeaveVideo, CaptureFrame, CameraAnswers,
                        Plays, SocketOpens, SocketFails, SocketCloses, FrameAnswered
  <2>5. CASE RoutingStep
      BY <2>1, <2>5 DEF RoutingStep, GatewayChanges, Pick, ApplyRouting, Applied, Poll, Refresh,
                        RefreshAnswered, RefreshShown
  <2> QED
      BY <2>1, <2>2, <2>3, <2>4, <2>5 DEF PanelNext, PanelFollows, panel, panelVars
<1>3. LoadFits => LoadStatsAddUp
  <2> SUFFICES ASSUME LoadFits, ~ load.torn PROVE load.success + load.errors <= load.requests
      BY DEF LoadStatsAddUp
  <2>1. Reading(load.stage) \in Nat
      BY ReadingIsNat
  <2>2. load.success \in Nat /\ load.errors \in Nat /\ load.requests \in Nat
        /\ load.success + load.errors + Reading(load.stage) <= load.requests
      BY DEF LoadFits, LoadType
  <2> QED
      BY <2>1, <2>2
<1> QED
    BY <1>1, <1>2, <1>3, PTL DEF PanelSpec

-----------------------------------------------------------------------------
(* The camera stream.  As long as no two starts have overlapped, what a    *)
(* start holds is what videoDemo refers to: a start begins when the last   *)
(* one is over, stops what it left, and takes in turn a camera, a socket   *)
(* and an interval.  A start that overlapped with no other keeps hold of   *)
(* its own beside others that did.                                         *)

CallStage == {"idle", "camera", "play", "open", "returned", "failed"}
SocketStage == {"none", "connecting", "open", "closing", "closed"}

VideoType ==
    [stream : Start \cup {NoStart}, ws : Start \cup {NoStart}, timer : Start \cup {NoStart},
     pending : BOOLEAN, call : [Start -> CallStage], cameras : SUBSET Start, timers : SUBSET Start,
     socket : [Start -> SocketStage], unanswered : [Start -> Nat], frames : Nat,
     canStop : BOOLEAN, beside : SUBSET Start]

IsStarting(v, s) == v.call[s] \in {"camera", "play", "open"}
IsLive(v, s) == v.socket[s] \in {"connecting", "open"}

\* Starts are made in order, and a socket keeps step with its start.
InOrder(v) == \A r, s \in Start : r < s /\ v.call[r] = "idle" => v.call[s] = "idle"
SocketFollows(v) ==
    \A s \in Start :
        /\ v.call[s] \in {"idle", "camera", "play", "failed"} => v.socket[s] = "none"
        /\ v.socket[s] = "open" \/ v.unanswered[s] # 0 => v.call[s] = "returned"

\* The start under way is the last one, and so is the start of the socket in use.
LastStarts(v) == \A s \in Start : IsStarting(v, s) => \A r \in Start : r > s => v.call[r] = "idle"
LastUsed(v) == \A s \in Start : v.ws = s => \A r \in Start : r > s => v.call[r] = "idle"

\* Each step of a start takes what the steps before have found free.
Free(v) ==
    \A s \in Start :
        /\ v.call[s] = "camera" => v.cameras = {}
        /\ v.call[s] \in {"camera", "play"} => \A r \in Start : ~ IsLive(v, r)
        /\ IsStarting(v, s) => v.timers = {}

HeldByDemo(v) ==
    /\ v.cameras \subseteq {v.stream} /\ v.timers \subseteq {v.timer}
    /\ \A s \in Start : IsLive(v, s) => v.ws = s

ClosedBefore(socket, s) == Cardinality({ r \in 1 .. s - 1 : socket[r] = "closed" })

FramesFit(v) ==
    \A s \in Start :
        /\ v.unanswered[s] <= 1 + ClosedBefore(v.socket, s)
        /\ v.ws = s /\ v.socket[s] = "open" /\ ~ v.pending => v.unanswered[s] <= ClosedBefore(v.socket, s)

Orderly(v) == LastStarts(v) /\ LastUsed(v) /\ Free(v) /\ HeldByDemo(v) /\ FramesFit(v)

VideoFits(v) ==
    /\ v \in VideoType /\ InOrder(v) /\ SocketFollows(v)
    /\ v.beside # {} \/ Orderly(v)

\* The sockets closed before a start only grow in number.
LEMMA ClosedBeforeGrows ==
    ASSUME NEW old, NEW new, NEW s \in Start,
           \A r \in Start : old[r] = "closed" => new[r] = "closed"
    PROVE  /\ ClosedBefore(old, s) \in Nat /\ ClosedBefore(new, s) \in Nat
           /\ ClosedBefore(old, s) <= ClosedBefore(new, s)
           /\ \A r \in Start : r < s /\ old[r] # "closed" /\ new[r] = "closed" =>
                  ClosedBefore(old, s) + 1 <= ClosedBefore(new, s)
<1> DEFINE before == { r \in 1 .. s - 1 : old[r] = "closed" }
           after == { r \in 1 .. s - 1 : new[r] = "closed" }
<1>1. s \in Int /\ 1 .. s - 1 \subseteq Start /\ IsFiniteSet(1 .. s - 1)
  <2>1. s \in Int /\ 1 \in Int /\ s - 1 \in Int /\ 1 .. s - 1 \subseteq Start
      BY ControlPanelAssumption DEF Start
  <2> QED
      BY <2>1, FS_Interval
<1>2. before \subseteq after /\ IsFiniteSet(before) /\ IsFiniteSet(after)
    BY <1>1, FS_Subset
<1>3. Cardinality(before) \in Nat /\ Cardinality(after) \in Nat /\ Cardinality(before) <= Cardinality(after)
  <2>1. before \in SUBSET after
      BY <1>2
  <2> HIDE DEF before, after
  <2> QED
      BY <1>2, <2>1, FS_Subset, FS_CardinalityType
<1>4. ASSUME NEW r \in Start, r < s, old[r] # "closed", new[r] = "closed"
      PROVE  Cardinality(before) + 1 <= Cardinality(after)
  <2>1. r \notin before /\ before \cup {r} \in SUBSET after
      BY <1>1, <1>2, <1>4 DEF Start
  <2> HIDE DEF before, after
  <2>2. Cardinality(before \cup {r}) = Cardinality(before) + 1
      BY <1>2, <2>1, FS_AddElement
  <2> QED
      BY <1>2, <2>1, <2>2, FS_Subset
<1> QED
    BY <1>3, <1>4 DEF ClosedBefore

\* What a socket may have unanswered is kept while answers come and sockets close.
LEMMA FramesKeep ==
    ASSUME NEW v \in VideoType, NEW w \in VideoType, FramesFit(v),
           \A r \in Start : v.socket[r] = "closed" => w.socket[r] = "closed",
           \A s \in Start : w.unanswered[s] <= v.unanswered[s],
           \A s \in Start :
               w.ws = s /\ w.socket[s] = "open" /\ ~ w.pending =>
                   \/ v.ws = s /\ v.socket[s] = "open" /\ ~ v.pending
                   \/ w.unanswered[s] <= ClosedBefore(w.socket, s)
    PROVE  FramesFit(w)
<1> SUFFICES ASSUME NEW s \in Start
             PROVE  /\ w.unanswered[s] <= 1 + ClosedBefore(w.socket, s)
                    /\ w.ws = s /\ w.socket[s] = "open" /\ ~ w.pending =>
                           w.unanswered[s] <= ClosedBefore(w.socket, s)
    BY DEF FramesFit
<1>1. /\ ClosedBefore(v.socket, s) \in Nat /\ ClosedBefore(w.socket, s) \in Nat
      /\ ClosedBefore(v.socket, s) <= ClosedBefore(w.socket, s)
    BY ClosedBeforeGrows
<1>2. v.unanswered[s] \in Nat /\ w.unanswered[s] \in Nat
    BY DEF VideoType
<1>3. v.unanswered[s] <= 1 + ClosedBefore(v.socket, s)
    BY DEF FramesFit
<1>4. v.ws = s /\ v.socket[s] = "open" /\ ~ v.pending => v.unanswered[s] <= ClosedBefore(v.socket, s)
    BY DEF FramesFit
<1> QED
    BY <1>1, <1>2, <1>3, <1>4

\* stopVideoDemo gives up all that videoDemo refers to.
LEMMA StoppedIs ==
    ASSUME NEW v \in VideoType
    PROVE  /\ Stopped(v) \in VideoType
           /\ Stopped(v).call = v.call /\ Stopped(v).unanswered = v.unanswered
           /\ Stopped(v).frames = v.frames /\ Stopped(v).beside = v.beside
           /\ Stopped(v).ws = NoStart /\ Stopped(v).stream = NoStart /\ Stopped(v).timer = NoStart
           /\ Stopped(v).cameras = v.cameras \ {v.stream} /\ Stopped(v).timers = v.timers \ {v.timer}
           /\ \A s \in Start :
                  /\ s # v.ws => Stopped(v).socket[s] = v.socket[s]
                  /\ ~ IsLive(v, s) => Stopped(v).socket[s] = v.socket[s]
                  /\ s = v.ws => ~ IsLive(Stopped(v), s)
<1> DEFINE w == Stopped(v)
<1>1. /\ w.call = v.call /\ w.unanswered = v.unanswered
      /\ w.frames = v.frames /\ w.beside = v.beside
      /\ w.ws = NoStart /\ w.stream = NoStart /\ w.timer = NoStart
      /\ w.cameras = v.cameras \ {v.stream} /\ w.timers = v.timers \ {v.timer}
      /\ w.socket = Closing(v.socket, v.ws)
    BY DEF Stopped, VideoType
<1>2. \A s \in Start :
          /\ s # v.ws => w.socket[s] = v.socket[s]
          /\ ~ IsLive(v, s) => w.socket[s] = v.socket[s]
          /\ s = v.ws => ~ IsLive(w, s)
          /\ w.socket[s] \in SocketStage
  <2> SUFFICES ASSUME NEW s \in Start
               PROVE  /\ s # v.ws => w.socket[s] = v.socket[s]
                      /\ ~ IsLive(v, s) => w.socket[s] = v.socket[s]
                      /\ s = v.ws => ~ IsLive(w, s)
                      /\ w.socket[s] \in SocketStage
      OBVIOUS
  <2>1. v.socket[s] \in SocketStage
      BY DEF VideoType
  <2>2. w.socket[s] = IF s # v.ws THEN v.socket[s]
                      ELSE CASE v.socket[s] = "open" -> "closing"
                             [] v.socket[s] = "connecting" -> "closed"
                             [] OTHER -> v.socket[s]
      BY <1>1 DEF Closing
  <2> HIDE DEF w
  <2> QED
      BY <2>1, <2>2 DEF IsLive, SocketStage
<1>3. w \in VideoType
  <2>1. w.socket \in [Start -> SocketStage]
      BY <1>1, <1>2 DEF Closing
  <2>2. w = [v EXCEPT !.ws = w.ws, !.stream = w.stream, !.timer = w.timer, !.cameras = w.cameras,
                      !.timers = w.timers, !.socket = w.socket, !.pending = FALSE, !.canStop = FALSE]
      BY DEF Stopped, VideoType
  <2> HIDE DEF w
  <2> QED
      BY <1>1, <2>1, <2>2 DEF VideoType
<1> QED
    BY <1>1, <1>2, <1>3

\* Stopping keeps the order, and leaves nothing on unless two starts overlapped.
LEMMA StoppedKeeps ==
    ASSUME NEW v, VideoFits(v)
    PROVE  /\ VideoFits(Stopped(v))
           /\ \/ v.beside # {}
              \/ /\ Stopped(v).cameras = {} /\ Stopped(v).timers = {}
                 /\ \A s \in Start : ~ IsLive(Stopped(v), s)
<1> DEFINE w == Stopped(v)
<1>0. v \in VideoType /\ InOrder(v) /\ SocketFollows(v) /\ (v.beside # {} \/ Orderly(v))
    BY DEF VideoFits
<1>1. /\ w \in VideoType
      /\ w.call = v.call /\ w.unanswered = v.unanswered /\ w.beside = v.beside
      /\ w.ws = NoStart /\ w.stream = NoStart /\ w.timer = NoStart
      /\ w.cameras = v.cameras \ {v.stream} /\ w.timers = v.timers \ {v.timer}
    BY <1>0, StoppedIs
<1>2. \A s \in Start :
          /\ s # v.ws => w.socket[s] = v.socket[s]
          /\ ~ IsLive(v, s) => w.socket[s] = v.socket[s]
          /\ s = v.ws => ~ IsLive(w, s)
    BY <1>0, StoppedIs
<1> HIDE DEF w
<1>3. InOrder(w)
    BY <1>0, <1>1 DEF InOrder
<1>4. SocketFollows(w)
  <2>1. \A s \in Start : v.socket[s] = "none" => w.socket[s] = "none"
      BY <1>2 DEF IsLive
  <2>2. \A s \in Start : w.socket[s] = "open" => v.socket[s] = "open"
      BY <1>2 DEF IsLive
  <2> QED
      BY <1>0, <1>1, <2>1, <2>2 DEF SocketFollows
<1>5. ASSUME Orderly(v)
      PROVE  /\ w.cameras = {} /\ w.timers = {} /\ \A s \in Start : ~ IsLive(w, s)
             /\ Orderly(w)
  <2>1. w.cameras = {} /\ w.timers = {}
      BY <1>1, <1>5 DEF Orderly, HeldByDemo
  <2>2. ASSUME NEW s \in Start PROVE ~ IsLive(w, s)
    <3>1. IsLive(v, s) => v.ws = s
        BY <1>5 DEF Orderly, HeldByDemo
    <3> QED
        BY <1>2, <3>1 DEF IsLive
  <2>3. LastStarts(w) /\ LastUsed(w)
      BY <1>1, <1>5, ControlPanelAssumption DEF Orderly, LastStarts, LastUsed, IsStarting, NoStart, Start
  <2>4. Free(w) /\ HeldByDemo(w)
      BY <2>1, <2>2 DEF Free, HeldByDemo
  <2>5. FramesFit(w)
    <3>1. \A r \in Start : v.socket[r] = "closed" => w.socket[r] = "closed"
        BY <1>2 DEF IsLive
    <3>2. \A s \in Start : w.ws # s
        BY <1>1 DEF NoStart, Start
    <3>3. \A s \in Start : w.unanswered[s] <= v.unanswered[s]
        BY <1>0, <1>1 DEF VideoType
    <3> QED
        BY <1>0, <1>1, <1>5, <3>1, <3>2, <3>3, FramesKeep DEF Orderly
  <2> QED
      BY <2>1, <2>2, <2>3, <2>4, <2>5 DEF Orderly
<1> QED
    BY <1>0, <1>1, <1>3, <1>4, <1>5 DEF VideoFits, w

\* A start begins from nothing, as the last one.
LEMMA StartKeeps ==
    ASSUME VideoFits(video), PressStart
    PROVE  VideoFits(video')
<1> DEFINE v == Stopped(video)
<1>1. PICK s \in Start :
          /\ video.call[s] = "idle" /\ \A r \in 1 .. s - 1 : video.call[r] # "idle"
          /\ video' = [v EXCEPT !.call[s] = "camera",
                                !.beside = IF Starting = {} THEN @ ELSE @ \cup Starting \cup {s}]
    BY DEF PressStart
<1>2. video \in VideoType /\ VideoFits(v) /\ v \in VideoType
    BY StoppedKeeps DEF VideoFits
<1>3. v.call = video.call /\ v.beside = video.beside
      /\ v.ws = NoStart /\ v.unanswered = video.unanswered
    BY <1>2, StoppedIs
<1>4. \/ video.beside # {}
      \/ v.cameras = {} /\ v.timers = {} /\ \A r \in Start : ~ IsLive(v, r)
    BY StoppedKeeps
<1> DEFINE w == video'
<1> HIDE DEF v
<1>5. /\ w \in VideoType /\ w.call = [v.call EXCEPT ![s] = "camera"]
      /\ w.beside = IF Starting = {} THEN v.beside ELSE v.beside \cup Starting \cup {s}
      /\ w.unanswered = v.unanswered /\ w.socket = v.socket /\ w.ws = v.ws
      /\ w.stream = v.stream /\ w.timer = v.timer /\ w.cameras = v.cameras /\ w.timers = v.timers
      /\ w.pending = v.pending
    BY <1>1, <1>2 DEF VideoType, CallStage, Starting
<1>6. w.call[s] = "camera" /\ \A r \in Start : r # s => w.call[r] = video.call[r]
    BY <1>2, <1>3, <1>5 DEF VideoType
<1> HIDE DEF w
<1>7. \A r \in Start : r < s => video.call[r] # "idle"
    BY <1>1, ControlPanelAssumption DEF Start
<1>8. \A r \in Start : r > s => video.call[r] = "idle"
    BY <1>1 DEF VideoFits, InOrder
<1>9. InOrder(w)
    BY <1>6, <1>7, <1>8, ControlPanelAssumption DEF InOrder, Start
<1>10. SocketFollows(w)
  <2>1. SocketFollows(v)
      BY <1>2 DEF VideoFits
  <2> QED
      BY <1>1, <1>3, <1>5, <1>6, <2>1 DEF SocketFollows
<1>11. ASSUME w.beside = {} PROVE Orderly(w)
  <2>1. video.beside = {} /\ \A r \in Start : ~ IsStarting(video, r)
      BY <1>3, <1>5, <1>11 DEF Starting, IsStarting
  <2>2. Orderly(v)
      BY <1>2, <1>3, <2>1 DEF VideoFits
  <2>3. LastStarts(w)
      BY <1>6, <1>8, <2>1, ControlPanelAssumption DEF LastStarts, IsStarting, Start
  <2>4. LastUsed(w)
      BY <1>3, <1>5, ControlPanelAssumption DEF LastUsed, NoStart, Start
  <2>5. Free(w) /\ HeldByDemo(w)
      BY <1>4, <1>5, <2>1 DEF Free, HeldByDemo, IsLive
  <2>6. FramesFit(w)
      BY <1>5, <2>2 DEF Orderly, FramesFit
  <2> QED
      BY <2>3, <2>4, <2>5, <2>6 DEF Orderly
<1> QED
    BY <1>5, <1>9, <1>10, <1>11 DEF VideoFits, w

\* A start that goes on or ends: the calls stay in order, and are the last.
LEMMA CallMoves ==
    ASSUME NEW v \in VideoType, NEW w \in VideoType, NEW s \in Start,
           v.call[s] # "idle", w.call[s] # "idle", InOrder(v),
           \A r \in Start : r # s => w.call[r] = v.call[r]
    PROVE  /\ InOrder(w)
           /\ LastStarts(v) /\ IsStarting(v, s) => LastStarts(w)
           /\ LastUsed(v) /\ w.ws = v.ws => LastUsed(w)
           /\ LastStarts(v) /\ IsStarting(v, s) /\ w.ws = s => LastUsed(w)
<1>2. \A r \in Start : w.call[r] = "idle" <=> v.call[r] = "idle"
    OBVIOUS
<1>3. InOrder(w)
    BY <1>2 DEF InOrder
<1>4. LastStarts(v) /\ IsStarting(v, s) => LastStarts(w)
    BY <1>2 DEF LastStarts, IsStarting
<1>5. LastUsed(v) /\ w.ws = v.ws => LastUsed(w)
    BY <1>2 DEF LastUsed
<1>6. LastStarts(v) /\ IsStarting(v, s) /\ w.ws = s => LastUsed(w)
    BY <1>2 DEF LastUsed, LastStarts
<1> QED
    BY <1>3, <1>4, <1>5, <1>6

\* Only one start is under way.
LEMMA OneStart ==
    ASSUME NEW v \in VideoType, LastStarts(v), NEW r \in Start, NEW s \in Start,
           IsStarting(v, r), IsStarting(v, s)
    PROVE  r = s
<1>1. ~ (r > s) /\ ~ (s > r)
    BY DEF LastStarts, IsStarting
<1> QED
    BY <1>1, ControlPanelAssumption DEF Start

\* A start that ends keeps what it holds, or finds its socket closed.
LEMMA ReturnKeeps ==
    ASSUME NEW v, VideoFits(v), NEW s \in Start, IsStarting(v, s), NEW now_ \in SocketStage,
           now_ = v.socket[s] \/ (now_ = "closed" /\ v.call[s] = "open"),
           NEW end, end = "returned" \/ (end = "failed" /\ v.call[s] = "play" /\ now_ = v.socket[s])
    PROVE  VideoFits([v EXCEPT !.call[s] = end, !.socket[s] = now_])
<1> DEFINE w == [v EXCEPT !.call[s] = end, !.socket[s] = now_]
<1>1. v \in VideoType /\ InOrder(v) /\ SocketFollows(v)
    BY DEF VideoFits
<1>2. /\ w \in VideoType /\ w.call = [v.call EXCEPT ![s] = end]
      /\ w.socket = [v.socket EXCEPT ![s] = now_]
      /\ w.beside = v.beside /\ w.unanswered = v.unanswered /\ w.ws = v.ws
      /\ w.stream = v.stream /\ w.timer = v.timer /\ w.cameras = v.cameras /\ w.timers = v.timers
      /\ w.pending = v.pending
    BY <1>1 DEF VideoType, CallStage
<1>3. w.socket[s] = now_ /\ \A r \in Start : r # s => w.socket[r] = v.socket[r]
    BY <1>1, <1>2 DEF VideoType
<1>4. v.call[s] # "idle" /\ end \in CallStage /\ end # "idle" /\ ~ IsStarting(w, s)
    BY <1>2, <1>1 DEF IsStarting, CallStage, VideoType
<1> HIDE DEF w
<1>9. w.call[s] = end /\ \A r \in Start : r # s => w.call[r] = v.call[r]
    BY <1>1, <1>2 DEF VideoType
<1>5. /\ InOrder(w)
      /\ w.call[s] = end /\ \A r \in Start : r # s => w.call[r] = v.call[r]
      /\ LastStarts(v) => LastStarts(w)
      /\ LastUsed(v) => LastUsed(w)
    BY <1>1, <1>2, <1>4, <1>9, CallMoves
<1>6. SocketFollows(w)
    BY <1>1, <1>2, <1>3, <1>5 DEF SocketFollows
<1>7. ASSUME Orderly(v) PROVE Orderly(w)
  <2>1. \A r \in Start : IsLive(w, r) => IsLive(v, r)
      BY <1>3 DEF IsLive
  <2>2. Free(w)
      BY <1>2, <1>5, <1>7, <2>1 DEF Orderly, Free, IsStarting
  <2>3. HeldByDemo(w)
      BY <1>2, <1>7, <2>1 DEF Orderly, HeldByDemo
  <2>4. FramesFit(w)
    <3>1. \A r \in Start : v.socket[r] = "closed" => w.socket[r] = "closed"
        BY <1>3
    <3>2. \A r \in Start : w.unanswered[r] <= v.unanswered[r]
        BY <1>1, <1>2 DEF VideoType
    <3>3. \A r \in Start : w.socket[r] = "open" => v.socket[r] = "open"
        BY <1>3
    <3> QED
        BY <1>1, <1>2, <1>7, <3>1, <3>2, <3>3, FramesKeep DEF Orderly
  <2> QED
      BY <1>5, <1>7, <2>2, <2>3, <2>4 DEF Orderly
<1> QED
    BY <1>2, <1>5, <1>6, <1>7 DEF VideoFits, w

\* The camera is taken by the only start under way, or refused.
LEMMA CameraKeeps ==
    ASSUME VideoFits(video), NEW s \in Start, CameraAnswers(s)
    PROVE  VideoFits(video')
<1> DEFINE v == video
<1>1. v \in VideoType /\ InOrder(v) /\ SocketFollows(v) /\ v.call[s] = "camera"
    BY DEF VideoFits, CameraAnswers
<1>2. CASE video' = [v EXCEPT !.call[s] = "returned"]
  <2>1. video' = [v EXCEPT !.call[s] = "returned", !.socket[s] = v.socket[s]]
      BY <1>1, <1>2 DEF VideoType
  <2>2. v.socket[s] \in SocketStage /\ IsStarting(v, s)
      BY <1>1 DEF VideoType, IsStarting
  <2> QED
      BY <2>1, <2>2, ReturnKeeps
<1>3. CASE video' = [v EXCEPT !.call[s] = "play", !.cameras = @ \cup {s}, !.stream = s]
  <2> DEFINE w == video'
  <2>1. /\ w \in VideoType /\ w.call = [v.call EXCEPT ![s] = "play"]
        /\ w.socket = v.socket
        /\ w.beside = v.beside /\ w.unanswered = v.unanswered /\ w.ws = v.ws
        /\ w.stream = s /\ w.timer = v.timer /\ w.cameras = v.cameras \cup {s} /\ w.timers = v.timers
        /\ w.pending = v.pending
      BY <1>1, <1>3 DEF VideoType, CallStage
  <2>2. "play" \in CallStage /\ IsStarting(v, s)
      BY <1>1 DEF CallStage, IsStarting
  <2> HIDE DEF w, v
  <2>9. w.call[s] = "play" /\ \A r \in Start : r # s => w.call[r] = v.call[r]
      BY <1>1, <2>1 DEF VideoType
  <2>3. /\ InOrder(w)
        /\ w.call[s] = "play" /\ \A r \in Start : r # s => w.call[r] = v.call[r]
        /\ LastStarts(v) => LastStarts(w)
        /\ LastUsed(v) => LastUsed(w)
      BY <1>1, <2>1, <2>2, <2>9, CallMoves
  <2>4. SocketFollows(w)
      BY <1>1, <2>1, <2>3 DEF SocketFollows
  <2>5. ASSUME Orderly(v) PROVE Orderly(w)
    <3>1. \A r \in Start : IsStarting(v, r) => r = s
        BY <1>1, <2>2, <2>5, OneStart DEF Orderly
    <3>2. v.cameras = {} /\ v.timers = {} /\ \A r \in Start : ~ IsLive(v, r)
        BY <1>1, <2>2, <2>5 DEF Orderly, Free
    <3>3. Free(w)
        BY <2>1, <2>3, <3>1, <3>2 DEF Free, IsStarting, IsLive
    <3>4. HeldByDemo(w)
        BY <2>1, <3>2 DEF HeldByDemo, IsLive
    <3>5. FramesFit(w)
        BY <2>1, <2>5 DEF Orderly, FramesFit
    <3> QED
        BY <2>3, <2>5, <3>3, <3>4, <3>5 DEF Orderly
  <2>6. VideoFits(w)
      BY <2>1, <2>3, <2>4, <2>5 DEF VideoFits, v
  <2> QED
      BY <2>6 DEF w
<1> QED
    BY <1>2, <1>3 DEF CameraAnswers

\* The socket is made by the only start under way, or not at all.
LEMMA PlaysKeeps ==
    ASSUME VideoFits(video), NEW s \in Start, Plays(s)
    PROVE  VideoFits(video')
<1> DEFINE v == video
<1>1. v \in VideoType /\ InOrder(v) /\ SocketFollows(v) /\ v.call[s] = "play"
    BY DEF VideoFits, Plays
<1>2. CASE video' = [v EXCEPT !.call[s] = "failed"]
  <2>1. video' = [v EXCEPT !.call[s] = "failed", !.socket[s] = v.socket[s]]
      BY <1>1, <1>2 DEF VideoType
  <2>2. v.socket[s] \in SocketStage /\ IsStarting(v, s)
      BY <1>1 DEF VideoType, IsStarting
  <2>3. PICK end : end = "failed"
      OBVIOUS
  <2>4. VideoFits([v EXCEPT !.call[s] = end, !.socket[s] = v.socket[s]])
      BY <1>1, <2>2, <2>3, ReturnKeeps
  <2> QED
      BY <2>1, <2>3, <2>4
<1>3. CASE video' = [v EXCEPT !.call[s] = "open", !.socket[s] = "connecting", !.ws = s]
  <2> DEFINE w == video'
  <2>1. /\ w \in VideoType /\ w.call = [v.call EXCEPT ![s] = "open"]
        /\ w.socket = [v.socket EXCEPT ![s] = "connecting"]
        /\ w.beside = v.beside /\ w.unanswered = v.unanswered /\ w.ws = s
        /\ w.stream = v.stream /\ w.timer = v.timer /\ w.cameras = v.cameras /\ w.timers = v.timers
        /\ w.pending = v.pending
      BY <1>1, <1>3 DEF VideoType, CallStage, SocketStage
  <2>2. "open" \in CallStage /\ IsStarting(v, s)
      BY <1>1 DEF CallStage, IsStarting
  <2>7. /\ w.socket[s] = "connecting" /\ v.socket[s] = "none"
        /\ \A r \in Start : r # s => w.socket[r] = v.socket[r]
      BY <1>1, <2>1 DEF VideoType, SocketFollows
  <2> HIDE DEF w, v
  <2>9. w.call[s] = "open" /\ \A r \in Start : r # s => w.call[r] = v.call[r]
      BY <1>1, <2>1 DEF VideoType
  <2>3. /\ InOrder(w)
        /\ w.call[s] = "open" /\ \A r \in Start : r # s => w.call[r] = v.call[r]
        /\ LastStarts(v) => LastStarts(w) /\ LastUsed(w)
      BY <1>1, <2>1, <2>2, <2>9, CallMoves
  <2>4. SocketFollows(w)
      BY <1>1, <2>1, <2>3, <2>7 DEF SocketFollows
  <2>5. ASSUME Orderly(v) PROVE Orderly(w)
    <3>1. \A r \in Start : IsStarting(v, r) => r = s
        BY <1>1, <2>2, <2>5, OneStart DEF Orderly
    <3>2. v.timers = {} /\ \A r \in Start : ~ IsLive(v, r)
        BY <1>1, <2>2, <2>5 DEF Orderly, Free
    <3>3. Free(w)
        BY <2>1, <2>3, <3>1, <3>2 DEF Free, IsStarting, IsLive
    <3>4. HeldByDemo(w)
        BY <2>1, <2>5, <2>7, <3>2 DEF HeldByDemo, IsLive, Orderly
    <3>5. FramesFit(w)
      <4>1. \A r \in Start : v.socket[r] = "closed" => w.socket[r] = "closed"
          BY <2>7
      <4>2. \A r \in Start : w.unanswered[r] <= v.unanswered[r]
          BY <1>1, <2>1 DEF VideoType
      <4>3. \A r \in Start : w.ws = r => w.socket[r] # "open"
          BY <2>1, <2>7
      <4>4. v \in VideoType /\ w \in VideoType /\ FramesFit(v)
          BY <1>1, <2>1, <2>5 DEF Orderly
      <4> QED
          BY <4>1, <4>2, <4>3, <4>4, FramesKeep
    <3> QED
        BY <2>3, <2>5, <3>3, <3>4, <3>5 DEF Orderly
  <2>6. VideoFits(w)
      BY <2>1, <2>3, <2>4, <2>5 DEF VideoFits, v
  <2> QED
      BY <2>6 DEF w
<1> QED
    BY <1>2, <1>3 DEF Plays

\* The interval is set by the only start under way, for the socket it has made.
LEMMA OpensKeeps ==
    ASSUME VideoFits(video), NEW s \in Start, SocketOpens(s)
    PROVE  VideoFits(video')
<1> DEFINE v == video
           w == video'
<1>1. v \in VideoType /\ InOrder(v) /\ SocketFollows(v) /\ v.call[s] = "open" /\ v.socket[s] = "connecting"
    BY DEF VideoFits, SocketOpens
<1>2. /\ w \in VideoType /\ w.call = [v.call EXCEPT ![s] = "returned"]
      /\ w.socket = [v.socket EXCEPT ![s] = "open"]
      /\ w.beside = v.beside /\ w.unanswered = v.unanswered /\ w.ws = v.ws
      /\ w.stream = v.stream /\ w.timer = s /\ w.cameras = v.cameras /\ w.timers = v.timers \cup {s}
      /\ w.pending = v.pending
    BY <1>1 DEF SocketOpens, VideoType, CallStage, SocketStage
<1>3. /\ w.call[s] = "returned" /\ \A r \in Start : r # s => w.call[r] = v.call[r]
      /\ w.socket[s] = "open" /\ \A r \in Start : r # s => w.socket[r] = v.socket[r]
    BY <1>1, <1>2 DEF VideoType
<1>4. IsStarting(v, s)
    BY <1>1 DEF IsStarting
<1> HIDE DEF v, w
<1>5. /\ InOrder(w)
      /\ LastStarts(v) => LastStarts(w)
      /\ LastUsed(v) => LastUsed(w)
    BY <1>1, <1>2, <1>3, <1>4, CallMoves
<1>6. SocketFollows(w)
    BY <1>1, <1>2, <1>3 DEF SocketFollows
<1>7. ASSUME Orderly(v) PROVE Orderly(w)
  <2>1. \A r \in Start : IsStarting(v, r) => r = s
      BY <1>1, <1>4, <1>7, OneStart DEF Orderly
  <2>2. v.timers = {} /\ \A r \in Start : IsLive(w, r) <=> IsLive(v, r)
      BY <1>1, <1>3, <1>4, <1>7 DEF Orderly, Free, IsLive
  <2>3. Free(w)
      BY <1>3, <2>1 DEF Free, IsStarting
  <2>4. HeldByDemo(w)
      BY <1>2, <1>7, <2>2 DEF HeldByDemo, Orderly
  <2>5. FramesFit(w)
    <3>1. \A r \in Start : v.socket[r] = "closed" => w.socket[r] = "closed"
        BY <1>1, <1>3
    <3>2. \A r \in Start : w.unanswered[r] <= v.unanswered[r]
        BY <1>1, <1>2 DEF VideoType
    <3>3. w.unanswered[s] = 0
        BY <1>1, <1>2 DEF SocketFollows
    <3>4. w.unanswered[s] <= ClosedBefore(w.socket, s)
        BY <3>3, ClosedBeforeGrows
    <3>5. \A r \in Start : w.socket[r] = "open" => r = s \/ v.socket[r] = "open"
        BY <1>3
    <3>6. \A r \in Start :
              w.ws = r /\ w.socket[r] = "open" /\ ~ w.pending =>
                  \/ v.ws = r /\ v.socket[r] = "open" /\ ~ v.pending
                  \/ w.unanswered[r] <= ClosedBefore(w.socket, r)
        BY <1>2, <3>4, <3>5
    <3>7. v \in VideoType /\ w \in VideoType /\ FramesFit(v)
        BY <1>1, <1>2, <1>7 DEF Orderly
    <3> QED
        BY <3>1, <3>2, <3>6, <3>7, FramesKeep
  <2> QED
      BY <1>5, <1>7, <2>3, <2>4, <2>5 DEF Orderly
<1>8. VideoFits(w)
    BY <1>2, <1>5, <1>6, <1>7 DEF VideoFits, v
<1> QED
    BY <1>8 DEF w

\* A socket that fails ends its start, and then all is given up.
LEMMA FailsKeeps ==
    ASSUME VideoFits(video), NEW s \in Start, SocketFails(s)
    PROVE  VideoFits(video')
<1>1. PICK now_ \in {"closed", video.socket[s]} :
          video' = Stopped([video EXCEPT !.call[s] = "returned", !.socket[s] = now_])
    BY DEF SocketFails
<1>2. video \in VideoType /\ video.call[s] = "open" /\ IsStarting(video, s)
    BY DEF VideoFits, SocketFails, IsStarting
<1>3. now_ \in SocketStage
    BY <1>1, <1>2 DEF VideoType, SocketStage
<1>4. now_ = video.socket[s] \/ (now_ = "closed" /\ video.call[s] = "open")
    BY <1>1, <1>2
<1>5. VideoFits([video EXCEPT !.call[s] = "returned", !.socket[s] = now_])
    BY <1>2, <1>3, <1>4, ReturnKeeps
<1> QED
    BY <1>1, <1>5, StoppedKeeps

\* The flag that a late end clears may be a later socket's: it has one frame more.
LEMMA ClosesKeeps ==
    ASSUME VideoFits(video), NEW s \in Start, SocketCloses(s)
    PROVE  VideoFits(video')
<1> DEFINE v == video
           w == video'
<1>1. /\ v \in VideoType /\ InOrder(v) /\ SocketFollows(v)
      /\ v.call[s] = "returned" /\ v.socket[s] \in {"open", "closing"}
    BY DEF VideoFits, SocketCloses
<1>2. /\ w \in VideoType /\ w.call = v.call
      /\ w.socket = [v.socket EXCEPT ![s] = "closed"]
      /\ w.beside = v.beside /\ w.unanswered = v.unanswered /\ w.ws = v.ws
      /\ w.stream = v.stream /\ w.timer = v.timer /\ w.cameras = v.cameras /\ w.timers = v.timers
      /\ w.pending = FALSE
    BY <1>1 DEF SocketCloses, VideoType, SocketStage
<1>3. w.socket[s] = "closed" /\ \A r \in Start : r # s => w.socket[r] = v.socket[r]
    BY <1>1, <1>2 DEF VideoType
<1> HIDE DEF v, w
<1>4. InOrder(w) /\ SocketFollows(w)
    BY <1>1, <1>2, <1>3 DEF InOrder, SocketFollows
<1>5. ASSUME Orderly(v) PROVE Orderly(w)
  <2>1. \A r \in Start : IsLive(w, r) => IsLive(v, r)
      BY <1>3 DEF IsLive
  <2>2. LastStarts(w) /\ LastUsed(w)
      BY <1>2, <1>5 DEF Orderly, LastStarts, LastUsed, IsStarting
  <2>3. Free(w) /\ HeldByDemo(w)
      BY <1>2, <1>5, <2>1 DEF Orderly, Free, HeldByDemo, IsStarting
  <2>4. FramesFit(w)
    <3>1. \A r \in Start : v.socket[r] = "closed" => w.socket[r] = "closed"
        BY <1>3
    <3>2. \A r \in Start : w.unanswered[r] <= v.unanswered[r]
        BY <1>1, <1>2 DEF VideoType
    <3>3. ASSUME NEW r \in Start, w.ws = r, w.socket[r] = "open"
          PROVE  w.unanswered[r] <= ClosedBefore(w.socket, r)
      <4>1. r # s /\ ~ (s > r)
          BY <1>1, <1>2, <1>3, <1>5, <3>3 DEF Orderly, LastUsed
      <4>2. s < r
          BY <4>1, ControlPanelAssumption DEF Start
      <4>3. v.socket[s] # "closed"
          BY <1>1
      <4>4. /\ ClosedBefore(v.socket, r) \in Nat /\ ClosedBefore(w.socket, r) \in Nat
            /\ \A q \in Start : q < r /\ v.socket[q] # "closed" /\ w.socket[q] = "closed" =>
                  ClosedBefore(v.socket, r) + 1 <= ClosedBefore(w.socket, r)
          BY <3>1, ClosedBeforeGrows
      <4>5. ClosedBefore(v.socket, r) + 1 <= ClosedBefore(w.socket, r)
          BY <1>3, <4>2, <4>3, <4>4
      <4>6. w.unanswered[r] \in Nat /\ w.unanswered[r] <= 1 + ClosedBefore(v.socket, r)
          BY <1>1, <1>2, <1>5 DEF Orderly, FramesFit, VideoType
      <4> QED
          BY <4>4, <4>5, <4>6
    <3>4. v \in VideoType /\ w \in VideoType /\ FramesFit(v)
        BY <1>1, <1>2, <1>5 DEF Orderly
    <3> QED
        BY <3>1, <3>2, <3>3, <3>4, FramesKeep
  <2> QED
      BY <2>2, <2>3, <2>4 DEF Orderly
<1>6. VideoFits(w)
    BY <1>2, <1>4, <1>5 DEF VideoFits, v
<1> QED
    BY <1>6 DEF w

\* A frame is captured only when the socket in use has room for it.
LEMMA CaptureKeeps ==
    ASSUME VideoFits(video), CaptureFrame
    PROVE  VideoFits(video')
<1> DEFINE v == video
           w == video'
<1>1. PICK s \in Start : v.ws = s
    BY DEF VideoFits, CaptureFrame, MayCapture, VideoType
<1>2. /\ v \in VideoType /\ InOrder(v) /\ SocketFollows(v)
      /\ v.socket[s] = "open" /\ ~ v.pending /\ v.frames + 1 \in Nat
    BY <1>1 DEF VideoFits, CaptureFrame, MayCapture, VideoType
<1>3. PICK unanswered \in [Start -> Nat] : unanswered = [v.unanswered EXCEPT ![s] = @ + 1]
  <2>1. v.unanswered \in [Start -> Nat] /\ v.unanswered[s] + 1 \in Nat
      BY <1>2 DEF VideoType
  <2> QED
      BY <2>1
<1>4. w = [v EXCEPT !.pending = TRUE, !.unanswered = unanswered, !.frames = @ + 1]
    BY <1>3, <1>2, <1>1 DEF CaptureFrame, VideoType
<1>5. /\ w \in VideoType /\ w.call = v.call /\ w.socket = v.socket
      /\ w.unanswered = [v.unanswered EXCEPT ![s] = @ + 1]
      /\ w.beside = v.beside /\ w.ws = v.ws
      /\ w.stream = v.stream /\ w.timer = v.timer /\ w.cameras = v.cameras /\ w.timers = v.timers
      /\ w.pending = TRUE
    BY <1>3, <1>2, <1>4 DEF VideoType
<1>6. /\ v.unanswered[s] \in Nat /\ w.unanswered[s] = v.unanswered[s] + 1
      /\ \A r \in Start : r # s => w.unanswered[r] = v.unanswered[r]
    BY <1>2, <1>5 DEF VideoType
<1> HIDE DEF v, w
<1>7. InOrder(w) /\ SocketFollows(w)
    BY <1>2, <1>5, <1>6 DEF InOrder, SocketFollows
<1>8. ASSUME Orderly(v) PROVE Orderly(w)
  <2>1. LastStarts(w) /\ LastUsed(w) /\ Free(w) /\ HeldByDemo(w)
      BY <1>5, <1>8 DEF Orderly, LastStarts, LastUsed, Free, HeldByDemo, IsStarting, IsLive
  <2>2. ASSUME NEW r \in Start PROVE w.unanswered[r] <= 1 + ClosedBefore(w.socket, r)
    <3>1. ClosedBefore(v.socket, r) \in Nat /\ w.socket = v.socket
        BY <1>5, ClosedBeforeGrows
    <3>2. CASE r = s
      <4>1. v.unanswered[s] <= ClosedBefore(v.socket, s)
          BY <1>2, <1>1, <1>8 DEF Orderly, FramesFit
      <4> QED
          BY <1>6, <3>1, <3>2, <4>1
    <3>3. CASE r # s
        BY <1>6, <1>8, <3>1, <3>3 DEF Orderly, FramesFit
    <3> QED
        BY <3>2, <3>3
  <2>3. FramesFit(w)
      BY <1>5, <2>2 DEF FramesFit
  <2> QED
      BY <2>1, <2>3 DEF Orderly
<1>9. VideoFits(w)
    BY <1>5, <1>7, <1>8 DEF VideoFits, v
<1> QED
    BY <1>9 DEF w

\* An answer is to the socket in use, which has then room for a frame.
LEMMA AnsweredKeeps ==
    ASSUME VideoFits(video), NEW s \in Start, FrameAnswered(s)
    PROVE  VideoFits(video')
<1> DEFINE v == video
           w == video'
<1>1. /\ v \in VideoType /\ InOrder(v) /\ SocketFollows(v)
      /\ v.socket[s] = "open" /\ v.unanswered[s] > 0 /\ v.unanswered[s] \in Nat
    BY DEF VideoFits, FrameAnswered, VideoType
<1>2. PICK unanswered \in [Start -> Nat] : unanswered = [v.unanswered EXCEPT ![s] = @ - 1]
  <2>1. v.unanswered \in [Start -> Nat] /\ v.unanswered[s] - 1 \in Nat
      BY <1>1 DEF VideoType
  <2> QED
      BY <2>1
<1>3. w = [v EXCEPT !.pending = FALSE, !.unanswered = unanswered]
    BY <1>2, <1>1 DEF FrameAnswered, VideoType
<1>4. /\ w \in VideoType /\ w.call = v.call /\ w.socket = v.socket
      /\ w.unanswered = [v.unanswered EXCEPT ![s] = @ - 1]
      /\ w.beside = v.beside /\ w.ws = v.ws
      /\ w.stream = v.stream /\ w.timer = v.timer /\ w.cameras = v.cameras /\ w.timers = v.timers
      /\ w.pending = FALSE
    BY <1>2, <1>1, <1>3 DEF VideoType
<1>5. /\ w.unanswered[s] = v.unanswered[s] - 1
      /\ \A r \in Start : r # s => w.unanswered[r] = v.unanswered[r]
    BY <1>1, <1>4 DEF VideoType
<1> HIDE DEF v, w
<1>6. InOrder(w) /\ SocketFollows(w)
    BY <1>1, <1>4, <1>5 DEF InOrder, SocketFollows
<1>7. ASSUME Orderly(v) PROVE Orderly(w)
  <2>1. LastStarts(w) /\ LastUsed(w) /\ Free(w) /\ HeldByDemo(w)
      BY <1>4, <1>7 DEF Orderly, LastStarts, LastUsed, Free, HeldByDemo, IsStarting, IsLive
  <2>2. FramesFit(w)
    <3>1. \A r \in Start : v.socket[r] = "closed" => w.socket[r] = "closed"
        BY <1>4
    <3>2. ASSUME NEW r \in Start PROVE w.unanswered[r] <= v.unanswered[r]
      <4>1. v.unanswered[r] \in Nat
          BY <1>1 DEF VideoType
      <4> QED
          BY <1>1, <1>5, <4>1
    <3>3. v.ws = s
        BY <1>1, <1>7 DEF Orderly, HeldByDemo, IsLive
    <3>4. w.unanswered[s] <= ClosedBefore(w.socket, s)
      <4>1. ClosedBefore(v.socket, s) \in Nat
          BY ClosedBeforeGrows
      <4>2. v.unanswered[s] <= 1 + ClosedBefore(v.socket, s)
          BY <1>7 DEF Orderly, FramesFit
      <4> QED
          BY <1>1, <1>4, <1>5, <4>1, <4>2
    <3>5. \A r \in Start : w.ws = r => r = s
        BY <1>4, <3>3
    <3>6. \A r \in Start :
              w.ws = r /\ w.socket[r] = "open" /\ ~ w.pending =>
                  \/ v.ws = r /\ v.socket[r] = "open" /\ ~ v.pending
                  \/ w.unanswered[r] <= ClosedBefore(w.socket, r)
        BY <3>4, <3>5
    <3>7. v \in VideoType /\ w \in VideoType /\ FramesFit(v)
        BY <1>1, <1>4, <1>7 DEF Orderly
    <3> QED
        BY <3>1, <3>2, <3>6, <3>7, FramesKeep
  <2> QED
      BY <2>1, <2>2 DEF Orderly
<1>8. VideoFits(w)
    BY <1>4, <1>6, <1>7 DEF VideoFits, v
<1> QED
    BY <1>8 DEF w

\* Every step of the camera stream.
LEMMA VideoStepKeeps == VideoFits(video) /\ VideoStep => VideoFits(video')
<1> SUFFICES ASSUME VideoFits(video), VideoStep PROVE VideoFits(video')
    OBVIOUS
<1>1. CASE PressStop
    BY <1>1, StoppedKeeps DEF PressStop
<1>2. CASE LeaveVideo
    BY <1>2, StoppedKeeps DEF LeaveVideo
<1> QED
    BY <1>1, <1>2, StartKeeps, CaptureKeeps, CameraKeeps, PlaysKeeps, OpensKeeps, FailsKeeps,
       ClosesKeeps, AnsweredKeeps DEF VideoStep

\* A page begins with no stream.
LEMMA NoVideoFits == VideoFits(NoVideo)
<1> DEFINE v == NoVideo
<1>1. v \in VideoType
    BY DEF NoVideo, VideoType, CallStage, SocketStage
<1>2. /\ v.cameras = {} /\ v.timers = {} /\ v.ws = NoStart
      /\ \A s \in Start : v.call[s] = "idle" /\ v.socket[s] = "none" /\ v.unanswered[s] = 0
    BY DEF NoVideo
<1> HIDE DEF v
<1>3. InOrder(v) /\ SocketFollows(v)
    BY <1>2 DEF InOrder, SocketFollows
<1>4. LastStarts(v) /\ LastUsed(v) /\ Free(v) /\ HeldByDemo(v)
    BY <1>2 DEF LastStarts, LastUsed, Free, HeldByDemo, IsStarting, IsLive
<1>5. FramesFit(v)
  <2> SUFFICES ASSUME NEW s \in Start
               PROVE  /\ v.unanswered[s] <= 1 + ClosedBefore(v.socket, s)
                      /\ v.unanswered[s] <= ClosedBefore(v.socket, s)
      BY DEF FramesFit
  <2>1. ClosedBefore(v.socket, s) \in Nat
      BY ClosedBeforeGrows
  <2> QED
      BY <1>2, <2>1
<1> QED
    BY <1>1, <1>3, <1>4, <1>5 DEF VideoFits, Orderly, v

-----------------------------------------------------------------------------
(* A start that overlapped with no other.  While one is under way, no      *)
(* other such start holds anything: those before it were stopped when it   *)
(* began, and those after it have overlapped with it.                      *)

Solo(v) == Start \ v.beside

Holds(v, s) == s \in v.cameras \/ s \in v.timers \/ IsLive(v, s)

\* A start that began while an earlier one was under way overlapped with it.
Aside(v) ==
    \A r, s \in Start :
        r < s /\ IsStarting(v, r) /\ v.call[s] # "idle" => r \in v.beside /\ s \in v.beside

\* What a start has come to before it holds a camera or an interval.
Took(v, s) ==
    /\ s \in v.cameras => v.call[s] \in {"play", "open", "returned", "failed"}
    /\ s \in v.timers => v.call[s] = "returned"

Referenced(v, s) ==
    /\ s \in v.cameras => v.stream = s
    /\ s \in v.timers => v.timer = s
    /\ IsLive(v, s) => v.ws = s

\* An earlier start that overlapped with none holds nothing once a later one began.
Cleared(v) ==
    \A r, s \in Start : r < s /\ IsStarting(v, s) /\ r \in Solo(v) => ~ Holds(v, r)

Stoppable(v, s) ==
    ~ IsStarting(v, s) /\ Holds(v, s) => v.canStop \/ v.call[s] = "failed"

SoloHeld(v) ==
    /\ Aside(v) /\ Cleared(v)
    /\ \A s \in Start : Took(v, s)
    /\ \A s \in Solo(v) : Referenced(v, s)

SoloFits(v) == SoloHeld(v) /\ \A s \in Solo(v) : Stoppable(v, s)

\* Nothing else is held beside a start under way.
LEMMA Undisturbed ==
    ASSUME NEW v \in VideoType, SocketFollows(v), SoloHeld(v),
           NEW r \in Start, IsStarting(v, r), NEW s \in Solo(v), s # r
    PROVE  ~ Holds(v, s)
<1>0. s \in Start /\ s \notin v.beside
    BY DEF Solo
<1>1. CASE s < r
    BY <1>0, <1>1 DEF SoloHeld, Cleared
<1>2. CASE r < s
  <2>1. v.call[s] = "idle"
      BY <1>0, <1>2 DEF SoloHeld, Aside
  <2>2. s \notin v.cameras /\ s \notin v.timers
      BY <1>0, <2>1 DEF SoloHeld, Took
  <2>3. ~ IsLive(v, s)
      BY <1>0, <2>1 DEF SocketFollows, IsLive
  <2> QED
      BY <2>2, <2>3 DEF Holds
<1> QED
    BY <1>0, <1>1, <1>2, ControlPanelAssumption DEF Start

\* A step of a start under way.
LEMMA SoloMoves ==
    ASSUME NEW v \in VideoType, NEW w \in VideoType, SocketFollows(v), SoloHeld(v),
           NEW r \in Start, IsStarting(v, r), w.call[r] # "idle", w.beside = v.beside,
           \A s \in Start : s # r => /\ w.call[s] = v.call[s]
                                     /\ s \in w.cameras => s \in v.cameras
                                     /\ s \in w.timers => s \in v.timers
                                     /\ IsLive(w, s) => IsLive(v, s),
           Took(w, r), r \notin v.beside => Referenced(w, r)
    PROVE  SoloHeld(w) /\ (Stoppable(w, r) => SoloFits(w))
<1>1. ASSUME NEW s \in Start, s # r, Holds(w, s)
      PROVE  Holds(v, s)
    BY <1>1 DEF Holds
<1>2. \A s \in Start : IsStarting(w, s) => IsStarting(v, s)
    BY DEF IsStarting
<1>3. \A s \in Start : v.call[s] = "idle" => w.call[s] = "idle"
    BY DEF IsStarting
<1>4. Solo(w) = Solo(v)
    BY DEF Solo
<1>5. ASSUME NEW s \in Solo(w), s # r PROVE ~ Holds(w, s)
  <2>1. s \in Start /\ s \in Solo(v)
      BY <1>4 DEF Solo
  <2>2. ~ Holds(v, s)
      BY <1>5, <2>1, Undisturbed
  <2> QED
      BY <1>1, <1>5, <2>1, <2>2
<1>6. Aside(w)
    BY <1>2, <1>3 DEF SoloHeld, Aside
<1>7. Cleared(w)
  <2> SUFFICES ASSUME NEW q \in Start, NEW s \in Start, q < s, IsStarting(w, s), q \in Solo(w), q = r
               PROVE  FALSE
      BY <1>5 DEF Cleared
  <2>1. v.call[s] # "idle"
      BY <1>2 DEF IsStarting
  <2>2. r \in v.beside
      BY <2>1 DEF SoloHeld, Aside
  <2> QED
      BY <1>4, <2>2 DEF Solo
<1>8. \A s \in Start : Took(w, s)
  <2> TAKE s \in Start
  <2>1. Took(v, s)
      BY DEF SoloHeld
  <2> QED
      BY <2>1 DEF Took
<1>9. \A s \in Solo(w) : Referenced(w, s)
  <2> TAKE s \in Solo(w)
  <2>1. CASE s = r
      BY <1>4, <2>1 DEF Solo
  <2>2. CASE s # r
      BY <1>5, <2>2 DEF Holds, Referenced
  <2> QED
      BY <2>1, <2>2
<1>10. SoloHeld(w)
    BY <1>6, <1>7, <1>8, <1>9 DEF SoloHeld
<1>11. ASSUME Stoppable(w, r) PROVE \A s \in Solo(w) : Stoppable(w, s)
    BY <1>5, <1>11 DEF Stoppable
<1> QED
    BY <1>10, <1>11 DEF SoloFits

\* stopVideoDemo takes all from the starts that overlapped with none.
LEMMA SoloStopped ==
    ASSUME NEW v \in VideoType, SoloHeld(v)
    PROVE  SoloFits(Stopped(v)) /\ \A s \in Solo(v) : ~ Holds(Stopped(v), s)
<1> DEFINE w == Stopped(v)
<1>1. /\ w.call = v.call /\ w.beside = v.beside
      /\ w.cameras = v.cameras \ {v.stream} /\ w.timers = v.timers \ {v.timer}
      /\ \A s \in Start : IsLive(w, s) => IsLive(v, s) /\ s # v.ws
  <2>1. \A s \in Start : /\ s # v.ws => w.socket[s] = v.socket[s]
                         /\ s = v.ws => ~ IsLive(w, s)
      BY StoppedIs
  <2> QED
      BY <2>1, StoppedIs DEF IsLive
<1> HIDE DEF w
<1>2. Solo(w) = Solo(v)
    BY <1>1 DEF Solo
<1>3. ASSUME NEW s \in Solo(v) PROVE ~ Holds(w, s)
  <2>1. s \in Start /\ Referenced(v, s)
      BY DEF Solo, SoloHeld
  <2> QED
      BY <1>1, <2>1 DEF Referenced, Holds
<1>4. Aside(w) /\ Cleared(w)
  <2>1. Aside(w)
      BY <1>1 DEF SoloHeld, Aside, IsStarting
  <2>2. Cleared(w)
      BY <1>2, <1>3 DEF Cleared
  <2> QED
      BY <2>1, <2>2
<1>5. \A s \in Start : Took(w, s)
    BY <1>1 DEF SoloHeld, Took
<1>6. \A s \in Solo(w) : Referenced(w, s) /\ Stoppable(w, s)
    BY <1>2, <1>3 DEF Holds, Referenced, Stoppable
<1> QED
    BY <1>3, <1>4, <1>5, <1>6 DEF SoloFits, SoloHeld, w

\* A new start, which overlaps with those under way.
LEMMA SoloBegins ==
    ASSUME VideoFits(video), SoloFits(video), PressStart
    PROVE  SoloFits(video')
<1> DEFINE v == Stopped(video)
           w == video'
<1>1. PICK s \in Start :
          /\ video.call[s] = "idle"
          /\ w = [v EXCEPT !.call[s] = "camera",
                           !.beside = IF Starting = {} THEN @ ELSE @ \cup Starting \cup {s}]
    BY DEF PressStart
<1>2. video \in VideoType /\ InOrder(video) /\ v \in VideoType /\ v.call = video.call /\ v.beside = video.beside
    BY StoppedIs DEF VideoFits
<1>3. SoloFits(v) /\ \A r \in Solo(video) : ~ Holds(v, r)
    BY <1>2, SoloStopped DEF SoloFits
<1> HIDE DEF v
<1>4. /\ w.call = [v.call EXCEPT ![s] = "camera"]
      /\ w.beside = IF Starting = {} THEN v.beside ELSE v.beside \cup Starting \cup {s}
      /\ w.cameras = v.cameras /\ w.timers = v.timers /\ w.socket = v.socket
    BY <1>1, <1>2 DEF VideoType
<1>5. w.call[s] = "camera" /\ \A r \in Start : r # s => w.call[r] = video.call[r]
    BY <1>2, <1>4 DEF VideoType
<1> HIDE DEF w
<1>6. \A r \in Solo(w) : r \in Solo(video) /\ r \in Start /\ ~ Holds(w, r)
    BY <1>2, <1>3, <1>4 DEF Solo, Holds, IsLive
<1>7. \A r \in Start : r > s => video.call[r] = "idle"
    BY <1>1, <1>2 DEF InOrder
<1>8. Aside(w)
  <2> SUFFICES ASSUME NEW q \in Start, NEW r \in Start, q < r, IsStarting(w, q), w.call[r] # "idle"
               PROVE  q \in w.beside /\ r \in w.beside
      BY DEF Aside
  <2>1. q # s
    <3>1. q = s => w.call[r] = "idle"
        BY <1>5, <1>7, ControlPanelAssumption DEF Start
    <3> QED
        BY <3>1
  <2>2. IsStarting(video, q) /\ q \in Starting
      BY <1>5, <2>1 DEF IsStarting, Starting
  <2>3. CASE r = s
      BY <1>4, <2>2, <2>3
  <2>4. CASE r # s
      BY <1>2, <1>4, <1>5, <2>2, <2>4 DEF SoloFits, SoloHeld, Aside
  <2> QED
      BY <2>3, <2>4
<1>9. Cleared(w)
    BY <1>6 DEF Cleared
<1>10. \A r \in Start : Took(w, r)
  <2>1. s \notin w.cameras /\ s \notin w.timers
    <3>1. Took(v, s) /\ v.call[s] = "idle"
        BY <1>1, <1>2, <1>3 DEF SoloFits, SoloHeld
    <3> QED
        BY <1>4, <3>1 DEF Took
  <2>2. \A r \in Start : Took(v, r)
      BY <1>3 DEF SoloFits, SoloHeld
  <2> QED
      BY <1>2, <1>4, <1>5, <2>1, <2>2 DEF Took
<1>11. \A r \in Solo(w) : Referenced(w, r) /\ Stoppable(w, r)
    BY <1>6 DEF Holds, Referenced, Stoppable
<1>12. SoloFits(w)
    BY <1>8, <1>9, <1>10, <1>11 DEF SoloFits, SoloHeld
<1> QED
    BY <1>12 DEF w

\* Frames, answers and the ends of sockets take nothing into hold.
LEMMA SoloQuiet ==
    ASSUME NEW v, NEW w, SoloFits(v),
           w.call = v.call, w.beside = v.beside, w.canStop = v.canStop,
           w.cameras = v.cameras, w.timers = v.timers,
           w.stream = v.stream, w.timer = v.timer, w.ws = v.ws,
           \A s \in Start : IsLive(w, s) => IsLive(v, s)
    PROVE  SoloFits(w)
<1>1. Solo(w) = Solo(v) /\ \A s \in Start : IsStarting(w, s) <=> IsStarting(v, s)
    BY DEF Solo, IsStarting
<1>2. \A s \in Start : Holds(w, s) => Holds(v, s)
    BY DEF Holds
<1>3. Aside(w)
    BY <1>1 DEF SoloFits, SoloHeld, Aside
<1>4. Cleared(w)
    BY <1>1, <1>2 DEF SoloFits, SoloHeld, Cleared
<1>5. \A s \in Start : Took(w, s)
    BY DEF SoloFits, SoloHeld, Took
<1>6. ASSUME NEW s \in Solo(w)
      PROVE  Referenced(w, s) /\ Stoppable(w, s)
  <2>1. s \in Start /\ Referenced(v, s) /\ Stoppable(v, s)
      BY <1>1 DEF SoloFits, SoloHeld, Solo
  <2>2. Referenced(w, s)
      BY <2>1 DEF Referenced
  <2>3. Stoppable(w, s)
      BY <1>1, <1>2, <2>1 DEF Stoppable
  <2> QED
      BY <2>2, <2>3
<1> QED
    BY <1>3, <1>4, <1>5, <1>6 DEF SoloFits, SoloHeld

\* The camera is taken or refused.
LEMMA SoloCamera ==
    ASSUME VideoFits(video), VideoFits(video'), SoloFits(video), NEW s \in Start, CameraAnswers(s)
    PROVE  SoloFits(video')
<1> DEFINE v == video
           w == video'
<1>1. /\ v \in VideoType /\ w \in VideoType /\ SocketFollows(v) /\ v.call[s] = "camera"
    BY DEF VideoFits, CameraAnswers
<1>2. /\ w.beside = v.beside /\ w.socket = v.socket /\ w.timers = v.timers
      /\ \A r \in Start : r # s => w.call[r] = v.call[r]
      /\ \/ w.call[s] = "play" /\ w.cameras = v.cameras \cup {s} /\ w.stream = s
         \/ w.call[s] = "returned" /\ w.cameras = v.cameras
  <2>1. CASE w = [v EXCEPT !.call[s] = "play", !.cameras = @ \cup {s}, !.stream = s]
    <3>1. w.call[s] = "play" /\ w.cameras = v.cameras \cup {s} /\ w.stream = s
        BY <1>1, <2>1 DEF VideoType
    <3>2. /\ w.beside = v.beside /\ w.socket = v.socket /\ w.timers = v.timers
          /\ \A r \in Start : r # s => w.call[r] = v.call[r]
        BY <1>1, <2>1 DEF VideoType
    <3> HIDE DEF v, w
    <3> QED
        BY <3>1, <3>2
  <2>2. CASE w = [v EXCEPT !.call[s] = "returned"]
    <3>1. w.call[s] = "returned" /\ w.cameras = v.cameras
        BY <1>1, <2>2 DEF VideoType
    <3>2. /\ w.beside = v.beside /\ w.socket = v.socket /\ w.timers = v.timers
          /\ \A r \in Start : r # s => w.call[r] = v.call[r]
        BY <1>1, <2>2 DEF VideoType
    <3> HIDE DEF v, w
    <3> QED
        BY <3>1, <3>2
  <2> QED
      BY <2>1, <2>2 DEF CameraAnswers
<1> HIDE DEF v, w
<1>3. SoloHeld(v) /\ Took(v, s)
    BY DEF SoloFits, SoloHeld, v
<1>4. IsStarting(v, s) /\ s \notin v.cameras /\ s \notin v.timers /\ ~ IsLive(v, s)
    BY <1>1, <1>3 DEF IsStarting, Took, SocketFollows, IsLive
<1>5. \A r \in Start : IsLive(w, r) <=> IsLive(v, r)
    BY <1>2 DEF IsLive
<1>6. Took(w, s) /\ Referenced(w, s) /\ Stoppable(w, s)
    BY <1>2, <1>4, <1>5 DEF Took, Referenced, Stoppable, IsStarting, Holds
<1>7. w.call[s] # "idle" /\ \A r \in Start : r # s => (r \in w.cameras => r \in v.cameras)
    BY <1>2
<1>8. SoloFits(w)
    BY <1>1, <1>2, <1>3, <1>4, <1>5, <1>6, <1>7, SoloMoves
<1> QED
    BY <1>8 DEF w

\* The socket is made, or the start ends with its camera on.
LEMMA SoloPlays ==
    ASSUME VideoFits(video), VideoFits(video'), SoloFits(video), NEW s \in Start, Plays(s)
    PROVE  SoloFits(video')
<1> DEFINE v == video
           w == video'
<1>1. /\ v \in VideoType /\ w \in VideoType /\ SocketFollows(v) /\ v.call[s] = "play"
    BY DEF VideoFits, Plays
<1>2. /\ w.beside = v.beside /\ w.cameras = v.cameras /\ w.stream = v.stream /\ w.timers = v.timers
      /\ \A r \in Start : r # s => w.call[r] = v.call[r] /\ w.socket[r] = v.socket[r]
      /\ \/ w.call[s] = "open" /\ w.ws = s
         \/ w.call[s] = "failed" /\ w.socket = v.socket
  <2>1. CASE w = [v EXCEPT !.call[s] = "open", !.socket[s] = "connecting", !.ws = s]
    <3>1. w.call[s] = "open" /\ w.ws = s
        BY <1>1, <2>1 DEF VideoType
    <3>2. /\ w.beside = v.beside /\ w.cameras = v.cameras /\ w.stream = v.stream /\ w.timers = v.timers
          /\ \A r \in Start : r # s => w.call[r] = v.call[r] /\ w.socket[r] = v.socket[r]
        BY <1>1, <2>1 DEF VideoType
    <3> HIDE DEF v, w
    <3> QED
        BY <3>1, <3>2
  <2>2. CASE w = [v EXCEPT !.call[s] = "failed"]
    <3>1. w.call[s] = "failed" /\ w.socket = v.socket
        BY <1>1, <2>2 DEF VideoType
    <3>2. /\ w.beside = v.beside /\ w.cameras = v.cameras /\ w.stream = v.stream /\ w.timers = v.timers
          /\ \A r \in Start : r # s => w.call[r] = v.call[r] /\ w.socket[r] = v.socket[r]
        BY <1>1, <2>2 DEF VideoType
    <3> HIDE DEF v, w
    <3> QED
        BY <3>1, <3>2
  <2> QED
      BY <2>1, <2>2 DEF Plays
<1> HIDE DEF v, w
<1>3. SoloHeld(v) /\ Took(v, s) /\ (s \notin v.beside => Referenced(v, s))
    BY DEF SoloFits, SoloHeld, Solo, v
<1>4. IsStarting(v, s) /\ s \notin v.timers /\ ~ IsLive(v, s)
    BY <1>1, <1>3 DEF IsStarting, Took, SocketFollows, IsLive
<1>5. \A r \in Start : r # s => (IsLive(w, r) <=> IsLive(v, r))
    BY <1>2 DEF IsLive
<1>6. w.ws = s \/ ~ IsLive(w, s)
    BY <1>2, <1>4 DEF IsLive
<1>7. Took(w, s) /\ (s \notin v.beside => Referenced(w, s)) /\ Stoppable(w, s)
    BY <1>2, <1>3, <1>4, <1>6 DEF Took, Referenced, Stoppable, IsStarting
<1>8. w.call[s] # "idle"
    BY <1>2
<1>9. SoloFits(w)
    BY <1>1, <1>2, <1>3, <1>4, <1>5, <1>7, <1>8, SoloMoves
<1> QED
    BY <1>9 DEF w

\* The interval is set, and the stop button enabled.
LEMMA SoloOpens ==
    ASSUME VideoFits(video), VideoFits(video'), SoloFits(video), NEW s \in Start, SocketOpens(s)
    PROVE  SoloFits(video')
<1> DEFINE v == video
           w == video'
<1>1. /\ v \in VideoType /\ w \in VideoType /\ SocketFollows(v)
      /\ v.call[s] = "open" /\ v.socket[s] = "connecting"
    BY DEF VideoFits, SocketOpens
<1>2. /\ w.beside = v.beside /\ w.cameras = v.cameras /\ w.stream = v.stream
      /\ w.timers = v.timers \cup {s} /\ w.timer = s /\ w.ws = v.ws /\ w.canStop
      /\ w.call[s] = "returned"
      /\ \A r \in Start : r # s => w.call[r] = v.call[r] /\ w.socket[r] = v.socket[r]
    BY <1>1 DEF SocketOpens, VideoType
<1> HIDE DEF v, w
<1>3. SoloHeld(v) /\ (s \notin v.beside => Referenced(v, s))
    BY DEF SoloFits, SoloHeld, Solo, v
<1>4. IsStarting(v, s) /\ IsLive(v, s)
    BY <1>1 DEF IsStarting, IsLive
<1>5. \A r \in Start : r # s => (IsLive(w, r) <=> IsLive(v, r))
    BY <1>2 DEF IsLive
<1>6. Took(w, s) /\ (s \notin v.beside => Referenced(w, s)) /\ Stoppable(w, s)
    BY <1>2, <1>3, <1>4 DEF Took, Referenced, Stoppable
<1>7. w.call[s] # "idle" /\ \A r \in Start : r # s => (r \in w.timers => r \in v.timers)
    BY <1>2
<1>8. SoloFits(w)
    BY <1>1, <1>2, <1>3, <1>4, <1>5, <1>6, <1>7, SoloMoves
<1> QED
    BY <1>8 DEF w

\* A socket that fails ends its start, and all is given up.
LEMMA SoloFails ==
    ASSUME VideoFits(video), SoloFits(video), NEW s \in Start, SocketFails(s)
    PROVE  SoloFits(video')
<1>1. PICK now_ \in {"closed", video.socket[s]} :
          video' = Stopped([video EXCEPT !.call[s] = "returned", !.socket[s] = now_])
    BY DEF SocketFails
<1> DEFINE v == video
           w == [video EXCEPT !.call[s] = "returned", !.socket[s] = now_]
<1>2. v \in VideoType /\ SocketFollows(v) /\ v.call[s] = "open"
    BY DEF VideoFits, SocketFails
<1>3. /\ w \in VideoType /\ w.beside = v.beside /\ w.cameras = v.cameras /\ w.timers = v.timers
      /\ w.stream = v.stream /\ w.timer = v.timer /\ w.ws = v.ws
      /\ w.call[s] = "returned" /\ w.socket[s] = now_
      /\ \A r \in Start : r # s => w.call[r] = v.call[r] /\ w.socket[r] = v.socket[r]
    BY <1>1, <1>2 DEF VideoType, CallStage, SocketStage
<1>4. video' = Stopped(w)
    BY <1>1
<1> HIDE DEF v, w
<1>5. SoloHeld(v) /\ Took(v, s) /\ (s \notin v.beside => Referenced(v, s))
    BY DEF SoloFits, SoloHeld, Solo, v
<1>6. IsStarting(v, s) /\ s \notin v.timers
    BY <1>2, <1>5 DEF IsStarting, Took
<1>7. \A r \in Start : IsLive(w, r) => IsLive(v, r)
    BY <1>1, <1>3 DEF IsLive, v
<1>8. Took(w, s) /\ (s \notin v.beside => Referenced(w, s)) /\ w.call[s] # "idle"
    BY <1>3, <1>5, <1>6, <1>7 DEF Took, Referenced
<1>9. SoloHeld(w)
    BY <1>2, <1>3, <1>5, <1>6, <1>7, <1>8, SoloMoves
<1> QED
    BY <1>3, <1>4, <1>9, SoloStopped

\* Every step of the camera stream.
LEMMA SoloStepKeeps ==
    VideoFits(video) /\ SoloFits(video) /\ VideoStep => SoloFits(video')
<1> SUFFICES ASSUME VideoFits(video), SoloFits(video), VideoStep PROVE SoloFits(video')
    OBVIOUS
<1>1. VideoFits(video')
    BY VideoStepKeeps
<1>2. video \in VideoType /\ SoloHeld(video)
    BY DEF VideoFits, SoloFits
<1>3. CASE PressStop \/ LeaveVideo
    BY <1>2, <1>3, SoloStopped DEF PressStop, LeaveVideo
<1>4. CASE CaptureFrame
  <2>1. \A s \in Start : IsLive(video', s) => IsLive(video, s)
      BY <1>2, <1>4 DEF CaptureFrame, IsLive, VideoType
  <2> QED
      BY <1>2, <1>4, <2>1, SoloQuiet DEF CaptureFrame, VideoType
<1>5. ASSUME NEW s \in Start, FrameAnswered(s) PROVE SoloFits(video')
  <2>1. \A r \in Start : IsLive(video', r) => IsLive(video, r)
      BY <1>2, <1>5 DEF FrameAnswered, IsLive, VideoType
  <2> QED
      BY <1>2, <1>5, <2>1, SoloQuiet DEF FrameAnswered, VideoType
<1>6. ASSUME NEW s \in Start, SocketCloses(s) PROVE SoloFits(video')
  <2>1. \A r \in Start : IsLive(video', r) => IsLive(video, r)
      BY <1>2, <1>6 DEF SocketCloses, IsLive, VideoType
  <2> QED
      BY <1>2, <1>6, <2>1, SoloQuiet DEF SocketCloses, VideoType
<1> QED
    BY <1>1, <1>3, <1>4, <1>5, <1>6, SoloBegins, SoloCamera, SoloPlays, SoloOpens, SoloFails DEF VideoStep

\* A page begins with no stream.
LEMMA NoSoloFits == SoloFits(NoVideo)
<1>1. \A s \in Start : NoVideo.call[s] = "idle" /\ ~ Holds(NoVideo, s)
    BY DEF NoVideo, Holds, IsLive
<1>2. Aside(NoVideo) /\ Cleared(NoVideo)
    BY <1>1 DEF Aside, Cleared, IsStarting
<1>3. \A s \in Start : Took(NoVideo, s) /\ Referenced(NoVideo, s) /\ Stoppable(NoVideo, s)
    BY <1>1 DEF Took, Referenced, Stoppable, Holds
<1> QED
    BY <1>2, <1>3 DEF SoloFits, SoloHeld, Solo

-----------------------------------------------------------------------------
\* The rest of the panel leaves the stream alone or ends it.
LEMMA VideoInvariance == PanelSpec => [](VideoFits(video) /\ SoloFits(video))
<1>1. PanelInit => VideoFits(video) /\ SoloFits(video)
    BY NoVideoFits, NoSoloFits DEF PanelInit
<1>2. ASSUME VideoFits(video), SoloFits(video), [PanelNext]_panelVars
      PROVE  VideoFits(video') /\ SoloFits(video')
  <2> USE <1>2
  <2>1. CASE video' = video
      BY <2>1
  <2>2. CASE video' = NoVideo
      BY <2>2, NoVideoFits, NoSoloFits
  <2>3. CASE LoadStep
      BY <2>1, <2>3 DEF LoadStep, StartContinuous, StopContinuous, ResetCounters, SendMessage,
                        ResponseHead, ResponseBody
  <2>4. CASE RoutingStep
      BY <2>1, <2>4 DEF RoutingStep, GatewayChanges, Pick, ApplyRouting, Applied, Poll, Refresh,
                        RefreshAnswered, RefreshShown
  <2>5. CASE VideoStep
      BY <2>5, VideoStepKeeps, SoloStepKeeps
  <2> QED
      BY <2>1, <2>2, <2>3, <2>4, <2>5 DEF PanelNext, PanelFollows, panel, panelVars
<1>3. ASSUME VideoFits(video), SoloFits(video), [PanelNext]_panelVars
      PROVE  (VideoFits(video) /\ SoloFits(video))'
    BY <1>2, <1>3
<1> QED
    BY <1>1, <1>3, PTL DEF PanelSpec

\* A start that was never under way beside another one loses hold of nothing: what
\* it has turned on is what stopVideoDemo would stop, and once it is over the stop
\* button is enabled, unless play() failed - for any number of starts, and whatever
\* starts that overlapped and switches of the mode came between.
THEOREM CamerasAreStopped == PanelSpec => []CameraCanBeStopped
<1>1. SoloFits(video) => CameraCanBeStopped
  <2> SUFFICES ASSUME SoloFits(video), NEW s \in Start \ video.beside
               PROVE  /\ s \in video.cameras => video.stream = s
                      /\ s \in video.timers => video.timer = s
                      /\ Live(s) => video.ws = s
                      /\ s \notin Starting /\ (s \in video.cameras \/ s \in video.timers \/ Live(s)) =>
                             video.canStop \/ video.call[s] = "failed"
      BY DEF CameraCanBeStopped
  <2>1. Referenced(video, s) /\ Stoppable(video, s)
      BY DEF SoloFits, SoloHeld, Solo
  <2>2. /\ Live(s) <=> IsLive(video, s)
        /\ s \in Starting <=> IsStarting(video, s)
      BY DEF Live, IsLive, Starting, IsStarting
  <2>3. /\ s \in video.cameras => video.stream = s
        /\ s \in video.timers => video.timer = s
        /\ Live(s) => video.ws = s
      BY <2>1, <2>2 DEF Referenced
  <2>4. s \notin Starting /\ (s \in video.cameras \/ s \in video.timers \/ Live(s)) =>
            video.canStop \/ video.call[s] = "failed"
      BY <2>1, <2>2 DEF Stoppable, Holds
  <2> QED
      BY <2>3, <2>4
<1> QED
    BY <1>1, VideoInvariance, PTL

\* A socket has one frame unanswered, and one more for each earlier socket that has
\* ended, unless two starts overlapped.
THEOREM FramesInFlight == PanelSpec => []FramesInFlightBounded
<1>1. VideoFits(video) => FramesInFlightBounded
    BY DEF VideoFits, Orderly, FramesFit, ClosedBefore, FramesInFlightBounded
<1> QED
    BY <1>1, VideoInvariance, PTL
===============================================================================
