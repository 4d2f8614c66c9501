------------------------------ MODULE Sessions ------------------------------
(***************************************************************************)
(* The sessions of one account, on the server and in one browser:          *)
(* RequireAuth, Login, Logout, LogoutAll and issueSession of               *)
(* internal/auth/handlers.go over the session statements of                *)
(* internal/store/store.go, and the frontend's api.js, common.js and the   *)
(* logout buttons of page-settings.js.                                     *)
(*                                                                         *)
(* The tabs of the browser share localStorage and the cookie jar, and each *)
(* runs on its own.  A tab waits for one request at a time; when it is     *)
(* reloaded or its connection breaks, the request it sent may still run on *)
(* the server.  Sessions are numbered in the order they are created, which *)
(* stands for their random tokens; 0 is "no token".                        *)
(***************************************************************************)
EXTENDS Integers, FiniteSets

CONSTANTS
    Tabs,
    Expiring,        \* GOTUNNELS_SESSION_TTL > 0?
    MaxSessions,     \* bound: sessions ever created
    MaxAbandoned     \* bound: requests running with nobody waiting

ASSUME SessionsAssumption ==
    Expiring \in BOOLEAN /\ MaxSessions \in Nat /\ MaxAbandoned \in Nat

VARIABLES
    born,            \* sessions created so far: 1 .. born
    ended,           \* those with revoked_at set or expires_at in the past
    token,           \* localStorage[TOKEN_KEY]
    cookie,          \* the session cookie of the API's origin
    tabs,
    abandoned,       \* requests on the server that no tab waits for
    device           \* the session another device of the user holds

vars == <<born, ended, token, cookie, tabs, abandoned, device>>

-----------------------------------------------------------------------------
SessionOrNone == 0 .. MaxSessions
Ops == {"me", "login", "logout", "logoutAll"}

Tab == [page : {"boot", "loading", "in", "out", "unsure"},
        op : Ops \cup {"none"},
        stage : {"idle", "send", "sent", "authed", "answered"},
        tok : SessionOrNone,       \* the credential sent; of a login, the one received
        status : {"none", "ok", "unauthorized", "error"},
        seen : SessionOrNone,      \* history: sessions there were when a LogoutAll was sent
        notified : BOOLEAN]        \* a storage event waits for this tab

Boot == [page |-> "boot", op |-> "none", stage |-> "idle", tok |-> 0,
         status |-> "none", seen |-> 0, notified |-> FALSE]

TypeOK ==
    /\ born \in SessionOrNone
    /\ ended \subseteq 1 .. born
    /\ {token, cookie, device} \subseteq 0 .. born
    /\ tabs \in [Tabs -> Tab]
    /\ abandoned \subseteq [op : Ops, stage : {"sent", "authed"}, tok : SessionOrNone]

Init ==
    /\ born = 0 /\ ended = {} /\ device = 0
    /\ token = 0 /\ cookie = 0
    /\ tabs = [t \in Tabs |-> Boot]
    /\ abandoned = {}

Live(s) == s \in (1 .. born) \ ended

Waiting(t, op, stage) == tabs[t].op = op /\ tabs[t].stage = stage
Settled(t) == tabs[t].page \in {"in", "out", "unsure"} /\ tabs[t].op = "none"

Answer(t, status) ==
    tabs' = [tabs EXCEPT ![t].stage = "answered", ![t].status = status]

\* A 5xx answer, or none: which credential was sent no longer matters.
Fail(t) ==
    tabs' = [tabs EXCEPT ![t].stage = "answered", ![t].status = "error",
                         ![t].tok = 0, ![t].seen = 0]

-----------------------------------------------------------------------------
(* The browser: loading a page and sending requests.                       *)

\* Tab t stops waiting: its request stays behind on the server, or is lost.
Abandon(t) ==
    IF /\ tabs[t].stage \in {"sent", "authed"} /\ tabs[t].op # "me"
       /\ Cardinality(abandoned) < MaxAbandoned
      THEN abandoned' = abandoned \cup
             {[op |-> tabs[t].op, stage |-> tabs[t].stage, tok |-> tabs[t].tok]}
      ELSE UNCHANGED abandoned

Leave(t) ==
    /\ Abandon(t)
    /\ tabs' = [tabs EXCEPT ![t] = Boot]

\* The user opens or reloads a page.
Load(t) ==
    /\ tabs[t].page # "boot"
    /\ Leave(t)
    /\ UNCHANGED <<born, ended, token, cookie, device>>

\* installSessionSync: another tab removed the token.
OnStorage(t) ==
    /\ tabs[t].notified
    /\ Leave(t)
    /\ UNCHANGED <<born, ended, token, cookie, device>>

\* resolveSession, up to its first await; the listener is installed by then.
Resolve(t) ==
    /\ tabs[t].page = "boot"
    /\ tabs' = [tabs EXCEPT ![t] =
                  IF token = 0
                    THEN [tabs[t] EXCEPT !.page = "out"]
                    ELSE [tabs[t] EXCEPT !.page = "loading", !.op = "me", !.stage = "send"]]
    /\ UNCHANGED <<born, ended, token, cookie, abandoned, device>>

\* The login form works in every state; the logout buttons of the settings page
\* only for a user that requireAuth returned.
Click(t, op) ==
    /\ Settled(t)
    /\ \/ op = "login"
       \/ op \in {"logout", "logoutAll"} /\ tabs[t].page = "in"
    /\ tabs' = [tabs EXCEPT ![t].op = op, ![t].stage = "send"]
    /\ UNCHANGED <<born, ended, token, cookie, abandoned, device>>

\* apiFetch reads the token after awaiting the configuration.  The browser adds
\* the cookie or blocks it; extractToken prefers the Bearer token.
Send(t) ==
    /\ tabs[t].stage = "send"
    /\ \E c \in {0, cookie} :
         tabs' = [tabs EXCEPT ![t].stage = "sent",
                              ![t].seen = IF tabs[t].op = "logoutAll" THEN born ELSE 0,
                              ![t].tok = IF tabs[t].op = "login" THEN 0
                                         ELSE IF token # 0 THEN token ELSE c]
    /\ UNCHANGED <<born, ended, token, cookie, abandoned, device>>

-----------------------------------------------------------------------------
(* The server.                                                             *)

\* Variant: every failed lookup is answered 401.
RequireAuthUnauthorized(t) ==
    /\ tabs[t].stage = "sent" /\ tabs[t].op # "login"
    /\ \/ Live(tabs[t].tok) /\ tabs' = [tabs EXCEPT ![t].stage = "authed"]
       \/ Answer(t, "unauthorized")
    /\ UNCHANGED <<born, ended, token, cookie, abandoned, device>>

\* RequireAuth: no token, or GetSession finds no live session, is a 401; any
\* other failure of GetSession or GetUserByID a 503.  TouchSession decides nothing.
RequireAuth(t) ==
    /\ tabs[t].stage = "sent" /\ tabs[t].op # "login"
    /\ \/ Live(tabs[t].tok) /\ tabs' = [tabs EXCEPT ![t].stage = "authed"]
       \/ ~Live(tabs[t].tok) /\ Answer(t, "unauthorized")
       \/ tabs[t].tok # 0 /\ Fail(t)
    /\ UNCHANGED <<born, ended, token, cookie, abandoned, device>>

\* Variant: a token is handed out although its row was not written.
CreateSessionUnchecked(t) ==
    /\ Waiting(t, "login", "sent")
    /\ tabs' = [tabs EXCEPT ![t].stage = "answered", ![t].status = "ok", ![t].tok = born + 1]
    /\ born' \in {born, born + 1} /\ born' < MaxSessions
    /\ UNCHANGED <<ended, token, cookie, abandoned, device>>

\* Login has verified the credentials: issueSession and CreateSession.
CreateSession(t) ==
    /\ Waiting(t, "login", "sent")
    /\ \/ /\ born < MaxSessions
          /\ born' = born + 1
          /\ tabs' = [tabs EXCEPT ![t].stage = "answered", ![t].status = "ok",
                                  ![t].tok = born + 1]
       \/ Fail(t) /\ UNCHANGED born
    /\ UNCHANGED <<ended, token, cookie, abandoned, device>>

Me(t) ==
    /\ Waiting(t, "me", "authed")
    /\ Answer(t, "ok") \/ Fail(t)
    /\ UNCHANGED <<born, ended, token, cookie, abandoned, device>>

\* Variant: the result of RevokeSession is dropped.
LogoutUnchecked(t) ==
    /\ Waiting(t, "logout", "authed")
    /\ ended' \in {ended, ended \cup {tabs[t].tok}}
    /\ Answer(t, "ok")
    /\ UNCHANGED <<born, token, cookie, abandoned, device>>

\* Logout: RevokeSession, or 500 when it fails.
Logout(t) ==
    /\ Waiting(t, "logout", "authed")
    /\ \/ Answer(t, "ok") /\ ended' = ended \cup {tabs[t].tok}
       \/ Fail(t) /\ UNCHANGED ended
    /\ UNCHANGED <<born, token, cookie, abandoned, device>>

\* LogoutAll: RevokeAllSessionsForUser is one statement.
LogoutAll(t) ==
    /\ Waiting(t, "logoutAll", "authed")
    /\ \/ Answer(t, "ok") /\ ended' = 1 .. born
       \/ Fail(t) /\ UNCHANGED ended
    /\ UNCHANGED <<born, token, cookie, abandoned, device>>

\* The connection of a waiting tab breaks: fetch rejects, without a status.
Disconnect(t) ==
    /\ tabs[t].stage \in {"sent", "authed", "answered"} /\ tabs[t].status # "error"
    /\ Abandon(t)
    /\ Fail(t)
    /\ UNCHANGED <<born, ended, token, cookie, device>>

\* An abandoned request ends: it never arrived, was cancelled, or takes effect.
FinishAbandoned(a) ==
    /\ a \in abandoned
    /\ abandoned' = abandoned \ {a}
    /\ \/ UNCHANGED <<born, ended>>
       \/ /\ a.op = "login" /\ born < MaxSessions
          /\ born' = born + 1 /\ UNCHANGED ended
       \/ /\ a.stage = "authed" \/ Live(a.tok)
          /\ \/ a.op = "logout" /\ ended' = ended \cup {a.tok}
             \/ a.op = "logoutAll" /\ ended' = 1 .. born
          /\ UNCHANGED born
    /\ UNCHANGED <<token, cookie, tabs, device>>

-----------------------------------------------------------------------------
(* The browser: what a tab does with the answer.                           *)

\* Variant: no other tab hears of it.
ForgetTokenQuietly(t, rec) ==
    /\ token' = 0
    /\ tabs' = [tabs EXCEPT ![t] = rec]

\* clearToken: the other tabs get a storage event when there was a token.
ClearToken(t, rec) ==
    /\ token' = 0
    /\ tabs' = [q \in Tabs |-> IF q = t THEN rec
                               ELSE [tabs[q] EXCEPT !.notified = @ \/ token # 0]]

Idle(t, page) ==
    [tabs[t] EXCEPT !.page = page, !.op = "none", !.stage = "idle",
                    !.status = "none", !.tok = 0, !.seen = 0]

\* resolveSession, after the await; a page that requires a user moves to /login.
OnMe(t) ==
    /\ Waiting(t, "me", "answered")
    /\ \/ /\ tabs[t].status = "ok"
          /\ tabs' = [tabs EXCEPT ![t] = Idle(t, "in")] /\ UNCHANGED token
       \/ /\ tabs[t].status = "unauthorized"
          /\ ClearToken(t, Idle(t, "out")) \/ ClearToken(t, Boot)
       \/ /\ tabs[t].status = "error"
          /\ tabs' = [tabs EXCEPT ![t] = Idle(t, "unsure")] /\ UNCHANGED token
    /\ UNCHANGED <<born, ended, cookie, abandoned, device>>

\* The login form: setToken and a redirect, or a message.
OnLogin(t) ==
    /\ Waiting(t, "login", "answered")
    /\ \/ /\ tabs[t].status = "ok"
          /\ token' = tabs[t].tok /\ cookie' = tabs[t].tok
          /\ tabs' = [tabs EXCEPT ![t] = Boot]
       \/ /\ tabs[t].status = "error"
          /\ tabs' = [tabs EXCEPT ![t] = Idle(t, tabs[t].page)]
          /\ UNCHANGED <<token, cookie>>
    /\ UNCHANGED <<born, ended, abandoned, device>>

\* "Log out": whatever the answer, this browser forgets the token.
OnLogout(t) ==
    /\ Waiting(t, "logout", "answered")
    /\ ClearToken(t, Boot)
    /\ cookie' = IF tabs[t].status = "ok" THEN 0 ELSE cookie
    /\ UNCHANGED <<born, ended, abandoned, device>>

\* "Log out everywhere": only a 200 or a 401 signs this browser out.
OnLogoutAll(t) ==
    /\ Waiting(t, "logoutAll", "answered")
    /\ \/ /\ tabs[t].status # "error"
          /\ ClearToken(t, Boot)
          /\ cookie' = IF tabs[t].status = "ok" THEN 0 ELSE cookie
       \/ /\ tabs[t].status = "error"
          /\ tabs' = [tabs EXCEPT ![t] = Idle(t, tabs[t].page)]
          /\ UNCHANGED <<token, cookie>>
    /\ UNCHANGED <<born, ended, abandoned, device>>

-----------------------------------------------------------------------------
(* The rest of the world.                                                  *)

DeviceLogin ==
    /\ ~Live(device) /\ born < MaxSessions
    /\ born' = born + 1 /\ device' = born + 1
    /\ UNCHANGED <<ended, token, cookie, tabs, abandoned>>

DeviceLogoutAll ==
    /\ Live(device)
    /\ ended' = 1 .. born /\ device' = 0
    /\ UNCHANGED <<born, token, cookie, tabs, abandoned>>

\* expires_at passes, when the configuration gives sessions one.
Expire(s) ==
    /\ Expiring /\ Live(s)
    /\ ended' = ended \cup {s}
    /\ UNCHANGED <<born, token, cookie, tabs, abandoned, device>>

Next ==
    \/ \E t \in Tabs :
         \/ Load(t) \/ OnStorage(t) \/ Resolve(t) \/ Send(t)
         \/ \E op \in Ops : Click(t, op)
         \/ RequireAuth(t) \/ CreateSession(t) \/ Me(t) \/ Logout(t) \/ LogoutAll(t)
         \/ Disconnect(t)
         \/ OnMe(t) \/ OnLogin(t) \/ OnLogout(t) \/ OnLogoutAll(t)
    \/ \E a \in abandoned : FinishAbandoned(a)
    \/ DeviceLogin \/ DeviceLogoutAll
    \/ \E s \in 1 .. born : Expire(s)

\* The browser delivers storage events, even while the tab waits for an answer.
Spec == Init /\ [][Next]_vars /\ \A t \in Tabs : WF_vars(OnStorage(t))

-----------------------------------------------------------------------------
(* Properties.                                                             *)

\* A sign-out that the user is told has worked has: the session a Logout came
\* with is over, and after a LogoutAll so is every session that existed when the
\* button sent it, whatever logins and logouts run next to it (Logout, LogoutAll).
SignedOutMeansRevoked ==
    \A t \in Tabs : tabs[t].stage = "answered" /\ tabs[t].status = "ok" =>
        /\ tabs[t].op = "logout" => tabs[t].tok \in ended
        /\ tabs[t].op = "logoutAll" => 1 .. tabs[t].seen \subseteq ended

\* The token is forgotten only on "Log out", or on an answer of the API to /api/me
\* or to "Log out everywhere", be it a retry, by which time the credential that was
\* sent is dead: a failing database or network never signs anyone out
\* (handlers.go:91-94, common.js:67-69, page-settings.js:123-129).
FaultsNeverSignOut ==
    [][token # 0 /\ token' = 0 =>
         \E t \in Tabs :
            /\ tabs[t].stage = "answered"
            /\ \/ tabs[t].op = "logout"
               \/ /\ tabs[t].op \in {"me", "logoutAll"}
                  /\ tabs[t].status # "error" /\ ~Live(tabs[t].tok)]_vars

\* When one tab signs out, every other tab stops showing a signed-in page, unless
\* somebody signs in again (installSessionSync, common.js:16-24).
StaleTabNotices ==
    \A t \in Tabs : (token = 0 /\ tabs[t].page = "in")
                      ~> (token # 0 \/ tabs[t].page # "in")

\* What common.js:58-59 and ARCHITECTURE.md:77 say: a session in use ends for the
\* browser only when the user logs out.
OnlyLogoutForgetsLiveSession ==
    [][Live(token) /\ token' = 0 =>
         \E t \in Tabs : tabs[t].stage = "answered"
                           /\ tabs[t].op \in {"logout", "logoutAll"}]_vars
=============================================================================
