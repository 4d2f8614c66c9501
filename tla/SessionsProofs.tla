--------------------------- MODULE SessionsProofs ---------------------------
(***************************************************************************)
(* Signing out, for any number of tabs, sessions and abandoned requests: a *)
(* sign-out that is confirmed has revoked what it promises, and a fault    *)
(* never makes the browser forget its token.                               *)
(*                                                                         *)
(* Both follow from what an answer on its way to a tab claims (Knows),     *)
(* which stays true since sessions are only added and only end: a token    *)
(* that is dead when RequireAuth rejects it is dead for ever.  That stale  *)
(* tabs are told is a matter of the tabs alone (ToldInv).                  *)
(***************************************************************************)
EXTENDS Sessions, TLAPS

\* What a tab knows, if the sessions are 1 .. b and those of e have ended.
Knows(q, b, e) ==
    /\ q.stage = "idle" <=> q.op = "none"
    /\ q.page = "boot" => q.op = "none"
    /\ q.tok \in 0 .. b /\ q.seen \in 0 .. b
    /\ q.stage = "authed" => q.op # "login" /\ q.tok # 0
    /\ q.status # "none" <=> q.stage = "answered"
    /\ q.status = "unauthorized" => q.op # "login" /\ q.tok \in {0} \cup e
    /\ q.status = "ok" =>
         /\ q.op = "login" => q.tok # 0
         /\ q.op \in {"logout", "logoutAll"} => q.tok \in e
         /\ q.op = "logoutAll" => 1 .. q.seen \subseteq e

AbandonedKnows(a, b) ==
    /\ a.tok \in 0 .. b
    /\ a.stage = "authed" => a.op # "login" /\ a.tok # 0

SessionsInv ==
    /\ TypeOK
    /\ \A t \in Tabs : Knows(tabs[t], born, ended)
    /\ \A a \in abandoned : AbandonedKnows(a, born)

-----------------------------------------------------------------------------
LEMMA KnowsForEver ==
  ASSUME NEW q \in Tab, NEW b \in Nat, NEW b2 \in Nat, b <= b2,
         NEW e, NEW e2, e \subseteq e2, Knows(q, b, e)
  PROVE  Knows(q, b2, e2)
BY DEF Knows, Tab, SessionOrNone

LEMMA BootKnows ==
  ASSUME NEW b \in Nat, NEW e
  PROVE  Boot \in Tab /\ Knows(Boot, b, e)
BY SessionsAssumption DEF Boot, Tab, Knows, SessionOrNone, Ops

\* One tab moves, the others at most hear of it, and sessions are only added and
\* only end.
LEMMA TabMoves ==
  ASSUME NEW t \in Tabs, NEW q \in Tab, SessionsInv,
         born' \in SessionOrNone, born <= born', ended \subseteq ended', ended' \subseteq 1 .. born',
         {token', cookie', device'} \subseteq 0 .. born',
         DOMAIN tabs' = Tabs, tabs' = [s \in Tabs |-> tabs'[s]], tabs'[t] = q,
         \A s \in Tabs \ {t} : \E n \in BOOLEAN : tabs'[s] = [tabs[s] EXCEPT !.notified = n],
         Knows(q, born', ended'),
         abandoned' \subseteq [op : Ops, stage : {"sent", "authed"}, tok : SessionOrNone],
         \A a \in abandoned' : AbandonedKnows(a, born')
  PROVE  SessionsInv'
<1>1. born \in Nat /\ born' \in Nat
  BY SessionsAssumption DEF SessionsInv, TypeOK, SessionOrNone
<1>2. ASSUME NEW s \in Tabs, s # t
      PROVE  tabs'[s] \in Tab /\ Knows(tabs'[s], born', ended')
  <2>1. tabs[s] \in Tab /\ Knows(tabs[s], born, ended)
    BY DEF SessionsInv, TypeOK
  <2>2. PICK n \in BOOLEAN : tabs'[s] = [tabs[s] EXCEPT !.notified = n]
    BY <1>2
  <2>3. tabs'[s] \in Tab /\ Knows(tabs'[s], born, ended)
    BY <2>1, <2>2 DEF Tab, Knows
  <2>4. QED BY <1>1, <2>3, KnowsForEver
<1>3. \A s \in Tabs : tabs'[s] \in Tab /\ Knows(tabs'[s], born', ended')
  BY <1>2
<1>4. tabs' \in [Tabs -> Tab]
  BY <1>3
<1>5. TypeOK'
  BY <1>4 DEF TypeOK
<1>6. QED BY <1>3, <1>5 DEF SessionsInv

\* The frequent case: the tables stay, and so do the other tabs.
LEMMA OneTabMoves ==
  ASSUME NEW t \in Tabs, NEW q \in Tab, SessionsInv,
         tabs' = [tabs EXCEPT ![t] = q], Knows(q, born, ended),
         UNCHANGED <<born, ended, token, cookie, device>>,
         abandoned' \subseteq [op : Ops, stage : {"sent", "authed"}, tok : SessionOrNone],
         \A a \in abandoned' : AbandonedKnows(a, born)
  PROVE  SessionsInv'
<1>1. born \in Nat /\ tabs \in [Tabs -> Tab]
  BY SessionsAssumption DEF SessionsInv, TypeOK, SessionOrNone
<1>2. \A s \in Tabs \ {t} : tabs'[s] = [tabs[s] EXCEPT !.notified = tabs[s].notified]
                            /\ tabs[s].notified \in BOOLEAN
  BY <1>1 DEF Tab
<1>3. /\ DOMAIN tabs' = Tabs /\ tabs' = [s \in Tabs |-> tabs'[s]] /\ tabs'[t] = q
  BY <1>1
<1>4. QED
  BY <1>1, <1>2, <1>3, TabMoves DEF SessionsInv, TypeOK

LEMMA AbandonKeeps ==
  ASSUME NEW t \in Tabs, SessionsInv, Abandon(t)
  PROVE  /\ abandoned' \subseteq [op : Ops, stage : {"sent", "authed"}, tok : SessionOrNone]
         /\ \A a \in abandoned' : AbandonedKnows(a, born)
<1>1. tabs[t] \in Tab /\ Knows(tabs[t], born, ended)
  BY DEF SessionsInv, TypeOK
<1>2. CASE UNCHANGED abandoned
  BY <1>2 DEF SessionsInv, TypeOK
<1>3. CASE /\ tabs[t].stage \in {"sent", "authed"}
           /\ abandoned' = abandoned \cup
                {[op |-> tabs[t].op, stage |-> tabs[t].stage, tok |-> tabs[t].tok]}
  <2>1. tabs[t].op \in Ops
    BY <1>1, <1>3 DEF Knows, Tab
  <2>2. [op |-> tabs[t].op, stage |-> tabs[t].stage, tok |-> tabs[t].tok]
          \in [op : Ops, stage : {"sent", "authed"}, tok : SessionOrNone]
    BY <1>1, <1>3, <2>1 DEF Tab
  <2>3. AbandonedKnows([op |-> tabs[t].op, stage |-> tabs[t].stage, tok |-> tabs[t].tok], born)
    BY <1>1 DEF Knows, AbandonedKnows
  <2>4. QED BY <1>3, <2>2, <2>3 DEF SessionsInv, TypeOK
<1>4. QED BY <1>2, <1>3 DEF Abandon
-----------------------------------------------------------------------------
(* The records a tab moves to.                                             *)

LEMMA TabFacts ==
  ASSUME NEW t \in Tabs, SessionsInv
  PROVE  /\ tabs \in [Tabs -> Tab] /\ tabs[t] \in Tab /\ Knows(tabs[t], born, ended)
         /\ born \in Nat /\ born \in SessionOrNone /\ ended \subseteq 1 .. born
         /\ 0 \in SessionOrNone
BY SessionsAssumption DEF SessionsInv, TypeOK, SessionOrNone

LEMMA FailedTab ==
  ASSUME NEW t \in Tabs, SessionsInv, tabs[t].op # "none",
         NEW b \in Nat, NEW e
  PROVE  LET q == [tabs[t] EXCEPT !.stage = "answered", !.status = "error", !.tok = 0, !.seen = 0]
         IN  q \in Tab /\ Knows(q, b, e)
<1> DEFINE q == [tabs[t] EXCEPT !.stage = "answered", !.status = "error", !.tok = 0, !.seen = 0]
<1>1. q \in Tab
  BY TabFacts DEF Tab
<1>2. /\ q.stage = "answered" /\ q.status = "error" /\ q.tok = 0 /\ q.seen = 0
      /\ q.op = tabs[t].op /\ q.page = tabs[t].page
  BY TabFacts DEF Tab
<1> HIDE DEF q
<1>3. Knows(q, b, e)
  BY <1>2, TabFacts DEF Knows
<1>4. QED BY <1>1, <1>3 DEF q

LEMMA IdleTab ==
  ASSUME NEW t \in Tabs, SessionsInv, NEW page \in {"boot", "loading", "in", "out", "unsure"},
         NEW b \in Nat, NEW e
  PROVE  Idle(t, page) \in Tab /\ Knows(Idle(t, page), b, e)
<1>1. Idle(t, page) \in Tab
  BY TabFacts DEF Tab, Idle
<1>2. /\ Idle(t, page).stage = "idle" /\ Idle(t, page).status = "none"
      /\ Idle(t, page).tok = 0 /\ Idle(t, page).seen = 0 /\ Idle(t, page).op = "none"
  BY TabFacts DEF Tab, Idle
<1>3. QED BY <1>1, <1>2 DEF Knows

-----------------------------------------------------------------------------
(* The steps.                                                              *)

LEMMA FailKeeps ==
  ASSUME NEW t \in Tabs, SessionsInv, tabs[t].op # "none", Fail(t),
         Abandon(t) \/ UNCHANGED abandoned,
         UNCHANGED <<born, ended, token, cookie, device>>
  PROVE  SessionsInv'
<1> DEFINE q == [tabs[t] EXCEPT !.stage = "answered", !.status = "error", !.tok = 0, !.seen = 0]
<1>1. q \in Tab /\ Knows(q, born, ended)
  BY TabFacts, FailedTab
<1>2. tabs' = [tabs EXCEPT ![t] = q]
  BY TabFacts DEF Fail
<1>3. /\ abandoned' \subseteq [op : Ops, stage : {"sent", "authed"}, tok : SessionOrNone]
      /\ \A a \in abandoned' : AbandonedKnows(a, born)
  BY AbandonKeeps DEF SessionsInv, TypeOK
<1> HIDE DEF q
<1>4. QED BY <1>1, <1>2, <1>3, OneTabMoves

LEMMA LeaveKeeps ==
  ASSUME NEW t \in Tabs, SessionsInv, Load(t) \/ OnStorage(t)
  PROVE  SessionsInv'
<1>1. Leave(t) /\ UNCHANGED <<born, ended, token, cookie, device>>
  BY DEF Load, OnStorage
<1>2. Boot \in Tab /\ Knows(Boot, born, ended)
  BY TabFacts, BootKnows
<1>3. QED BY <1>1, <1>2, AbandonKeeps, OneTabMoves DEF Leave

LEMMA AskKeeps ==
  ASSUME NEW t \in Tabs, SessionsInv, Resolve(t) \/ Send(t) \/ \E op \in Ops : Click(t, op)
  PROVE  SessionsInv'
<1>1. /\ tabs \in [Tabs -> Tab] /\ tabs[t] \in Tab /\ Knows(tabs[t], born, ended)
      /\ born \in Nat /\ born \in SessionOrNone /\ 0 \in SessionOrNone
  BY TabFacts
<1>2. UNCHANGED <<born, ended, token, cookie, abandoned, device>>
  BY DEF Resolve, Send, Click
<1>3. ASSUME NEW q \in Tab, tabs' = [tabs EXCEPT ![t] = q], Knows(q, born, ended)
      PROVE  SessionsInv'
  BY <1>2, <1>3, OneTabMoves DEF SessionsInv, TypeOK
<1>4. CASE Resolve(t)
  <2> DEFINE out == [tabs[t] EXCEPT !.page = "out"]
             me  == [tabs[t] EXCEPT !.page = "loading", !.op = "me", !.stage = "send"]
  <2>1. out \in Tab /\ Knows(out, born, ended)
    <3>1. out \in Tab /\ out.op = tabs[t].op /\ out.stage = tabs[t].stage
          /\ out.page = "out" /\ out.status = tabs[t].status /\ out.tok = tabs[t].tok /\ out.seen = tabs[t].seen
      BY <1>1 DEF Tab
    <3> HIDE DEF out
    <3>2. QED BY <1>1, <3>1 DEF Knows
  <2>2. me \in Tab /\ (tabs[t].op = "none" => Knows(me, born, ended))
    <3>1. me \in Tab /\ me.op = "me" /\ me.stage = "send"
          /\ me.page = "loading" /\ me.status = tabs[t].status /\ me.tok = tabs[t].tok /\ me.seen = tabs[t].seen
      BY <1>1 DEF Tab, Ops
    <3> HIDE DEF me
    <3>2. tabs[t].op = "none" => tabs[t].stage = "idle" /\ tabs[t].status = "none"
      BY <1>1 DEF Knows, Tab
    <3>3. QED BY <1>1, <3>1, <3>2 DEF Knows
  <2>3. tabs' = [tabs EXCEPT ![t] = out] \/ tabs' = [tabs EXCEPT ![t] = me]
    BY <1>4 DEF Resolve
  <2>4. tabs[t].op = "none"
    BY <1>1, <1>4 DEF Resolve, Knows
  <2> HIDE DEF out, me
  <2>5. QED BY <1>3, <2>1, <2>2, <2>3, <2>4
<1>5. ASSUME NEW op \in Ops, Click(t, op) PROVE SessionsInv'
  <2> DEFINE q == [tabs[t] EXCEPT !.op = op, !.stage = "send"]
  <2>1. tabs[t].op = "none"
    BY <1>5 DEF Click, Settled
  <2>2. q \in Tab /\ q.op = op /\ q.stage = "send" /\ q.status = tabs[t].status
        /\ q.page = tabs[t].page /\ q.page # "boot" /\ q.tok = tabs[t].tok /\ q.seen = tabs[t].seen
    BY <1>1, <1>5 DEF Tab, Click, Settled
  <2>3. tabs' = [tabs EXCEPT ![t] = q]
    BY <1>1, <1>5 DEF Click
  <2> HIDE DEF q
  <2>4. tabs[t].status = "none" /\ op # "none"
    BY <1>1, <2>1 DEF Knows, Tab, Ops
  <2>5. Knows(q, born, ended)
    BY <1>1, <2>2, <2>4 DEF Knows
  <2>6. QED BY <1>3, <2>2, <2>3, <2>5
<1>6. CASE Send(t)
  <2>1. PICK c \in {0, cookie} :
          tabs' = [tabs EXCEPT ![t].stage = "sent",
                               ![t].seen = IF tabs[t].op = "logoutAll" THEN born ELSE 0,
                               ![t].tok = IF tabs[t].op = "login" THEN 0
                                          ELSE IF token # 0 THEN token ELSE c]
    BY <1>6 DEF Send
  <2> DEFINE seen == IF tabs[t].op = "logoutAll" THEN born ELSE 0
             tok  == IF tabs[t].op = "login" THEN 0 ELSE IF token # 0 THEN token ELSE c
             q    == [tabs[t] EXCEPT !.stage = "sent", !.seen = seen, !.tok = tok]
  <2>2. seen \in 0 .. born /\ tok \in 0 .. born
    BY <1>1 DEF SessionsInv, TypeOK
  <2>3. tabs' = [tabs EXCEPT ![t] = q]
    BY <1>1, <2>1
  <2> HIDE DEF seen, tok
  <2>4. seen \in SessionOrNone /\ tok \in SessionOrNone
    BY <1>1, <2>2, SessionsAssumption DEF SessionOrNone
  <2>5. /\ q \in Tab /\ q.op = tabs[t].op /\ q.stage = "sent" /\ q.page = tabs[t].page
        /\ q.status = tabs[t].status /\ q.tok = tok /\ q.seen = seen
    BY <1>1, <2>4 DEF Tab
  <2> HIDE DEF q
  <2>6. Knows(q, born, ended)
    BY <1>1, <1>6, <2>2, <2>5 DEF Knows, Send
  <2>7. QED BY <1>3, <2>3, <2>5, <2>6
<1>7. QED BY <1>4, <1>5, <1>6

LEMMA AnswerKeeps ==
  ASSUME NEW t \in Tabs, SessionsInv,
         RequireAuth(t) \/ Me(t) \/ Logout(t) \/ LogoutAll(t) \/ CreateSession(t)
  PROVE  SessionsInv'
<1>1. /\ tabs \in [Tabs -> Tab] /\ tabs[t] \in Tab /\ Knows(tabs[t], born, ended)
      /\ born \in Nat /\ born \in SessionOrNone /\ ended \subseteq 1 .. born
  BY TabFacts
<1>2. tabs[t].op # "none"
  BY <1>1 DEF RequireAuth, Me, Logout, LogoutAll, CreateSession, Waiting, Knows
<1>3. UNCHANGED <<token, cookie, abandoned, device>>
  BY DEF RequireAuth, Me, Logout, LogoutAll, CreateSession
<1>4. CASE Fail(t) /\ UNCHANGED <<born, ended>>
  BY <1>2, <1>3, <1>4, FailKeeps
<1>5. ASSUME NEW q \in Tab, tabs' = [tabs EXCEPT ![t] = q], Knows(q, born', ended'),
             born' \in SessionOrNone, born <= born', ended \subseteq ended',
             ended' \subseteq 1 .. born'
      PROVE  SessionsInv'
  <2>1. \A s \in Tabs \ {t} : tabs'[s] = [tabs[s] EXCEPT !.notified = tabs[s].notified]
                              /\ tabs[s].notified \in BOOLEAN
    BY <1>1, <1>5 DEF Tab
  <2>2. DOMAIN tabs' = Tabs /\ tabs' = [s \in Tabs |-> tabs'[s]] /\ tabs'[t] = q
    BY <1>1, <1>5
  <2>3. \A a \in abandoned : AbandonedKnows(a, born')
    BY <1>1, <1>5, SessionsAssumption DEF SessionsInv, AbandonedKnows, SessionOrNone
  <2>4. {token', cookie', device'} \subseteq 0 .. born'
    BY <1>1, <1>3, <1>5, SessionsAssumption DEF SessionsInv, TypeOK, SessionOrNone
  <2>5. /\ abandoned' \subseteq [op : Ops, stage : {"sent", "authed"}, tok : SessionOrNone]
        /\ \A a \in abandoned' : AbandonedKnows(a, born')
    BY <1>3, <2>3 DEF SessionsInv, TypeOK
  <2>6. \A s \in Tabs \ {t} : \E n \in BOOLEAN : tabs'[s] = [tabs[s] EXCEPT !.notified = n]
    BY <2>1
  <2>7. QED BY <1>5, <2>2, <2>4, <2>5, <2>6, TabMoves
<1>6. ASSUME tabs' = [tabs EXCEPT ![t].stage = "authed"], tabs[t].op # "login",
             Live(tabs[t].tok), tabs[t].stage = "sent", UNCHANGED <<born, ended>>
      PROVE  SessionsInv'
  <2> DEFINE q == [tabs[t] EXCEPT !.stage = "authed"]
  <2>1. /\ q \in Tab /\ q.stage = "authed" /\ q.op = tabs[t].op /\ q.page = tabs[t].page
        /\ q.status = tabs[t].status /\ q.tok = tabs[t].tok /\ q.seen = tabs[t].seen
    BY <1>1 DEF Tab
  <2>2. tabs' = [tabs EXCEPT ![t] = q]
    BY <1>6
  <2> HIDE DEF q
  <2>3. Knows(q, born, ended)
    BY <1>1, <1>2, <1>6, <2>1 DEF Knows, Live
  <2>4. /\ Knows(q, born', ended') /\ born' \in SessionOrNone /\ born <= born'
        /\ ended \subseteq ended' /\ ended' \subseteq 1 .. born'
    BY <1>1, <1>6, <2>3
  <2>5. QED BY <1>5, <2>1, <2>2, <2>4
<1>7. ASSUME NEW status \in {"ok", "unauthorized"}, NEW tok \in SessionOrNone,
             tabs' = [tabs EXCEPT ![t].stage = "answered", ![t].status = status, ![t].tok = tok],
             born' \in SessionOrNone, born <= born', ended \subseteq ended',
             ended' \subseteq 1 .. born', tok <= born',
             status = "unauthorized" => tabs[t].op # "login" /\ tok \in {0} \cup ended',
             status = "ok" => /\ tabs[t].op = "login" => tok # 0
                              /\ tabs[t].op \in {"logout", "logoutAll"} => tok \in ended'
                              /\ tabs[t].op = "logoutAll" => ended' = 1 .. born
      PROVE  SessionsInv'
  <2> DEFINE q == [tabs[t] EXCEPT !.stage = "answered", !.status = status, !.tok = tok]
  <2>1. /\ q \in Tab /\ q.op = tabs[t].op /\ q.stage = "answered" /\ q.page = tabs[t].page
        /\ q.status = status /\ q.tok = tok /\ q.seen = tabs[t].seen
    BY <1>1 DEF Tab
  <2>2. tabs' = [tabs EXCEPT ![t] = q]
    BY <1>1, <1>7
  <2> HIDE DEF q
  <2>3. tok \in 0 .. born' /\ q.seen \in 0 .. born' /\ q.seen \in 0 .. born
    BY <1>1, <1>7, <2>1, SessionsAssumption DEF Knows, SessionOrNone
  <2>4. Knows(q, born', ended')
    BY <1>1, <1>2, <1>7, <2>1, <2>3 DEF Knows
  <2>5. QED BY <1>5, <1>7, <2>1, <2>2, <2>4
<1>8. ASSUME NEW status \in {"ok", "unauthorized"}, Answer(t, status)
      PROVE  /\ tabs' = [tabs EXCEPT ![t].stage = "answered", ![t].status = status,
                                     ![t].tok = tabs[t].tok]
             /\ tabs[t].tok \in SessionOrNone /\ tabs[t].tok <= born
  <2>1. tabs[t].tok \in SessionOrNone /\ tabs[t].tok <= born
    BY <1>1 DEF Tab, Knows
  <2>2. [tabs[t] EXCEPT !.stage = "answered", !.status = status]
          = [tabs[t] EXCEPT !.stage = "answered", !.status = status, !.tok = tabs[t].tok]
    BY <1>1 DEF Tab
  <2>3. QED BY <1>1, <1>8, <2>1, <2>2 DEF Answer
<1>9. CASE RequireAuth(t)
  <2>1. CASE ~Live(tabs[t].tok) /\ Answer(t, "unauthorized")
    <3>1. tabs[t].tok \in {0} \cup ended /\ tabs[t].op # "login"
      BY <1>1, <1>9, <2>1 DEF Knows, Live, RequireAuth
    <3>2. UNCHANGED <<born, ended>>
      BY <1>9 DEF RequireAuth
    <3>3. QED BY <1>1, <1>7, <1>8, <2>1, <3>1, <3>2
  <2>2. QED BY <1>2, <1>4, <1>6, <1>9, <2>1 DEF RequireAuth
<1>10. CASE Me(t)
  <2>1. CASE Answer(t, "ok")
    BY <1>1, <1>7, <1>8, <1>10, <2>1 DEF Me, Waiting
  <2>2. QED BY <1>4, <1>10, <2>1 DEF Me
<1>11. CASE Logout(t)
  <2>1. CASE Answer(t, "ok") /\ ended' = ended \cup {tabs[t].tok}
    <3>1. tabs[t].tok \in 1 .. born
      BY <1>1, <1>11 DEF Logout, Waiting, Knows
    <3>2. QED BY <1>1, <1>7, <1>8, <1>11, <2>1, <3>1 DEF Logout, Waiting
  <2>2. QED BY <1>4, <1>11, <2>1 DEF Logout
<1>12. CASE LogoutAll(t)
  <2>1. CASE Answer(t, "ok") /\ ended' = 1 .. born
    <3>1. tabs[t].tok \in 1 .. born
      BY <1>1, <1>12 DEF LogoutAll, Waiting, Knows
    <3>2. QED BY <1>1, <1>7, <1>8, <1>12, <2>1, <3>1 DEF LogoutAll, Waiting
  <2>2. QED BY <1>4, <1>12, <2>1 DEF LogoutAll
<1>13. CASE CreateSession(t)
  <2>1. CASE /\ born < MaxSessions /\ born' = born + 1
             /\ tabs' = [tabs EXCEPT ![t].stage = "answered", ![t].status = "ok",
                                     ![t].tok = born + 1]
    <3>1. born' \in SessionOrNone /\ born <= born' /\ ended \subseteq 1 .. born' /\ born' # 0
      BY <1>1, <2>1, SessionsAssumption DEF SessionOrNone
    <3>2. tabs[t].op = "login" /\ ended' = ended
      BY <1>13 DEF CreateSession, Waiting
    <3>3. born + 1 \in SessionOrNone /\ born + 1 <= born' /\ born + 1 # 0
      BY <1>1, <2>1, <3>1
    <3>4. QED BY <1>7, <2>1, <3>1, <3>2, <3>3
  <2>2. QED BY <1>4, <1>13, <2>1 DEF CreateSession
<1>14. QED BY <1>9, <1>10, <1>11, <1>12, <1>13

LEMMA DisconnectKeeps ==
  ASSUME NEW t \in Tabs, SessionsInv, Disconnect(t)
  PROVE  SessionsInv'
<1>1. tabs[t].op # "none"
  BY TabFacts DEF Disconnect, Knows
<1>2. QED BY <1>1, FailKeeps DEF Disconnect

LEMMA ForgetKeeps ==
  ASSUME NEW t \in Tabs, NEW q \in Tab, SessionsInv, ClearToken(t, q), Knows(q, born, ended),
         cookie' \in {0, cookie}, UNCHANGED <<born, ended, abandoned, device>>
  PROVE  SessionsInv'
<1>1. /\ tabs \in [Tabs -> Tab] /\ born \in Nat /\ born \in SessionOrNone
      /\ ended \subseteq 1 .. born
  BY TabFacts
<1>2. tabs' = [s \in Tabs |-> IF s = t THEN q
                              ELSE [tabs[s] EXCEPT !.notified = tabs[s].notified \/ token # 0]]
  BY DEF ClearToken
<1>3. DOMAIN tabs' = Tabs /\ tabs' = [s \in Tabs |-> tabs'[s]] /\ tabs'[t] = q
  BY <1>2
<1>4. \A s \in Tabs \ {t} : \E n \in BOOLEAN : tabs'[s] = [tabs[s] EXCEPT !.notified = n]
  <2> TAKE s \in Tabs \ {t}
  <2>1. (tabs[s].notified \/ token # 0) \in BOOLEAN
    OBVIOUS
  <2>2. QED BY <1>2, <2>1
<1>5. {token', cookie', device'} \subseteq 0 .. born'
  BY <1>1 DEF SessionsInv, TypeOK, ClearToken
<1>6. /\ abandoned' \subseteq [op : Ops, stage : {"sent", "authed"}, tok : SessionOrNone]
      /\ \A a \in abandoned' : AbandonedKnows(a, born')
  BY DEF SessionsInv, TypeOK
<1>7. /\ Knows(q, born', ended') /\ born' \in SessionOrNone /\ born <= born'
      /\ ended \subseteq ended' /\ ended' \subseteq 1 .. born'
  BY <1>1
<1>8. QED BY <1>3, <1>4, <1>5, <1>6, <1>7, TabMoves

LEMMA HandleKeeps ==
  ASSUME NEW t \in Tabs, SessionsInv,
         OnMe(t) \/ OnLogin(t) \/ OnLogout(t) \/ OnLogoutAll(t)
  PROVE  SessionsInv'
<1>1. /\ tabs \in [Tabs -> Tab] /\ tabs[t] \in Tab /\ Knows(tabs[t], born, ended)
      /\ born \in Nat /\ born \in SessionOrNone /\ ended \subseteq 1 .. born
  BY TabFacts
<1>2. Boot \in Tab /\ Knows(Boot, born, ended)
  BY <1>1, BootKnows
<1>3. \A page \in {"boot", "loading", "in", "out", "unsure"} :
        Idle(t, page) \in Tab /\ Knows(Idle(t, page), born, ended)
  BY <1>1, IdleTab
<1>4. UNCHANGED <<born, ended, abandoned, device>>
  BY DEF OnMe, OnLogin, OnLogout, OnLogoutAll
<1>5. ASSUME NEW q \in Tab, Knows(q, born, ended), tabs' = [tabs EXCEPT ![t] = q],
             {token', cookie'} \subseteq 0 .. born
      PROVE  SessionsInv'
  <2>1. \A s \in Tabs \ {t} : tabs'[s] = [tabs[s] EXCEPT !.notified = tabs[s].notified]
                              /\ tabs[s].notified \in BOOLEAN
    BY <1>1, <1>5 DEF Tab
  <2>2. \A s \in Tabs \ {t} : \E n \in BOOLEAN : tabs'[s] = [tabs[s] EXCEPT !.notified = n]
    BY <2>1
  <2>3. DOMAIN tabs' = Tabs /\ tabs' = [s \in Tabs |-> tabs'[s]] /\ tabs'[t] = q
    BY <1>1, <1>5
  <2>4. /\ abandoned' \subseteq [op : Ops, stage : {"sent", "authed"}, tok : SessionOrNone]
        /\ \A a \in abandoned' : AbandonedKnows(a, born')
    BY <1>4 DEF SessionsInv, TypeOK
  <2>5. /\ Knows(q, born', ended') /\ born' \in SessionOrNone /\ born <= born'
        /\ ended \subseteq ended' /\ ended' \subseteq 1 .. born'
    BY <1>1, <1>4, <1>5
  <2>6. {token', cookie', device'} \subseteq 0 .. born'
    BY <1>4, <1>5 DEF SessionsInv, TypeOK
  <2>7. QED BY <2>2, <2>3, <2>4, <2>5, <2>6, TabMoves
<1>6. CASE OnMe(t)
  <2>1. UNCHANGED cookie /\ {token, cookie} \subseteq 0 .. born
    BY <1>6 DEF OnMe, SessionsInv, TypeOK
  <2>2. ASSUME NEW page \in {"in", "unsure"},
               tabs' = [tabs EXCEPT ![t] = Idle(t, page)], UNCHANGED token
        PROVE  SessionsInv'
    BY <1>3, <1>5, <2>1, <2>2
  <2>3. CASE ClearToken(t, Idle(t, "out")) \/ ClearToken(t, Boot)
    BY <1>2, <1>3, <1>4, <2>1, <2>3, ForgetKeeps
  <2>4. QED BY <1>6, <2>2, <2>3 DEF OnMe
<1>7. CASE OnLogin(t)
  <2>1. CASE token' = tabs[t].tok /\ cookie' = tabs[t].tok /\ tabs' = [tabs EXCEPT ![t] = Boot]
    <3>1. {token', cookie'} \subseteq 0 .. born
      BY <1>1, <2>1 DEF Knows
    <3>2. QED BY <1>2, <1>5, <2>1, <3>1
  <2>2. CASE tabs' = [tabs EXCEPT ![t] = Idle(t, tabs[t].page)] /\ UNCHANGED <<token, cookie>>
    <3>1. {token', cookie'} \subseteq 0 .. born
      BY <2>2 DEF SessionsInv, TypeOK
    <3>2. tabs[t].page \in {"boot", "loading", "in", "out", "unsure"}
      BY <1>1 DEF Tab
    <3>3. QED BY <1>3, <1>5, <2>2, <3>1, <3>2
  <2>3. QED BY <1>7, <2>1, <2>2 DEF OnLogin
<1>8. CASE ClearToken(t, Boot) /\ cookie' \in {0, cookie}
  BY <1>2, <1>4, <1>8, ForgetKeeps
<1>9. CASE OnLogout(t)
  BY <1>8, <1>9 DEF OnLogout
<1>10. CASE OnLogoutAll(t)
  <2>1. CASE tabs' = [tabs EXCEPT ![t] = Idle(t, tabs[t].page)] /\ UNCHANGED <<token, cookie>>
    <3>1. {token', cookie'} \subseteq 0 .. born
      BY <2>1 DEF SessionsInv, TypeOK
    <3>2. tabs[t].page \in {"boot", "loading", "in", "out", "unsure"}
      BY <1>1 DEF Tab
    <3>3. QED BY <1>3, <1>5, <2>1, <3>1, <3>2
  <2>2. QED BY <1>8, <1>10, <2>1 DEF OnLogoutAll
<1>11. QED BY <1>6, <1>7, <1>9, <1>10

\* Sessions begin and end without the tabs.
LEMMA WorldKeeps ==
  ASSUME SessionsInv, UNCHANGED <<tabs, token, cookie>>,
         born' \in SessionOrNone, born <= born', ended \subseteq ended', ended' \subseteq 1 .. born',
         device' \in 0 .. born', abandoned' \subseteq abandoned
  PROVE  SessionsInv'
<1>1. born \in Nat /\ born' \in Nat
  BY SessionsAssumption DEF SessionsInv, TypeOK, SessionOrNone
<1>2. TypeOK'
  BY <1>1 DEF SessionsInv, TypeOK
<1>3. \A t \in Tabs : Knows(tabs[t], born', ended')
  BY <1>1, KnowsForEver DEF SessionsInv, TypeOK
<1>4. \A a \in abandoned' : AbandonedKnows(a, born')
  BY <1>1 DEF SessionsInv, AbandonedKnows
<1>5. QED BY <1>2, <1>3, <1>4 DEF SessionsInv

LEMMA WorldSteps ==
  ASSUME SessionsInv,
         \/ \E a \in abandoned : FinishAbandoned(a)
         \/ DeviceLogin \/ DeviceLogoutAll
         \/ \E s \in 1 .. born : Expire(s)
  PROVE  SessionsInv'
<1>1. /\ born \in Nat /\ born \in SessionOrNone /\ ended \subseteq 1 .. born
      /\ device \in 0 .. born
  BY SessionsAssumption DEF SessionsInv, TypeOK, SessionOrNone
<1>2. born < MaxSessions => /\ born + 1 \in SessionOrNone /\ born <= born + 1
                            /\ ended \subseteq 1 .. born + 1
                            /\ device \in 0 .. born + 1 /\ born + 1 \in 0 .. born + 1
  BY <1>1, SessionsAssumption DEF SessionOrNone
<1>3. ASSUME NEW a \in abandoned, FinishAbandoned(a) PROVE SessionsInv'
  <2>1. UNCHANGED <<tabs, token, cookie, device>> /\ abandoned' \subseteq abandoned
    BY <1>3 DEF FinishAbandoned
  <2>2. CASE UNCHANGED <<born, ended>>
    BY <1>1, <2>1, <2>2, WorldKeeps
  <2>3. CASE born < MaxSessions /\ born' = born + 1 /\ UNCHANGED ended
    BY <1>1, <1>2, <2>1, <2>3, WorldKeeps
  <2>4. CASE /\ a.stage = "authed" \/ Live(a.tok)
             /\ ended' = ended \cup {a.tok} /\ UNCHANGED born
    <3>1. a.tok \in 1 .. born
      BY <1>1, <2>4 DEF SessionsInv, AbandonedKnows, Live
    <3>2. born' = born /\ ended' = ended \cup {a.tok}
      BY <2>4
    <3>3. ended \cup {a.tok} \subseteq 1 .. born
      BY <1>1, <3>1
    <3>4. ended' \subseteq 1 .. born' /\ ended \subseteq ended'
      BY <3>2, <3>3
    <3>5. QED BY <1>1, <2>1, <3>2, <3>4, WorldKeeps
  <2>5. CASE ended' = 1 .. born /\ UNCHANGED born
    BY <1>1, <2>1, <2>5, WorldKeeps
  <2>6. QED BY <1>3, <2>2, <2>3, <2>4, <2>5 DEF FinishAbandoned
<1>4. CASE DeviceLogin
  BY <1>1, <1>2, <1>4, WorldKeeps DEF DeviceLogin
<1>5. CASE DeviceLogoutAll
  BY <1>1, <1>5, WorldKeeps DEF DeviceLogoutAll
<1>6. ASSUME NEW s \in 1 .. born, Expire(s) PROVE SessionsInv'
  BY <1>1, <1>6, WorldKeeps DEF Expire
<1>7. QED BY <1>3, <1>4, <1>5, <1>6

-----------------------------------------------------------------------------
LEMMA SessionsInvInit == Init => SessionsInv
BY BootKnows, SessionsAssumption DEF Init, SessionsInv, TypeOK, SessionOrNone

LEMMA SessionsInvStep == SessionsInv /\ [Next]_vars => SessionsInv'
<1> SUFFICES ASSUME SessionsInv, [Next]_vars PROVE SessionsInv'
  OBVIOUS
<1>1. CASE UNCHANGED vars
  BY <1>1 DEF vars, SessionsInv, TypeOK
<1>2. ASSUME NEW t \in Tabs, Load(t) \/ OnStorage(t) PROVE SessionsInv'
  BY <1>2, LeaveKeeps
<1>3. ASSUME NEW t \in Tabs, Resolve(t) \/ Send(t) \/ \E op \in Ops : Click(t, op)
      PROVE  SessionsInv'
  BY <1>3, AskKeeps
<1>4. ASSUME NEW t \in Tabs,
             RequireAuth(t) \/ Me(t) \/ Logout(t) \/ LogoutAll(t) \/ CreateSession(t)
      PROVE  SessionsInv'
  BY <1>4, AnswerKeeps
<1>5. ASSUME NEW t \in Tabs, Disconnect(t) PROVE SessionsInv'
  BY <1>5, DisconnectKeeps
<1>6. ASSUME NEW t \in Tabs, OnMe(t) \/ OnLogin(t) \/ OnLogout(t) \/ OnLogoutAll(t)
      PROVE  SessionsInv'
  BY <1>6, HandleKeeps
<1>7. CASE \/ \E a \in abandoned : FinishAbandoned(a)
           \/ DeviceLogin \/ DeviceLogoutAll
           \/ \E s \in 1 .. born : Expire(s)
  BY <1>7, WorldSteps
<1>8. QED BY <1>1, <1>2, <1>3, <1>4, <1>5, <1>6, <1>7 DEF Next

LEMMA SessionsInvAlways == Spec => []SessionsInv
BY SessionsInvInit, SessionsInvStep, PTL DEF Spec

-----------------------------------------------------------------------------
\* Every variable keeps its type for any number of tabs and requests: no token,
\* cookie or revocation is of a session that was never created.
THEOREM SessionsTypeCorrect == Spec => []TypeOK
<1>1. SessionsInv => TypeOK
  BY DEF SessionsInv
<1>2. QED BY SessionsInvAlways, <1>1, PTL

\* A confirmed Logout or LogoutAll has revoked the session it came with, or all
\* there were when it was sent, whatever logins, logouts and lost answers run next
\* to it (Logout, LogoutAll).
THEOREM ConfirmedSignOutRevokes == Spec => []SignedOutMeansRevoked
<1>1. SessionsInv => SignedOutMeansRevoked
  BY DEF SessionsInv, Knows, SignedOutMeansRevoked
<1>2. QED BY SessionsInvAlways, <1>1, PTL

\* A failure of the server or the network never makes the browser forget its token
\* (RequireAuth's 503, resolveSession, "Log out everywhere"; the plain "Log out"
\* forgets it whatever the answer is).
THEOREM FaultsKeepTheToken == Spec => FaultsNeverSignOut
<1> DEFINE Asked == token # 0 /\ token' = 0 =>
         \E t \in Tabs :
            /\ tabs[t].stage = "answered"
            /\ \/ tabs[t].op = "logout"
               \/ /\ tabs[t].op \in {"me", "logoutAll"}
                  /\ tabs[t].status # "error" /\ ~Live(tabs[t].tok)
<1>1. SessionsInv /\ [Next]_vars => [Asked]_vars
  <2> SUFFICES ASSUME SessionsInv, Next, token # 0, token' = 0
               PROVE  \E t \in Tabs :
                        /\ tabs[t].stage = "answered"
                        /\ \/ tabs[t].op = "logout"
                           \/ /\ tabs[t].op \in {"me", "logoutAll"}
                              /\ tabs[t].status # "error" /\ ~Live(tabs[t].tok)
    OBVIOUS
  <2>1. token' # token
    OBVIOUS
  <2>2. PICK t \in Tabs : OnMe(t) \/ OnLogin(t) \/ OnLogout(t) \/ OnLogoutAll(t)
    BY <2>1 DEF Next, Load, OnStorage, Resolve, Send, Click, RequireAuth, CreateSession, Me,
                Logout, LogoutAll, Disconnect, FinishAbandoned, DeviceLogin, DeviceLogoutAll,
                Expire
  <2>3. tabs[t] \in Tab /\ Knows(tabs[t], born, ended) /\ ended \subseteq 1 .. born
    BY DEF SessionsInv, TypeOK
  <2>4. CASE OnMe(t)
    <3>1. tabs[t].status = "unauthorized" /\ tabs[t].op = "me" /\ tabs[t].stage = "answered"
      BY <2>1, <2>4 DEF OnMe, Waiting
    <3>2. ~Live(tabs[t].tok)
      BY <2>3, <3>1 DEF Knows, Live
    <3>3. QED BY <3>1, <3>2
  <2>5. CASE OnLogin(t)
    BY <2>1, <2>3, <2>5 DEF OnLogin, Waiting, Knows
  <2>6. CASE OnLogout(t)
    BY <2>6 DEF OnLogout, Waiting
  <2>7. CASE OnLogoutAll(t)
    <3>1. tabs[t].op = "logoutAll" /\ tabs[t].stage = "answered" /\ tabs[t].status # "error"
      BY <2>1, <2>7 DEF OnLogoutAll, Waiting
    <3>2. tabs[t].status \in {"ok", "unauthorized"}
      BY <2>3, <3>1 DEF Knows, Tab
    <3>3. ~Live(tabs[t].tok)
      BY <2>3, <3>1, <3>2 DEF Knows, Live
    <3>4. QED BY <3>1, <3>3
  <2>8. QED BY <2>2, <2>4, <2>5, <2>6, <2>7
<1>2. QED BY SessionsInvAlways, <1>1, PTL DEF Spec, FaultsNeverSignOut

-----------------------------------------------------------------------------
(* The safety half of StaleTabNotices: a tab that shows a signed-in page,  *)
(* or may soon, although the token is gone, has a storage event to come.   *)

StaleTabsTold ==
    \A t \in Tabs : token = 0 /\ tabs[t].page \in {"loading", "in"} => tabs[t].notified

\* Only a page that is loading asks who is signed in.
ToldInv ==
    /\ StaleTabsTold
    /\ \A t \in Tabs : tabs[t].op = "me" => tabs[t].page = "loading"

LEMMA ForgetTells ==
  ASSUME NEW t \in Tabs, NEW q, SessionsInv, ToldInv, ClearToken(t, q),
         q.page \notin {"loading", "in"}, q.op = "none"
  PROVE  ToldInv'
<1>1. tabs' = [s \in Tabs |-> IF s = t THEN q
                              ELSE [tabs[s] EXCEPT !.notified = tabs[s].notified \/ token # 0]]
  BY DEF ClearToken
<1>2. ASSUME NEW s \in Tabs \ {t}
      PROVE  /\ tabs'[s].page \in {"loading", "in"} => tabs'[s].notified
             /\ tabs'[s].op = "me" => tabs'[s].page = "loading"
  <2>1. tabs[s] \in Tab
    BY DEF SessionsInv, TypeOK
  <2>2. /\ tabs'[s].page = tabs[s].page /\ tabs'[s].op = tabs[s].op
        /\ tabs'[s].notified = (tabs[s].notified \/ token # 0)
    BY <1>1, <2>1 DEF Tab
  <2>3. CASE token # 0
    BY <2>2, <2>3 DEF ToldInv
  <2>4. CASE token = 0
    BY <1>2, <2>2, <2>4 DEF ToldInv, StaleTabsTold
  <2>5. QED BY <2>3, <2>4
<1>3. tabs'[t].page \notin {"loading", "in"} /\ tabs'[t].op = "none"
  BY <1>1
<1>4. QED BY <1>2, <1>3 DEF ToldInv, StaleTabsTold

\* One tab gets another record, which is signed in only if there is a token or the
\* tab had been told.
LEMMA OtherTabsTold ==
  ASSUME NEW t \in Tabs, NEW q, SessionsInv, ToldInv, tabs' = [tabs EXCEPT ![t] = q],
         token' = token \/ token' # 0,
         q.op = "me" => q.page = "loading",
         \/ token' # 0 \/ q.page \notin {"loading", "in"}
         \/ tabs[t].page \in {"loading", "in"} /\ q.notified = tabs[t].notified
  PROVE  ToldInv'
<1>1. tabs \in [Tabs -> Tab]
  BY DEF SessionsInv, TypeOK
<1>2. tabs'[t] = q /\ \A s \in Tabs \ {t} : tabs'[s] = tabs[s]
  BY <1>1
<1>3. QED BY <1>2 DEF ToldInv, StaleTabsTold

\* The steps that leave every tab on its page, and the token alone.
LEMMA PagesStay ==
  ASSUME NEW t \in Tabs, SessionsInv,
         \/ Send(t) \/ \E op \in Ops \ {"me"} : Click(t, op)
         \/ RequireAuth(t) \/ CreateSession(t) \/ Me(t) \/ Logout(t) \/ LogoutAll(t)
         \/ Disconnect(t)
  PROVE  /\ token' = token
         /\ \A s \in Tabs : /\ tabs'[s].page = tabs[s].page
                            /\ tabs[s].notified => tabs'[s].notified
                            /\ tabs'[s].op = "me" => tabs[s].op = "me"
<1>0. tabs \in [Tabs -> Tab]
  BY DEF SessionsInv, TypeOK
<1>1. token' = token
  BY DEF Send, Click, RequireAuth, CreateSession, Me, Logout, LogoutAll, Disconnect
<1>2. ASSUME NEW s \in Tabs
      PROVE  /\ tabs'[s].page = tabs[s].page
             /\ tabs[s].notified => tabs'[s].notified
             /\ tabs'[s].op = "me" => tabs[s].op = "me"
  <2>1. tabs[s] \in Tab /\ tabs[t] \in Tab
    BY <1>0
  <2>2. CASE Send(t)
    BY <1>0, <2>1, <2>2 DEF Send, Tab
  <2>3. CASE \E op \in Ops \ {"me"} : Click(t, op)
    <3>1. PICK op \in Ops \ {"me"} : Click(t, op)
      BY <2>3
    <3> DEFINE q == [tabs[t] EXCEPT !.op = op, !.stage = "send"]
    <3>2. q.page = tabs[t].page /\ q.notified = tabs[t].notified /\ q.op = op
      BY <2>1 DEF Tab
    <3>3. tabs' = [tabs EXCEPT ![t] = q]
      BY <1>0, <3>1 DEF Click
    <3> HIDE DEF q
    <3>4. tabs'[t] = q /\ (s # t => tabs'[s] = tabs[s])
      BY <1>0, <3>3
    <3>5. QED BY <3>1, <3>2, <3>4
  <2>4. CASE RequireAuth(t) \/ CreateSession(t) \/ Me(t)
    BY <1>0, <2>1, <2>4 DEF RequireAuth, CreateSession, Me, Answer, Fail, Tab
  <2>5. CASE Logout(t) \/ LogoutAll(t) \/ Disconnect(t)
    BY <1>0, <2>1, <2>5 DEF Logout, LogoutAll, Disconnect, Answer, Fail, Tab
  <2>6. QED BY <2>2, <2>3, <2>4, <2>5
<1>3. QED BY <1>1, <1>2

LEMMA HandlerTells ==
  ASSUME NEW t \in Tabs, SessionsInv, ToldInv,
         OnMe(t) \/ OnLogin(t) \/ OnLogout(t) \/ OnLogoutAll(t)
  PROVE  ToldInv'
<1>0. tabs[t] \in Tab /\ Knows(tabs[t], born, ended) /\ Boot.page = "boot" /\ Boot.op = "none"
  BY DEF SessionsInv, TypeOK, Boot
<1>1. ASSUME NEW page
      PROVE  /\ Idle(t, page).page = page /\ Idle(t, page).op = "none"
             /\ Idle(t, page).notified = tabs[t].notified
  BY <1>0 DEF Idle, Tab
<1>2. CASE ClearToken(t, Boot) \/ ClearToken(t, Idle(t, "out"))
  BY <1>0, <1>1, <1>2, ForgetTells
<1>3. CASE tabs' = [tabs EXCEPT ![t] = Idle(t, tabs[t].page)] /\ UNCHANGED token
  BY <1>1, <1>3, OtherTabsTold
<1>4. CASE OnMe(t)
  <2>1. tabs[t].page = "loading"
    BY <1>4 DEF OnMe, Waiting, ToldInv
  <2>2. CASE tabs' = [tabs EXCEPT ![t] = Idle(t, "in")] /\ UNCHANGED token
    BY <1>1, <2>1, <2>2, OtherTabsTold
  <2>3. CASE tabs' = [tabs EXCEPT ![t] = Idle(t, "unsure")] /\ UNCHANGED token
    BY <1>1, <2>3, OtherTabsTold
  <2>4. QED BY <1>2, <1>4, <2>2, <2>3 DEF OnMe
<1>5. CASE OnLogin(t)
  <2>1. CASE /\ tabs[t].status = "ok" /\ token' = tabs[t].tok
             /\ tabs' = [tabs EXCEPT ![t] = Boot]
    <3>1. token' # 0
      BY <1>0, <1>5, <2>1 DEF OnLogin, Waiting, Knows
    <3>2. QED BY <1>0, <2>1, <3>1, OtherTabsTold
  <2>2. QED BY <1>3, <1>5, <2>1 DEF OnLogin
<1>6. CASE OnLogout(t) \/ OnLogoutAll(t)
  BY <1>2, <1>3, <1>6 DEF OnLogout, OnLogoutAll
<1>7. QED BY <1>4, <1>5, <1>6

LEMMA ToldStep == SessionsInv /\ ToldInv /\ [Next]_vars => ToldInv'
<1> SUFFICES ASSUME SessionsInv, ToldInv, [Next]_vars PROVE ToldInv'
  OBVIOUS
<1>0. tabs \in [Tabs -> Tab] /\ Boot.page = "boot" /\ Boot.op = "none"
  BY DEF SessionsInv, TypeOK, Boot
<1>1. CASE UNCHANGED <<tabs, token>>
  BY <1>1 DEF ToldInv, StaleTabsTold
<1>2. ASSUME NEW t \in Tabs, Load(t) \/ OnStorage(t) PROVE ToldInv'
  <2>1. tabs' = [tabs EXCEPT ![t] = Boot] /\ token' = token
    BY <1>2 DEF Load, OnStorage, Leave
  <2>2. QED BY <1>0, <2>1, OtherTabsTold
<1>3. ASSUME NEW t \in Tabs, Resolve(t) PROVE ToldInv'
  <2> DEFINE out == [tabs[t] EXCEPT !.page = "out"]
             me  == [tabs[t] EXCEPT !.page = "loading", !.op = "me", !.stage = "send"]
  <2>1. tabs[t] \in Tab /\ token' = token /\ tabs[t].page = "boot"
    BY <1>0, <1>3 DEF Resolve
  <2>2. out.page = "out" /\ out.op = tabs[t].op /\ me.page = "loading"
    BY <2>1 DEF Tab
  <2>3. tabs' = [tabs EXCEPT ![t] = IF token = 0 THEN out ELSE me]
    BY <1>3 DEF Resolve
  <2>4. tabs[t].op # "me"
    BY <2>1 DEF ToldInv
  <2> HIDE DEF out, me
  <2>5. QED BY <2>1, <2>2, <2>3, <2>4, OtherTabsTold
<1>4. ASSUME NEW t \in Tabs,
             \/ Send(t) \/ \E op \in Ops : Click(t, op)
             \/ RequireAuth(t) \/ CreateSession(t) \/ Me(t) \/ Logout(t) \/ LogoutAll(t)
             \/ Disconnect(t)
      PROVE  ToldInv'
  <2>1. ASSUME NEW op \in Ops, Click(t, op) PROVE op \in Ops \ {"me"}
    BY <2>1 DEF Click
  <2>2. /\ token' = token
        /\ \A s \in Tabs : /\ tabs'[s].page = tabs[s].page
                           /\ tabs[s].notified => tabs'[s].notified
                           /\ tabs'[s].op = "me" => tabs[s].op = "me"
    BY <1>4, <2>1, PagesStay
  <2>3. ASSUME NEW s \in Tabs
        PROVE  /\ token' = 0 /\ tabs'[s].page \in {"loading", "in"} => tabs'[s].notified
               /\ tabs'[s].op = "me" => tabs'[s].page = "loading"
    <3>1. token = 0 /\ tabs[s].page \in {"loading", "in"} => tabs[s].notified
      BY DEF ToldInv, StaleTabsTold
    <3>2. tabs[s].op = "me" => tabs[s].page = "loading"
      BY DEF ToldInv
    <3>3. tabs[s].notified => tabs'[s].notified
      BY <2>2
    <3>4. QED BY <2>2, <3>1, <3>2, <3>3
  <2>4. QED BY <2>3 DEF ToldInv, StaleTabsTold
<1>5. ASSUME NEW t \in Tabs, OnMe(t) \/ OnLogin(t) \/ OnLogout(t) \/ OnLogoutAll(t)
      PROVE  ToldInv'
  BY <1>5, HandlerTells
<1>6. QED
  BY <1>1, <1>2, <1>3, <1>4, <1>5
  DEF Next, vars, FinishAbandoned, DeviceLogin, DeviceLogoutAll, Expire

\* In any number of tabs, one that shows a signed-in page after the token is gone
\* has a storage event waiting, whatever it was doing when the token went
\* (clearToken, installSessionSync): only its delivery is left to the browser.
THEOREM StaleTabsAreTold == Spec => []StaleTabsTold
<1>1. Init => ToldInv
  BY DEF Init, ToldInv, StaleTabsTold, Boot
<1>2. ToldInv => StaleTabsTold
  BY DEF ToldInv
<1>3. QED BY <1>1, <1>2, SessionsInvAlways, ToldStep, PTL DEF Spec
=============================================================================
