------------------------- MODULE SecondFactorProofs -------------------------
(* Theorems about SecondFactor, for every number of requests, enrollments  *)
(* and recovery codes.                                                     *)
EXTENDS SecondFactor, TLAPS

LEMMA IdleType == Idle \in Request
<1>1. NoCode \in Code
  BY DEF NoCode, Code, SecretOrNone
<1>2. QED BY <1>1 DEF Idle, Request, SecretOrNone

LEMMA TypeInit == Init => TypeOK
BY IdleType DEF Init, TypeOK, Row, NoRow, NoStep, SecretOrNone

LEMMA KnownCodesType == TypeOK => KnownCodes \subseteq Code
<1> SUFFICES ASSUME TypeOK, NEW c \in KnownCodes PROVE c \in Code
  OBVIOUS
<1> DEFINE shown == {s \in minted : ~Unstored(s)}
<1>1. shown \subseteq SecretOrNone
  BY DEF TypeOK, SecretOrNone
<1>2. CASE c = NoCode
  BY <1>2 DEF NoCode, Code, SecretOrNone
<1>3. CASE c \in [kind : {"totp"}, secret : shown, n : CodeSteps]
  BY <1>1, <1>3, SecondFactorAssumption DEF Code
<1>4. CASE c \in [kind : {"recovery"}, secret : shown, n : 1 .. NumRecovery]
  BY <1>1, <1>4, SecondFactorAssumption DEF Code
<1>5. QED BY <1>2, <1>3, <1>4 DEF KnownCodes

LEMMA ArriveEffect ==
    ASSUME TypeOK, NEW r \in Reqs, NEW c \in Code, NEW s \in SecretOrNone,
           NEW op \in {"login", "enroll", "confirm", "disable"},
           NEW pc \in {"store", "pending", "enabled"},
           Arrive(r, op, pc, c, s)
    PROVE  /\ req' \in [Reqs -> Request]
           /\ \A q \in Reqs : q # r => req'[q] = req[q]
           /\ req'[r].op = op /\ req'[r].pc = pc
           /\ req'[r].code = c /\ req'[r].secret = s
           /\ op = "login" /\ ~row.confirmed => req'[r].off
           /\ UNCHANGED <<row, codes, now, used>>
<1> DEFINE off == op = "login" /\ ~row.confirmed
           new == [op |-> op, pc |-> pc, code |-> c, secret |-> s, passed |-> FALSE,
                   off |-> off]
<1>1. new \in Request
  BY DEF Request
<1>2. req' = [req EXCEPT ![r] = new]
  BY DEF Arrive
<1>3. new.op = op /\ new.pc = pc /\ new.code = c /\ new.secret = s /\ (off => new.off)
  OBVIOUS
<1> HIDE DEF new
<1>4. req'[r] = new /\ \A q \in Reqs : q # r => req'[q] = req[q]
  BY <1>2 DEF TypeOK
<1>5. UNCHANGED <<row, codes, now, used>>
  BY DEF Arrive
<1>6. QED BY <1>1, <1>2, <1>3, <1>4, <1>5 DEF TypeOK

LEMMA ArriveType ==
    ASSUME TypeOK, NEW r \in Reqs, NEW c \in Code, NEW s \in SecretOrNone,
           NEW op \in {"login", "enroll", "confirm", "disable"},
           NEW pc \in {"store", "pending", "enabled"},
           Arrive(r, op, pc, c, s), minted' \subseteq Secrets
    PROVE  TypeOK'
BY ArriveEffect DEF TypeOK

(***************************************************************************)
(* The ways a step changes one request, field by field.                    *)
(***************************************************************************)
Others(r) == \A q \in Reqs : q # r => req'[q] = req[q]

LEMMA FinishEffect ==
    ASSUME req \in [Reqs -> Request], NEW r \in Reqs, Finish(r)
    PROVE  req' \in [Reqs -> Request] /\ req'[r] = Idle /\ Others(r)
BY IdleType DEF Finish, Others

LEMMA GotoEffect ==
    ASSUME req \in [Reqs -> Request], NEW r \in Reqs,
           NEW pc \in {"load", "delete"}, Goto(r, pc)
    PROVE  /\ req' \in [Reqs -> Request] /\ Others(r)
           /\ req'[r].pc = pc
           /\ req'[r].op = req[r].op /\ req'[r].code = req[r].code
           /\ req'[r].secret = req[r].secret /\ req'[r].off = req[r].off
           /\ req'[r].passed = req[r].passed
BY DEF Goto, Request, Others

LEMMA ComparedEffect ==
    ASSUME req \in [Reqs -> Request], NEW r \in Reqs,
           NEW pc \in {"spend", "recover"}, Compared(r, pc)
    PROVE  /\ req' \in [Reqs -> Request] /\ Others(r)
           /\ req'[r].pc = pc
           /\ req'[r].op = req[r].op /\ req'[r].code = req[r].code
           /\ req'[r].off = req[r].off /\ req'[r].passed = req[r].passed
<1>1. [req[r] EXCEPT !.pc = pc, !.secret = NoSecret] \in Request
  BY DEF Request, SecretOrNone
<1>2. QED BY <1>1 DEF Compared, Others, Request

LEMMA ToIssueEffect ==
    ASSUME req \in [Reqs -> Request], NEW r \in Reqs,
           NEW passed \in BOOLEAN, ToIssue(r, passed)
    PROVE  /\ req' \in [Reqs -> Request] /\ Others(r)
           /\ req'[r].pc = "issue" /\ req'[r].passed = passed
           /\ req'[r].op = req[r].op /\ req'[r].off = req[r].off
<1>1. NoCode \in Code
  BY DEF NoCode, Code, SecretOrNone
<1>2. [req[r] EXCEPT !.pc = "issue", !.passed = passed, !.code = NoCode] \in Request
  BY <1>1 DEF Request
<1>3. QED BY <1>2 DEF ToIssue, Others, Request

LEMMA LoadedEffect ==
    ASSUME req \in [Reqs -> Request], NEW r \in Reqs, row \in Row,
           req' = [req EXCEPT ![r].secret = row.secret, ![r].pc = "match"]
    PROVE  /\ req' \in [Reqs -> Request] /\ Others(r)
           /\ req'[r].pc = "match" /\ req'[r].secret = row.secret
           /\ req'[r].op = req[r].op /\ req'[r].code = req[r].code
           /\ req'[r].off = req[r].off /\ req'[r].passed = req[r].passed
<1>1. row.secret \in SecretOrNone
  BY DEF Row
<1>2. [req[r] EXCEPT !.secret = row.secret, !.pc = "match"] \in Request
  BY <1>1 DEF Request
<1>3. QED BY <1>2 DEF Others, Request

LEMMA DeleteCodesEffect ==
    ASSUME req \in [Reqs -> Request], NEW r \in Reqs, DeleteTOTPCodes(r)
    PROVE  /\ req' \in [Reqs -> Request] /\ Others(r)
           /\ req[r].pc = "delete" /\ req'[r].pc = "deleteRow"
           /\ req'[r].op = req[r].op /\ req'[r].code = req[r].code
           /\ req'[r].off = req[r].off /\ req'[r].passed = req[r].passed
           /\ UNCHANGED <<row, codes, now, minted, used>>
<1>1. PICK s \in SecretOrNone :
        req' = [req EXCEPT ![r].pc = "deleteRow", ![r].secret = s]
  BY DEF DeleteTOTPCodes
<1>2. [req[r] EXCEPT !.pc = "deleteRow", !.secret = s] \in Request
  BY DEF Request
<1>3. req[r].pc = "delete" /\ UNCHANGED <<row, codes, now, minted, used>>
  BY DEF DeleteTOTPCodes
<1>4. QED BY <1>1, <1>2, <1>3 DEF Others, Request

LEMMA EnabledEffect ==
    ASSUME TypeOK, NEW r \in Reqs, TotpEnabled(r)
    PROVE  /\ req' \in [Reqs -> Request] /\ Others(r)
           /\ \/ req'[r] = Idle
              \/ /\ row.confirmed /\ req'[r].pc = "load" /\ req'[r].op = req[r].op
                 /\ req'[r].code = req[r].code
              \/ /\ ~row.confirmed /\ req'[r].pc = "issue" /\ req'[r].op = req[r].op
                 /\ req[r].op = "login" /\ req'[r].off = req[r].off
           /\ req[r].pc = "enabled"
           /\ UNCHANGED <<row, codes, now, minted, used>>
<1>0. req \in [Reqs -> Request]
  BY DEF TypeOK
<1>a. req[r].pc = "enabled" /\ UNCHANGED <<row, codes, now, minted, used>>
  BY DEF TotpEnabled
<1>1. CASE row.confirmed /\ Goto(r, "load")
  BY <1>0, <1>a, <1>1, GotoEffect
<1>2. CASE ~row.confirmed /\ req[r].op = "login" /\ ToIssue(r, FALSE)
  BY <1>0, <1>a, <1>2, ToIssueEffect
<1>3. CASE ~row.confirmed /\ req[r].op = "disable" /\ Finish(r)
  BY <1>0, <1>a, <1>3, FinishEffect
<1>4. QED BY <1>1, <1>2, <1>3 DEF TotpEnabled

LEMMA PassedEffect ==
    ASSUME TypeOK, NEW r \in Reqs, Passed(r)
    PROVE  /\ req' \in [Reqs -> Request] /\ Others(r)
           /\ used' \subseteq [code : Code, row : SecretOrNone]
           /\ used' = used \cup {[code |-> req[r].code, row |-> row.secret]}
           /\ \/ /\ req[r].op = "login" /\ req'[r].op = "login"
                 /\ req'[r].pc = "issue" /\ req'[r].passed = TRUE
                 /\ req'[r].off = req[r].off
              \/ /\ req[r].op # "login" /\ req'[r].op = req[r].op
                 /\ req'[r].pc = "delete" /\ req'[r].code = req[r].code
<1>0. req \in [Reqs -> Request]
  BY DEF TypeOK
<1>1. used' = used \cup {[code |-> req[r].code, row |-> row.secret]}
  BY DEF Passed
<1>2. used' \subseteq [code : Code, row : SecretOrNone]
  BY <1>1 DEF TypeOK, Request, Row
<1>3. CASE req[r].op = "login"
  <2>1. ToIssue(r, TRUE)
    BY <1>3 DEF Passed
  <2>2. req'[r].pc = "issue" /\ req'[r].passed = TRUE /\ req'[r].op = req[r].op
        /\ req'[r].off = req[r].off /\ Others(r) /\ req' \in [Reqs -> Request]
    BY <1>0, <2>1, ToIssueEffect
  <2>3. QED BY <1>1, <1>2, <1>3, <2>2
<1>4. CASE req[r].op # "login"
  <2>1. Goto(r, "delete")
    BY <1>4 DEF Passed
  <2>2. QED BY <1>0, <1>1, <1>2, <1>4, <2>1, GotoEffect
<1>5. QED BY <1>3, <1>4

LEMMA DeleteEffect ==
    ASSUME req \in [Reqs -> Request], NEW r \in Reqs, DeleteTOTP(r), NEW q \in Reqs
    PROVE  /\ req'[q] \in Request
           /\ \/ req'[q] = Idle
              \/ /\ req[q] # Idle /\ q # r
                 /\ req'[q].pc = req[q].pc /\ req'[q].op = req[q].op
                 /\ req'[q].code = req[q].code /\ req'[q].secret = req[q].secret
                 /\ req'[q].passed = req[q].passed
                 /\ req[q].off \/ req[q].op = "login" => req'[q].off
           /\ row' = NoRow /\ codes' \subseteq codes /\ UNCHANGED <<now, minted, used>>
<1>1. [req[q] EXCEPT !.off = @ \/ req[q].op = "login"] \in Request
  BY DEF Request
<1> DEFINE kept == [req[q] EXCEPT !.off = @ \/ req[q].op = "login"]
<1>2. req'[q] = IF q = r \/ req[q] = Idle THEN Idle ELSE kept
  BY DEF DeleteTOTP
<1>3. /\ kept.pc = req[q].pc /\ kept.op = req[q].op /\ kept.code = req[q].code
      /\ kept.secret = req[q].secret /\ kept.passed = req[q].passed
      /\ req[q].off \/ req[q].op = "login" => kept.off
  BY DEF Request
<1>4. row' = NoRow /\ codes' \subseteq codes /\ UNCHANGED <<now, minted, used>>
  BY DEF DeleteTOTP
<1>5. kept \in Request
  BY <1>1
<1> HIDE DEF kept
<1>6. QED BY <1>2, <1>3, <1>4, <1>5, IdleType

LEMMA ArrivalEffect ==
    ASSUME TypeOK, NEW r \in Reqs,
           Login(r) \/ TOTPConfirm(r) \/ TOTPDisable(r) \/ TOTPEnroll(r)
    PROVE  /\ Others(r) /\ UNCHANGED <<row, codes, now, used>>
           /\ req' \in [Reqs -> Request]
           /\ \/ req'[r].op \in {"login", "disable"} /\ req'[r].pc = "enabled"
              \/ req'[r].op = "confirm" /\ req'[r].pc = "pending"
              \/ /\ req'[r].op = "enroll" /\ req'[r].pc = "store"
                 /\ req'[r].secret \in Secrets \ minted
                 /\ minted' = minted \cup {req'[r].secret}
           /\ req'[r].op # "enroll" => minted' = minted
           /\ req'[r].op = "login" /\ ~row.confirmed => req'[r].off
<1>0. NoCode \in Code /\ NoSecret \in SecretOrNone /\ Secrets \subseteq SecretOrNone
  BY DEF NoCode, Code, SecretOrNone
<1>1. CASE Login(r)
  BY <1>0, <1>1, KnownCodesType, ArriveEffect DEF Login, Others
<1>2. CASE TOTPConfirm(r)
  BY <1>0, <1>2, KnownCodesType, ArriveEffect DEF TOTPConfirm, Others
<1>3. CASE TOTPDisable(r)
  BY <1>0, <1>3, KnownCodesType, ArriveEffect DEF TOTPDisable, Others
<1>4. CASE TOTPEnroll(r)
  BY <1>0, <1>4, ArriveEffect DEF TOTPEnroll, Others
<1>5. QED BY <1>1, <1>2, <1>3, <1>4

LEMMA TypeStep == TypeOK /\ [Next]_vars => TypeOK'
<1> SUFFICES ASSUME TypeOK, [Next]_vars PROVE TypeOK'
  OBVIOUS
<1> USE SecondFactorAssumption DEF TypeOK
<1>1. CASE UNCHANGED vars
  BY <1>1 DEF vars
<1>2. CASE Tick
  BY <1>2 DEF Tick
<1>3. ASSUME NEW r \in Reqs, Login(r) PROVE TypeOK'
  BY <1>3, KnownCodesType, ArriveType DEF Login, SecretOrNone
<1>4. ASSUME NEW r \in Reqs, TOTPConfirm(r) PROVE TypeOK'
  BY <1>4, KnownCodesType, ArriveType DEF TOTPConfirm, SecretOrNone
<1>5. ASSUME NEW r \in Reqs, TOTPDisable(r) PROVE TypeOK'
  BY <1>5, KnownCodesType, ArriveType DEF TOTPDisable, SecretOrNone
<1>6. ASSUME NEW r \in Reqs, TOTPEnroll(r) PROVE TypeOK'
  BY <1>6, ArriveType, NoCode \in Code DEF TOTPEnroll, Code, NoCode, SecretOrNone
<1>7. ASSUME NEW r \in Reqs, StartTOTPEnrollment(r) PROVE TypeOK'
  <2>1. req' \in [Reqs -> Request]
    BY <1>7, FinishEffect DEF StartTOTPEnrollment
  <2>2. req[r].secret \in SecretOrNone
    BY DEF Request
  <2>3. RecoveryCodes(req[r].secret) \subseteq Code
    BY <2>2 DEF RecoveryCodes, Code
  <2>4. [secret |-> req[r].secret, confirmed |-> FALSE, last |-> NoStep] \in Row
    BY <2>2 DEF Row, NoStep
  <2>5. row'.confirmed => row'.last \in Nat
    BY <1>7 DEF StartTOTPEnrollment
  <2>6. row' \in Row /\ codes' \subseteq Code
    BY <1>7, <2>3, <2>4 DEF StartTOTPEnrollment
  <2>7. QED BY <1>7, <2>1, <2>5, <2>6 DEF StartTOTPEnrollment
<1>8. ASSUME NEW r \in Reqs, LoadPending(r) PROVE TypeOK'
  BY <1>8, FinishEffect, LoadedEffect DEF LoadPending
<1>9. ASSUME NEW r \in Reqs, MatchFirstCode(r) PROVE TypeOK'
  BY <1>9, FinishEffect, ComparedEffect DEF MatchFirstCode
<1>10. ASSUME NEW r \in Reqs, ConfirmTOTP(r) PROVE TypeOK'
  <2>1. req[r].code \in Code /\ row.secret \in SecretOrNone
    BY DEF Request, Row
  <2>2. req[r].code.n \in Int
    BY <2>1 DEF Code
  <2>3. [row EXCEPT !.confirmed = TRUE, !.last = req[r].code.n] \in Row
    BY <2>2 DEF Row
  <2>4. row'.confirmed => row'.last \in Nat
    BY <1>10, <2>1 DEF ConfirmTOTP, Row, Code
  <2>5. QED BY <1>10, <2>1, <2>3, <2>4, FinishEffect DEF ConfirmTOTP
<1>11. ASSUME NEW r \in Reqs, TotpEnabled(r) PROVE TypeOK'
  BY <1>11, EnabledEffect
<1>12. ASSUME NEW r \in Reqs, LoadConfirmed(r) PROVE TypeOK'
  BY <1>12, FinishEffect, LoadedEffect DEF LoadConfirmed
<1>13. ASSUME NEW r \in Reqs, MatchCode(r) PROVE TypeOK'
  BY <1>13, ComparedEffect DEF MatchCode
<1>14. ASSUME NEW r \in Reqs, MarkTOTPStepUsed(r) PROVE TypeOK'
  <2>1. req[r].code.n \in Int
    BY DEF Request, Code
  <2>2. [row EXCEPT !.last = req[r].code.n] \in Row
    BY <2>1 DEF Row
  <2>3. row'.confirmed => row'.last \in Nat
    BY <1>14 DEF MarkTOTPStepUsed, Row, Request, Code
  <2>4. QED BY <1>14, <2>2, <2>3, FinishEffect, PassedEffect DEF MarkTOTPStepUsed
<1>15. ASSUME NEW r \in Reqs, UseRecoveryCode(r) PROVE TypeOK'
  BY <1>15, FinishEffect, PassedEffect DEF UseRecoveryCode
<1>16. ASSUME NEW r \in Reqs, IssueSession(r) PROVE TypeOK'
  BY <1>16, FinishEffect DEF IssueSession
<1>17. ASSUME NEW r \in Reqs, DeleteTOTP(r) PROVE TypeOK'
  <2>1. req' \in [Reqs -> Request]
    BY <1>17, DeleteEffect DEF DeleteTOTP
  <2>2. QED BY <1>17, <2>1 DEF DeleteTOTP, Row, NoRow, NoStep, SecretOrNone
<1>19. ASSUME NEW r \in Reqs, DeleteTOTPCodes(r) PROVE TypeOK'
  BY <1>19, DeleteCodesEffect
<1>18. ASSUME NEW r \in Reqs, StoreError(r) PROVE TypeOK'
  BY <1>18, FinishEffect DEF StoreError
<1> QED
  BY <1>1, <1>2, <1>3, <1>4, <1>5, <1>6, <1>7, <1>8, <1>9, <1>10, <1>11,
     <1>12, <1>13, <1>14, <1>15, <1>16, <1>17, <1>18, <1>19 DEF Next

(***************************************************************************)
(* Every variable keeps its type, whatever the constants.                  *)
(***************************************************************************)
THEOREM TypeCorrect == Spec => []TypeOK
BY TypeInit, TypeStep, PTL DEF Spec

-----------------------------------------------------------------------------
(***************************************************************************)
(* What a request has done by the time it reaches a program point.         *)
(***************************************************************************)
PointOK(r) ==
    /\ req[r].pc \in {"enabled", "load", "recover", "issue", "delete", "deleteRow"} =>
         req[r].op \in {"login", "disable"}
    /\ req[r].pc \in {"match", "spend"} => req[r].op \in {"login", "disable", "confirm"}
    /\ req[r].pc = "issue" => req[r].op = "login"
    /\ req[r].pc \in {"delete", "deleteRow"} =>
         req[r].op = "disable" /\ \E u \in used : u.code = req[r].code
    /\ req[r].pc = "spend" => req[r].code.kind = "totp" /\ req[r].code.n <= now + 1

\* A Login saw the factor inactive whenever it is inactive now.
OffOK(r) ==
    /\ req[r].op = "login" /\ ~row.confirmed => req[r].off
    /\ req[r].pc = "issue" /\ ~req[r].passed => req[r].off

PointInv == \A r \in Reqs : PointOK(r)
OffInv   == \A r \in Reqs : OffOK(r)

LEMMA PointInit == Init => PointInv /\ OffInv /\ LastStepNotAhead
BY DEF Init, PointInv, PointOK, OffInv, OffOK, LastStepNotAhead, NoRow, NoStep, Idle

LEMMA PointStep == TypeOK /\ PointInv /\ [Next]_vars => PointInv'
<1> SUFFICES ASSUME TypeOK, PointInv, [Next]_vars, NEW q \in Reqs PROVE PointOK(q)'
  BY DEF PointInv
<1> USE DEF PointInv, PointOK
<1>0. req \in [Reqs -> Request] /\ row \in Row /\ now \in Nat /\ req[q].code.n \in Nat
  BY DEF TypeOK, Request, Code
<1>1. CASE UNCHANGED vars
  BY <1>1 DEF vars
<1>2. CASE Tick
  BY <1>0, <1>2 DEF Tick
<1>3. ASSUME NEW r \in Reqs, Login(r) \/ TOTPConfirm(r) \/ TOTPDisable(r) \/ TOTPEnroll(r)
      PROVE  PointOK(q)'
  BY <1>0, <1>3, ArrivalEffect DEF Others
<1>4. ASSUME NEW r \in Reqs,
             StartTOTPEnrollment(r) \/ ConfirmTOTP(r) \/ IssueSession(r) \/ StoreError(r)
      PROVE  PointOK(q)'
  BY <1>0, <1>4, FinishEffect DEF StartTOTPEnrollment, ConfirmTOTP, IssueSession,
                    StoreError, Idle, Others
<1>5. ASSUME NEW r \in Reqs, LoadPending(r) \/ LoadConfirmed(r) PROVE PointOK(q)'
  BY <1>0, <1>5, FinishEffect, LoadedEffect DEF LoadPending, LoadConfirmed, At, Idle, Others
<1>6. ASSUME NEW r \in Reqs, MatchFirstCode(r) \/ MatchCode(r) PROVE PointOK(q)'
  BY <1>0, <1>6, FinishEffect, ComparedEffect
     DEF MatchFirstCode, MatchCode, MatchTOTPStep, At, Idle, Others
<1>7. ASSUME NEW r \in Reqs, TotpEnabled(r) PROVE PointOK(q)'
  BY <1>0, <1>7, EnabledEffect DEF Idle, Others
<1>8. ASSUME NEW r \in Reqs, MarkTOTPStepUsed(r) \/ UseRecoveryCode(r) PROVE PointOK(q)'
  <2>1. /\ \/ req[r].pc = "spend" /\ req[r].op # "confirm"
           \/ req[r].pc = "recover"
        /\ now' = now /\ row'.confirmed = row.confirmed
    BY <1>0, <1>8 DEF MarkTOTPStepUsed, UseRecoveryCode, Row
  <2>2. CASE Passed(r)
    <3>1. req[r].op \in {"login", "disable"}
      BY <2>1
    <3>2. \E u \in used' : u.code = req[r].code
      <4>1. [code |-> req[r].code, row |-> row.secret] \in used'
        BY <2>2, PassedEffect
      <4>2. QED BY <4>1
    <3>3. used \subseteq used'
      BY <2>2, PassedEffect
    <3>4. CASE q = r
      BY <2>2, <3>1, <3>2, <3>4, PassedEffect
    <3>5. CASE q # r
      <4>1. req'[q] = req[q]
        BY <2>2, <3>5, PassedEffect DEF Others
      <4>2. PointOK(q) /\ now' = now
        BY <2>1
      <4>3. QED BY <3>3, <4>1, <4>2
    <3>6. QED BY <3>4, <3>5
  <2>3. CASE Finish(r) /\ used' = used
    BY <1>0, <2>1, <2>3, FinishEffect DEF Idle, Others
  <2>4. QED BY <1>8, <2>2, <2>3 DEF MarkTOTPStepUsed, UseRecoveryCode
<1>9. ASSUME NEW r \in Reqs, DeleteTOTP(r) PROVE PointOK(q)'
  BY <1>0, <1>9, DeleteEffect DEF Idle
<1>10. ASSUME NEW r \in Reqs, DeleteTOTPCodes(r) PROVE PointOK(q)'
  BY <1>0, <1>10, DeleteCodesEffect DEF Others
<1> QED
  BY <1>1, <1>2, <1>3, <1>4, <1>5, <1>6, <1>7, <1>8, <1>9, <1>10 DEF Next

LEMMA OffStep == TypeOK /\ PointInv /\ OffInv /\ [Next]_vars => OffInv'
<1> SUFFICES ASSUME TypeOK, PointInv, OffInv, [Next]_vars, NEW q \in Reqs
             PROVE  OffOK(q)'
  BY DEF OffInv
<1> USE DEF OffInv, OffOK
<1>0. req \in [Reqs -> Request] /\ row \in Row
  BY DEF TypeOK
<1>1. CASE UNCHANGED vars
  BY <1>1 DEF vars
<1>2. CASE Tick
  BY <1>2 DEF Tick
<1>3. ASSUME NEW r \in Reqs, Login(r) \/ TOTPConfirm(r) \/ TOTPDisable(r) \/ TOTPEnroll(r)
      PROVE  OffOK(q)'
  BY <1>0, <1>3, ArrivalEffect DEF Others
<1>4. ASSUME NEW r \in Reqs,
             StartTOTPEnrollment(r) \/ ConfirmTOTP(r) \/ IssueSession(r) \/ StoreError(r)
      PROVE  OffOK(q)'
  BY <1>0, <1>4, FinishEffect
     DEF StartTOTPEnrollment, ConfirmTOTP, IssueSession, StoreError, Idle, Others, Row
<1>5. ASSUME NEW r \in Reqs,
             LoadPending(r) \/ LoadConfirmed(r) \/ MatchFirstCode(r) \/ MatchCode(r)
      PROVE  OffOK(q)'
  BY <1>0, <1>5, FinishEffect, LoadedEffect, ComparedEffect
     DEF LoadPending, LoadConfirmed, MatchFirstCode, MatchCode, Idle, Others
<1>6. ASSUME NEW r \in Reqs, TotpEnabled(r) PROVE OffOK(q)'
  BY <1>0, <1>6, EnabledEffect DEF Idle, Others
<1>7. ASSUME NEW r \in Reqs, MarkTOTPStepUsed(r) \/ UseRecoveryCode(r) PROVE OffOK(q)'
  <2>1. /\ \/ req[r].pc = "spend" /\ req[r].op # "confirm"
           \/ req[r].pc = "recover"
        /\ now' = now /\ row'.confirmed = row.confirmed
    BY <1>0, <1>7 DEF MarkTOTPStepUsed, UseRecoveryCode, Row
  <2>2. CASE Passed(r)
    BY <1>0, <2>1, <2>2, PassedEffect DEF Others
  <2>3. CASE Finish(r) /\ used' = used
    BY <1>0, <2>1, <2>3, FinishEffect DEF Idle, Others
  <2>4. QED BY <1>7, <2>2, <2>3 DEF MarkTOTPStepUsed, UseRecoveryCode
<1>8. ASSUME NEW r \in Reqs, DeleteTOTP(r) PROVE OffOK(q)'
  BY <1>0, <1>8, DeleteEffect DEF Idle, PointInv, PointOK
<1>9. ASSUME NEW r \in Reqs, DeleteTOTPCodes(r) PROVE OffOK(q)'
  BY <1>0, <1>9, DeleteCodesEffect DEF Others
<1> QED
  BY <1>1, <1>2, <1>3, <1>4, <1>5, <1>6, <1>7, <1>8, <1>9 DEF Next

LEMMA LastStep == TypeOK /\ PointInv /\ LastStepNotAhead /\ [Next]_vars => LastStepNotAhead'
<1> SUFFICES ASSUME TypeOK, PointInv, LastStepNotAhead, [Next]_vars PROVE LastStepNotAhead'
  OBVIOUS
<1> USE DEF LastStepNotAhead
<1>0. row \in Row /\ now \in Nat
  BY DEF TypeOK
<1>1. CASE UNCHANGED <<row, now>>
  BY <1>1
<1>2. CASE Tick
  BY <1>0, <1>2 DEF Tick, Row
<1>3. ASSUME NEW r \in Reqs, StartTOTPEnrollment(r) \/ DeleteTOTP(r)
      PROVE  LastStepNotAhead'
  BY <1>0, <1>3 DEF StartTOTPEnrollment, DeleteTOTP, NoRow, NoStep
<1>4. ASSUME NEW r \in Reqs, ConfirmTOTP(r) \/ MarkTOTPStepUsed(r)
      PROVE  LastStepNotAhead'
  BY <1>0, <1>4 DEF ConfirmTOTP, MarkTOTPStepUsed, PointInv, PointOK, At, Row
<1> QED
  BY <1>1, <1>2, <1>3, <1>4 DEF Next, vars, Login, TOTPConfirm, TOTPDisable, TOTPEnroll,
     Arrive, LoadPending, LoadConfirmed, MatchFirstCode, MatchCode, TotpEnabled,
     UseRecoveryCode, IssueSession, DeleteTOTPCodes, StoreError

\* The combined invariant of the requests.
LEMMA RequestsCorrect == Spec => [](TypeOK /\ PointInv /\ OffInv /\ LastStepNotAhead)
BY TypeInit, TypeStep, PointInit, PointStep, OffStep, LastStep, PTL DEF Spec

(***************************************************************************)
(* A session on the password alone means that the factor was inactive at   *)
(* some moment of that login.                                              *)
(***************************************************************************)
THEOREM SecondFactorRequired == Spec => []SessionNeedsSecondFactor
<1>1. OffInv => SessionNeedsSecondFactor
  BY DEF OffInv, OffOK, SessionNeedsSecondFactor
<1>2. QED BY <1>1, RequestsCorrect, PTL

(***************************************************************************)
(* The stored step never runs more than one period ahead of the clock.     *)
(***************************************************************************)
THEOREM NoLockout == Spec => []LastStepNotAhead
BY RequestsCorrect, PTL

-----------------------------------------------------------------------------
(***************************************************************************)
(* What the two tables and the history of accepted codes say about each    *)
(* other.  A secret on its way to the store is in neither; a recovery code *)
(* accepted once is gone; a step accepted for the enrolled secret is not   *)
(* after the stored one.                                                   *)
(***************************************************************************)
Enrolling(r) == At(r, "enroll", "store")

FreshInv ==
    /\ \A r \in Reqs : Enrolling(r) =>
         /\ req[r].secret \in minted /\ req[r].secret # row.secret
         /\ \A c \in codes : c.secret # req[r].secret
         /\ \A u \in used : /\ u.row # req[r].secret
                            /\ u.code.kind = "recovery" => u.code.secret # req[r].secret
    /\ \A r, q \in Reqs : Enrolling(r) /\ Enrolling(q) /\ req[r].secret = req[q].secret => r = q
MintedInv ==
    /\ row = NoRow \/ row.secret \in minted
    /\ \A u \in used : /\ u.row \in minted \cup {NoSecret}
                       /\ u.code.kind = "recovery" => u.code.secret \in minted
                       /\ u.code.kind = "totp" => u.row \in minted
CodesInv ==
    /\ \A c \in codes : c.kind = "recovery" /\ c.secret \in minted
    /\ RecoveryCodesMatchRow
RecoveryUseInv == \A u \in used : u.code.kind = "recovery" => u.code \notin codes
StepUseInv ==
    \A u \in used : u.code.kind = "totp" /\ u.row = row.secret =>
        row.confirmed /\ u.code.n <= row.last

StoreInv == FreshInv /\ MintedInv /\ CodesInv /\ RecoveryUseInv /\ StepUseInv

LEMMA StoreInit == Init => StoreInv
BY DEF Init, StoreInv, FreshInv, MintedInv, CodesInv, RecoveryUseInv, StepUseInv,
       RecoveryCodesMatchRow, Enrolling, At, Idle

\* Only an arriving TOTPEnroll starts an enrollment.
LEMMA NoNewEnrollment ==
    ASSUME TypeOK, [Next]_vars, NEW q \in Reqs,
           \A r \in Reqs : ~(Login(r) \/ TOTPConfirm(r) \/ TOTPDisable(r) \/ TOTPEnroll(r))
    PROVE  Enrolling(q)' => Enrolling(q) /\ req'[q].secret = req[q].secret
<1> USE DEF Enrolling, At
<1>0. req \in [Reqs -> Request] /\ row \in Row
  BY DEF TypeOK
<1>1. CASE UNCHANGED req
  BY <1>1
<1>2. ASSUME NEW r \in Reqs,
             StartTOTPEnrollment(r) \/ ConfirmTOTP(r) \/ IssueSession(r) \/ StoreError(r)
      PROVE  Enrolling(q)' => Enrolling(q) /\ req'[q].secret = req[q].secret
  BY <1>0, <1>2, FinishEffect
     DEF StartTOTPEnrollment, ConfirmTOTP, IssueSession, StoreError, Idle, Others
<1>3. ASSUME NEW r \in Reqs,
             LoadPending(r) \/ LoadConfirmed(r) \/ MatchFirstCode(r) \/ MatchCode(r)
      PROVE  Enrolling(q)' => Enrolling(q) /\ req'[q].secret = req[q].secret
  BY <1>0, <1>3, FinishEffect, LoadedEffect, ComparedEffect
     DEF LoadPending, LoadConfirmed, MatchFirstCode, MatchCode, Idle, Others
<1>4. ASSUME NEW r \in Reqs, TotpEnabled(r) \/ DeleteTOTP(r)
      PROVE  Enrolling(q)' => Enrolling(q) /\ req'[q].secret = req[q].secret
  BY <1>0, <1>4, EnabledEffect, DeleteEffect DEF Idle, Others
<1>5. ASSUME NEW r \in Reqs, MarkTOTPStepUsed(r) \/ UseRecoveryCode(r)
      PROVE  Enrolling(q)' => Enrolling(q) /\ req'[q].secret = req[q].secret
  <2>1. CASE Passed(r)
    BY <2>1, PassedEffect DEF Others
  <2>2. CASE Finish(r)
    BY <1>0, <2>2, FinishEffect DEF Idle, Others
  <2>3. QED BY <1>5, <2>1, <2>2 DEF MarkTOTPStepUsed, UseRecoveryCode
<1>6. ASSUME NEW r \in Reqs, DeleteTOTPCodes(r)
      PROVE  Enrolling(q)' => Enrolling(q) /\ req'[q].secret = req[q].secret
  BY <1>0, <1>6, DeleteCodesEffect DEF Others
<1>7. QED
  BY <1>1, <1>2, <1>3, <1>4, <1>5, <1>6 DEF Next, vars, Tick

LEMMA StoreArrival ==
    ASSUME TypeOK, StoreInv, NEW r \in Reqs,
           Login(r) \/ TOTPConfirm(r) \/ TOTPDisable(r) \/ TOTPEnroll(r)
    PROVE  StoreInv'
<1> USE DEF StoreInv
<1>0. /\ Others(r) /\ UNCHANGED <<row, codes, now, used>>
      /\ minted \subseteq minted'
  BY ArrivalEffect
<1>1. MintedInv' /\ CodesInv' /\ RecoveryUseInv' /\ StepUseInv'
  BY <1>0 DEF MintedInv, CodesInv, RecoveryUseInv, StepUseInv, RecoveryCodesMatchRow
<1>2. ASSUME NEW q \in Reqs, Enrolling(q)', q # r
      PROVE  Enrolling(q) /\ req'[q].secret = req[q].secret
  BY <1>0, <1>2 DEF Others, Enrolling, At
<1>3. Enrolling(r)' => req'[r].secret \in minted' \ minted /\ req'[r].secret # NoSecret
  BY ArrivalEffect, SecondFactorAssumption DEF Enrolling, At
<1>4. row.secret \in minted \/ row.secret = NoSecret
  BY DEF MintedInv, NoRow
<1>5. FreshInv'
  BY <1>0, <1>2, <1>3, <1>4 DEF FreshInv, MintedInv, CodesInv
<1>6. QED BY <1>1, <1>5

LEMMA StoreStep == TypeOK /\ PointInv /\ StoreInv /\ [Next]_vars => StoreInv'
<1> SUFFICES ASSUME TypeOK, PointInv, StoreInv, [Next]_vars,
                    \A r \in Reqs : ~(Login(r) \/ TOTPConfirm(r) \/ TOTPDisable(r) \/ TOTPEnroll(r))
             PROVE  StoreInv'
  BY StoreArrival
<1> DEFINE Kept == \A q \in Reqs :
                      Enrolling(q)' => Enrolling(q) /\ req'[q].secret = req[q].secret
<1>0. Kept /\ req \in [Reqs -> Request] /\ row \in Row /\ codes \subseteq Code
  BY NoNewEnrollment DEF TypeOK
<1>1. CASE UNCHANGED <<row, codes, minted, used>>
  BY <1>0, <1>1 DEF StoreInv, FreshInv, MintedInv, CodesInv, RecoveryUseInv, StepUseInv,
                    RecoveryCodesMatchRow
<1>2. ASSUME NEW r \in Reqs, StartTOTPEnrollment(r), ~row.confirmed PROVE StoreInv'
  <2>1. /\ row'.secret = req[r].secret /\ codes' = RecoveryCodes(req[r].secret)
        /\ UNCHANGED <<minted, used>> /\ Enrolling(r) /\ ~Enrolling(r)'
    BY <1>0, <1>2, FinishEffect DEF StartTOTPEnrollment, Enrolling, At, Idle
  <2>2. FreshInv'
    BY <1>0, <2>1 DEF StoreInv, FreshInv, RecoveryCodes
  <2>3. MintedInv' /\ CodesInv' /\ RecoveryUseInv' /\ StepUseInv'
    BY <2>1 DEF StoreInv, FreshInv, MintedInv, CodesInv, RecoveryUseInv, StepUseInv,
                RecoveryCodes, RecoveryCodesMatchRow
  <2>4. QED BY <2>2, <2>3 DEF StoreInv
<1>3. ASSUME NEW r \in Reqs, NEW c \in Code,
             row' \in Row, row'.secret = row.secret, row'.confirmed, row'.last = c.n,
             row # NoRow, c.kind = "totp", row.confirmed => row.last <= c.n,
             used' = used \cup {[code |-> c, row |-> row.secret]},
             UNCHANGED <<codes, minted>>
      PROVE  StoreInv'
  <2>1. FreshInv'
    BY <1>0, <1>3 DEF StoreInv, FreshInv
  <2>2. MintedInv' /\ CodesInv' /\ RecoveryUseInv'
    BY <1>3 DEF StoreInv, MintedInv, CodesInv, RecoveryUseInv, RecoveryCodesMatchRow
  <2>3. ASSUME NEW u \in used', u.code.kind = "totp", u.row = row'.secret
        PROVE  row'.confirmed /\ u.code.n <= row'.last
    <3>1. CASE u = [code |-> c, row |-> row.secret]
      BY <1>3, <3>1 DEF Code
    <3>2. CASE u \in used
      BY <1>0, <1>3, <2>3, <3>2 DEF StoreInv, StepUseInv, TypeOK, Row, Code
    <3>3. QED BY <1>3, <3>1, <3>2
  <2>4. QED BY <2>1, <2>2, <2>3 DEF StoreInv, StepUseInv
<1>4. ASSUME NEW r \in Reqs, ConfirmTOTP(r), row # NoRow, ~row.confirmed PROVE StoreInv'
  <2>1. req[r].code \in Code /\ req[r].code.kind = "totp"
    BY <1>0, <1>4 DEF ConfirmTOTP, At, PointInv, PointOK, Request
  <2>2. row' \in Row
    BY TypeStep DEF TypeOK
  <2>3. QED BY <1>0, <1>3, <1>4, <2>1, <2>2 DEF ConfirmTOTP, Row
<1>5. ASSUME NEW r \in Reqs, MarkTOTPStepUsed(r), row.confirmed, row.last < req[r].code.n
      PROVE  StoreInv'
  <2>1. req[r].code \in Code /\ req[r].code.kind = "totp"
    BY <1>0, <1>5 DEF MarkTOTPStepUsed, PointInv, PointOK, Request
  <2>2. row' \in Row
    BY TypeStep DEF TypeOK
  <2>3. row.last <= req[r].code.n /\ row # NoRow
    BY <1>0, <1>5, <2>1 DEF Row, Code, NoRow
  <2>4. /\ row' = [row EXCEPT !.last = req[r].code.n] /\ UNCHANGED <<codes, minted>>
        /\ used' = used \cup {[code |-> req[r].code, row |-> row.secret]}
    BY <1>5 DEF MarkTOTPStepUsed, Passed
  <2>5. row'.secret = row.secret /\ row'.confirmed /\ row'.last = req[r].code.n
    BY <1>0, <1>5, <2>4 DEF Row
  <2>6. QED BY <1>3, <2>1, <2>2, <2>3, <2>4, <2>5
<1>6. ASSUME NEW r \in Reqs, UseRecoveryCode(r), req[r].code \in codes PROVE StoreInv'
  <2>1. /\ codes' = codes \ {req[r].code} /\ UNCHANGED <<row, minted>>
        /\ used' = used \cup {[code |-> req[r].code, row |-> row.secret]}
    BY <1>6 DEF UseRecoveryCode, Passed
  <2>2. req[r].code.kind = "recovery" /\ req[r].code.secret \in minted
    BY <1>6 DEF StoreInv, CodesInv
  <2>3. FreshInv'
    BY <1>0, <1>6, <2>1 DEF StoreInv, FreshInv
  <2>4. row.secret \in minted \cup {NoSecret}
    BY DEF StoreInv, MintedInv, NoRow
  <2>5. MintedInv' /\ CodesInv' /\ RecoveryUseInv' /\ StepUseInv'
    BY <2>1, <2>2, <2>4 DEF StoreInv, MintedInv, CodesInv, RecoveryUseInv, StepUseInv,
                            RecoveryCodesMatchRow
  <2>6. QED BY <2>3, <2>5 DEF StoreInv
<1>7. ASSUME NEW r \in Reqs, DeleteTOTP(r) PROVE StoreInv'
  <2>1. row' = NoRow /\ codes' \subseteq codes /\ UNCHANGED <<minted, used>>
    BY <1>7 DEF DeleteTOTP
  <2>2. NoSecret \notin minted
    BY SecondFactorAssumption DEF TypeOK
  <2>3. QED
    BY <1>0, <2>1, <2>2 DEF StoreInv, FreshInv, MintedInv, CodesInv, RecoveryUseInv,
                            StepUseInv, NoRow, RecoveryCodesMatchRow
<1>8. QED
  BY <1>1, <1>2, <1>4, <1>5, <1>6, <1>7
     DEF Next, vars, Tick, StartTOTPEnrollment, ConfirmTOTP, MarkTOTPStepUsed,
         UseRecoveryCode, LoadPending, LoadConfirmed, MatchFirstCode, MatchCode,
         TotpEnabled, IssueSession, DeleteTOTPCodes, StoreError

LEMMA StoreCorrect == Spec => [](TypeOK /\ PointInv /\ StoreInv)
BY TypeInit, TypeStep, PointInit, PointStep, StoreInit, StoreStep, PTL DEF Spec

(***************************************************************************)
(* The unused recovery codes are of one enrollment, and of the enrolled    *)
(* secret when there is one.                                               *)
(***************************************************************************)
THEOREM CodesBelongToRow == Spec => []RecoveryCodesMatchRow
<1>1. StoreInv => RecoveryCodesMatchRow
  BY DEF StoreInv, CodesInv
<1>2. QED BY <1>1, StoreCorrect, PTL

(***************************************************************************)
(* While a secret is enrolled no time step is accepted twice for it.       *)
(***************************************************************************)

\* Only the two conditional updates accept a code, and only when they apply.
LEMMA AcceptingSteps ==
    ASSUME TypeOK, [Next]_vars, NEW r \in Reqs, Accepts(r)
    PROVE  \/ req[r].pc = "spend" /\ row.confirmed /\ row.last < req[r].code.n
           \/ req[r].pc = "recover" /\ req[r].code \in codes
<1> USE DEF Accepts
<1>0. req \in [Reqs -> Request] /\ row \in Row
  BY DEF TypeOK
<1>1. req' # req
  OBVIOUS
<1>2. ASSUME NEW q \in Reqs, Login(q) \/ TOTPConfirm(q) \/ TOTPDisable(q) \/ TOTPEnroll(q)
      PROVE  FALSE
  BY <1>2, ArrivalEffect DEF Others
<1>3. ASSUME NEW q \in Reqs,
             StartTOTPEnrollment(q) \/ ConfirmTOTP(q) \/ IssueSession(q) \/ StoreError(q)
      PROVE  FALSE
  BY <1>0, <1>3, FinishEffect
     DEF StartTOTPEnrollment, ConfirmTOTP, IssueSession, StoreError, Idle, Others
<1>4. ASSUME NEW q \in Reqs,
             LoadPending(q) \/ LoadConfirmed(q) \/ MatchFirstCode(q) \/ MatchCode(q)
      PROVE  FALSE
  BY <1>0, <1>4, FinishEffect, LoadedEffect, ComparedEffect
     DEF LoadPending, LoadConfirmed, MatchFirstCode, MatchCode, Idle, Others
<1>5. ASSUME NEW q \in Reqs, TotpEnabled(q) \/ DeleteTOTP(q) \/ DeleteTOTPCodes(q)
      PROVE  FALSE
  BY <1>0, <1>5, EnabledEffect, DeleteEffect, DeleteCodesEffect DEF Idle, Others
<1>6. ASSUME NEW q \in Reqs, MarkTOTPStepUsed(q) \/ UseRecoveryCode(q)
      PROVE  \/ req[r].pc = "spend" /\ row.confirmed /\ row.last < req[r].code.n
             \/ req[r].pc = "recover" /\ req[r].code \in codes
  <2>1. CASE Finish(q)
    BY <1>0, <2>1, FinishEffect DEF Idle, Others
  <2>2. CASE Passed(q) /\ q # r
    BY <2>2, PassedEffect DEF Others
  <2>3. QED BY <1>6, <2>1, <2>2 DEF MarkTOTPStepUsed, UseRecoveryCode
<1>7. QED
  BY <1>1, <1>2, <1>3, <1>4, <1>5, <1>6 DEF Next, vars, Tick

(***************************************************************************)
(* While a secret is enrolled no time step is accepted twice for it.       *)
(***************************************************************************)
THEOREM StepsAreSingleUse == Spec => StepSpentOnce
<1>1. ASSUME TypeOK, PointInv, StoreInv, [Next]_vars, NEW r \in Reqs,
             Accepts(r), req[r].pc = "spend", NEW u \in used,
             u.row = row.secret, u.code.kind = "totp", u.code.n = req[r].code.n
      PROVE  FALSE
  <2>1. row.confirmed /\ row.last < req[r].code.n
    BY <1>1, AcceptingSteps
  <2>2. u.code.n <= row.last
    BY <1>1 DEF StoreInv, StepUseInv
  <2>3. row.last \in Int /\ req[r].code.n \in Nat
    BY <1>1 DEF TypeOK, Row, Request, Code
  <2>4. QED BY <1>1, <2>1, <2>2, <2>3
<1>2. TypeOK /\ PointInv /\ StoreInv /\ [Next]_vars =>
        [\A r \in Reqs : Accepts(r) /\ req[r].pc = "spend" =>
           ~\E u \in used : /\ u.row = row.secret
                            /\ u.code.kind = "totp"
                            /\ u.code.n = req[r].code.n]_vars
  BY <1>1
<1>3. QED BY <1>2, StoreCorrect, PTL DEF Spec, StepSpentOnce

(***************************************************************************)
(* A recovery code is accepted at most once in its life.                   *)
(***************************************************************************)
THEOREM RecoveryCodesAreSingleUse == Spec => RecoveryCodeSpentOnce
<1>1. ASSUME TypeOK, PointInv, StoreInv, [Next]_vars, NEW r \in Reqs,
             Accepts(r), req[r].pc = "recover", NEW u \in used, u.code = req[r].code
      PROVE  FALSE
  <2>1. req[r].code \in codes
    BY <1>1, AcceptingSteps
  <2>2. QED BY <1>1, <2>1 DEF StoreInv, CodesInv, RecoveryUseInv
<1>2. TypeOK /\ PointInv /\ StoreInv /\ [Next]_vars =>
        [\A r \in Reqs : Accepts(r) /\ req[r].pc = "recover" =>
           ~\E u \in used : u.code = req[r].code]_vars
  BY <1>1
<1>3. QED BY <1>2, StoreCorrect, PTL DEF Spec, RecoveryCodeSpentOnce

(***************************************************************************)
(* An active factor goes away only by a TOTPDisable whose code was accepted.*)
(***************************************************************************)
THEOREM ActiveFactorIsStable == Spec => ActiveFactorOnlyRemovedByCode
<1>1. ASSUME TypeOK, PointInv, [Next]_vars, row.confirmed,
             ~(row'.confirmed /\ row'.secret = row.secret)
      PROVE  \E r \in Reqs : /\ At(r, "disable", "deleteRow")
                             /\ \E u \in used : u.code = req[r].code
  <2>1. ASSUME NEW r \in Reqs, DeleteTOTP(r)
        PROVE  At(r, "disable", "deleteRow") /\ \E u \in used : u.code = req[r].code
    BY <1>1, <2>1 DEF DeleteTOTP, PointInv, PointOK, At
  <2>2. row' # row
    BY <1>1
  <2>3. ASSUME NEW r \in Reqs,
               StartTOTPEnrollment(r) \/ ConfirmTOTP(r) \/ MarkTOTPStepUsed(r)
        PROVE  FALSE
    BY <1>1, <2>2, <2>3
       DEF TypeOK, Row, StartTOTPEnrollment, ConfirmTOTP, MarkTOTPStepUsed
  <2>4. \E r \in Reqs : DeleteTOTP(r)
    BY <2>2, <2>3, <1>1
       DEF Next, vars, Tick, Login, TOTPConfirm, TOTPDisable, TOTPEnroll, Arrive,
           LoadPending, LoadConfirmed, MatchFirstCode, MatchCode, TotpEnabled,
           UseRecoveryCode, IssueSession, DeleteTOTPCodes, StoreError
  <2>5. QED BY <2>1, <2>4
<1>2. TypeOK /\ PointInv /\ [Next]_vars =>
        [row.confirmed /\ ~(row'.confirmed /\ row'.secret = row.secret) =>
           \E r \in Reqs : /\ At(r, "disable", "deleteRow")
                           /\ \E u \in used : u.code = req[r].code]_vars
  BY <1>1
<1>3. QED BY <1>2, RequestsCorrect, PTL DEF Spec, ActiveFactorOnlyRemovedByCode
=============================================================================
