---------------------------- MODULE SecondFactor ----------------------------
(***************************************************************************)
(* The TOTP second factor of one account: internal/auth/handlers.go        *)
(* (Login, TOTPEnroll, TOTPConfirm, TOTPDisable, verifySecondFactor) over  *)
(* the statements of internal/store/store.go they call.                    *)
(*                                                                         *)
(* Every HTTP request runs in a goroutine of its own, so a request is a    *)
(* program counter with the values it has read so far, and one step is one *)
(* call of the store.  Between two calls of one request any other request  *)
(* may run.  Of the two transactions, StartTOTPEnrollment is one step,     *)
(* since its first statement locks the row of totp_secrets; DeleteTOTP,    *)
(* which comes to that row last, is two, under READ COMMITTED.             *)
(*                                                                         *)
(* A secret stands for itself; what the authenticator shows for secret s   *)
(* at time step t is the code [kind |-> "totp", secret |-> s, n |-> t], a  *)
(* recovery code handed out with s is [kind |-> "recovery", secret |-> s,  *)
(* n |-> i].  Accidental equality of two six-digit codes is left out.      *)
(***************************************************************************)
EXTENDS Integers

CONSTANTS
    Reqs,          \* request slots: how many requests run at the same time
    Secrets,       \* the secrets GenerateTOTP may mint, each at most once
    NoSecret,      \* "no row in totp_secrets"
    NumRecovery,   \* recovery codes per enrollment (10 in TOTPEnroll)
    CodeSteps,     \* bound: the time steps whose codes clients type
    MaxStep        \* bound: the last time step of the run

ASSUME SecondFactorAssumption ==
    /\ NoSecret \notin Secrets
    /\ NumRecovery \in Nat
    /\ CodeSteps \subseteq Nat
    /\ MaxStep \in Nat

VARIABLES
    row,           \* the account's row of totp_secrets
    codes,         \* its rows of totp_recovery_codes with used_at IS NULL
    now,           \* time.Now() in periods of totpPeriod seconds
    minted,        \* secrets GenerateTOTP has returned
    req,           \* the requests in flight
    \* history, read by no guard; so is the field off of a request: was the
    \* factor inactive at some moment since this Login arrived?
    used           \* codes the store accepted, with the secret then in the row

vars == <<row, codes, now, minted, req, used>>

-----------------------------------------------------------------------------
NoStep  == -1      \* last_used_step IS NULL; older than every step
NoRow   == [secret |-> NoSecret, confirmed |-> FALSE, last |-> NoStep]
NoCode  == [kind |-> "empty", secret |-> NoSecret, n |-> 0]
Idle    == [op |-> "none", pc |-> "idle", code |-> NoCode,
            secret |-> NoSecret, passed |-> FALSE, off |-> FALSE]

SecretOrNone == Secrets \cup {NoSecret}
Code == [kind : {"empty", "totp", "recovery"}, secret : SecretOrNone, n : Nat]
Row  == [secret : SecretOrNone, confirmed : BOOLEAN, last : Int]
Request ==
    [op : {"none", "login", "enroll", "confirm", "disable"},
     pc : {"idle", "store", "pending", "enabled", "load", "match", "spend",
           "recover", "issue", "delete", "deleteRow"},
     code : Code, secret : SecretOrNone, passed : BOOLEAN,
     off : BOOLEAN]

TypeOK ==
    /\ row \in Row /\ (row.confirmed => row.last \in Nat)
    /\ codes \subseteq Code
    /\ now \in Nat
    /\ minted \subseteq Secrets
    /\ req \in [Reqs -> Request]
    /\ used \subseteq [code : Code, row : SecretOrNone]

Init ==
    /\ row = NoRow
    /\ codes = {}
    /\ now = 0
    /\ minted = {}
    /\ req = [r \in Reqs |-> Idle]
    /\ used = {}

-----------------------------------------------------------------------------
Goto(r, pc) == req' = [req EXCEPT ![r].pc = pc]
Finish(r)   == req' = [req EXCEPT ![r] = Idle]
At(r, op, pc) == req[r].op = op /\ req[r].pc = pc

\* Login decides for a session; its code is dead from here on.
ToIssue(r, passed) ==
    req' = [req EXCEPT ![r].pc = "issue", ![r].passed = passed, ![r].code = NoCode]

\* The secret a request read is dead once its code was compared with it.
Compared(r, pc) == req' = [req EXCEPT ![r].pc = pc, ![r].secret = NoSecret]

\* A secret the store call of TOTPEnroll has not been tried with yet.
Unstored(s) == \E r \in Reqs : At(r, "enroll", "store") /\ req[r].secret = s

\* What a client can type: nothing, or a code of a secret it was shown.
KnownCodes ==
    LET shown == {s \in minted : ~Unstored(s)} IN
    {NoCode}
      \cup [kind : {"totp"}, secret : shown, n : CodeSteps]
      \cup [kind : {"recovery"}, secret : shown, n : 1 .. NumRecovery]

RecoveryCodes(s) == [kind : {"recovery"}, secret : {s}, n : 1 .. NumRecovery]

\* MatchTOTPStep: the code of this secret for this step or a neighbour.
MatchTOTPStep(code, secret) ==
    /\ code.kind = "totp"
    /\ code.secret = secret
    /\ code.n \in now - 1 .. now + 1

-----------------------------------------------------------------------------
(* Requests arriving.  Login is taken up once the password is verified: a  *)
(* request that fails before that returns without touching this state.     *)

Arrive(r, op, pc, code, secret) ==
    /\ req[r] = Idle
    /\ req' = [req EXCEPT ![r] = [op |-> op, pc |-> pc, code |-> code,
                                  secret |-> secret, passed |-> FALSE,
                                  off |-> op = "login" /\ ~row.confirmed]]
    /\ UNCHANGED <<row, codes, now, used>>

Login(r) ==
    /\ \E c \in KnownCodes : Arrive(r, "login", "enabled", c, NoSecret)
    /\ UNCHANGED minted

TOTPConfirm(r) ==
    /\ \E c \in KnownCodes : Arrive(r, "confirm", "pending", c, NoSecret)
    /\ UNCHANGED minted

TOTPDisable(r) ==
    /\ \E c \in KnownCodes : Arrive(r, "disable", "enabled", c, NoSecret)
    /\ UNCHANGED minted

\* GenerateTOTP, EncryptSecret and GenerateRecoveryCodes touch no shared state.
TOTPEnroll(r) ==
    \E s \in Secrets \ minted :
        /\ Arrive(r, "enroll", "store", NoCode, s)
        /\ minted' = minted \cup {s}

-----------------------------------------------------------------------------
(* The store calls.  The definitions marked "variant" are faulty versions  *)
(* of the one that follows them; only the sensitivity checks use them.     *)

\* Variant: the upsert lacks WHERE confirmed = false.
EnrollOverActive(r) ==
    /\ At(r, "enroll", "store")
    /\ row' = [secret |-> req[r].secret, confirmed |-> FALSE, last |-> NoStep]
    /\ codes' = RecoveryCodes(req[r].secret)
    /\ Finish(r)
    /\ UNCHANGED <<now, minted, used>>

\* Variant: the old recovery codes are kept.
EnrollKeepingCodes(r) ==
    /\ At(r, "enroll", "store")
    /\ ~row.confirmed
    /\ row' = [secret |-> req[r].secret, confirmed |-> FALSE, last |-> NoStep]
    /\ codes' = codes \cup RecoveryCodes(req[r].secret)
    /\ Finish(r)
    /\ UNCHANGED <<now, minted, used>>

\* INSERT ... ON CONFLICT DO UPDATE ... WHERE confirmed = false; when a row was
\* written the recovery codes are replaced in the same transaction.
StartTOTPEnrollment(r) ==
    /\ At(r, "enroll", "store")
    /\ \/ /\ ~row.confirmed
          /\ row' = [secret |-> req[r].secret, confirmed |-> FALSE, last |-> NoStep]
          /\ codes' = RecoveryCodes(req[r].secret)
       \/ row.confirmed /\ UNCHANGED <<row, codes>>
    /\ Finish(r)
    /\ UNCHANGED <<now, minted, used>>

\* The read of TOTPConfirm: no row or a confirmed one ends the request.
LoadPending(r) ==
    /\ At(r, "confirm", "pending")
    /\ IF row = NoRow \/ row.confirmed
         THEN Finish(r)
         ELSE req' = [req EXCEPT ![r].secret = row.secret, ![r].pc = "match"]
    /\ UNCHANGED <<row, codes, now, minted, used>>

MatchFirstCode(r) ==
    /\ At(r, "confirm", "match")
    /\ IF MatchTOTPStep(req[r].code, req[r].secret) THEN Compared(r, "spend") ELSE Finish(r)
    /\ UNCHANGED <<row, codes, now, minted, used>>

\* Variant: last_used_step stays NULL.
ConfirmWithoutStep(r) ==
    /\ At(r, "confirm", "spend")
    /\ row # NoRow /\ ~row.confirmed
    /\ row' = [row EXCEPT !.confirmed = TRUE]
    /\ used' = used \cup {[code |-> req[r].code, row |-> row.secret]}
    /\ Finish(r)
    /\ UNCHANGED <<codes, now, minted>>

\* UPDATE ... SET confirmed = true, last_used_step = $2 WHERE confirmed = false.
\* Which secret the row holds is not part of the WHERE.
ConfirmTOTP(r) ==
    /\ At(r, "confirm", "spend")
    /\ \/ /\ row # NoRow /\ ~row.confirmed
          /\ row' = [row EXCEPT !.confirmed = TRUE, !.last = req[r].code.n]
          /\ used' = used \cup {[code |-> req[r].code, row |-> row.secret]}
       \/ (row = NoRow \/ row.confirmed) /\ UNCHANGED <<row, used>>
    /\ Finish(r)
    /\ UNCHANGED <<codes, now, minted>>

\* Variant: a failed lookup is taken for "not enabled".
TotpEnabledFailingOpen(r) ==
    /\ req[r].pc = "enabled"
    /\ \/ row.confirmed /\ Goto(r, "load")
       \/ req[r].op = "login" /\ ToIssue(r, FALSE)
       \/ req[r].op = "disable" /\ Finish(r)
    /\ UNCHANGED <<row, codes, now, minted, used>>

\* totpEnabled as Login and TOTPDisable use it: no row counts as disabled, and a
\* Login without a second factor goes straight to issueSession.
TotpEnabled(r) ==
    /\ req[r].pc = "enabled"
    /\ \/ row.confirmed /\ Goto(r, "load")
       \/ ~row.confirmed /\ req[r].op = "login" /\ ToIssue(r, FALSE)
       \/ ~row.confirmed /\ req[r].op = "disable" /\ Finish(r)
    /\ UNCHANGED <<row, codes, now, minted, used>>

\* verifySecondFactor reads the secret again; an empty code, no row or an
\* unconfirmed one is a failed factor.
LoadConfirmed(r) ==
    /\ req[r].pc = "load"
    /\ IF req[r].code = NoCode \/ ~row.confirmed
         THEN Finish(r)
         ELSE req' = [req EXCEPT ![r].secret = row.secret, ![r].pc = "match"]
    /\ UNCHANGED <<row, codes, now, minted, used>>

MatchCode(r) ==
    /\ req[r].pc = "match" /\ req[r].op # "confirm"
    /\ Compared(r, IF MatchTOTPStep(req[r].code, req[r].secret)
                      THEN "spend" ELSE "recover")
    /\ UNCHANGED <<row, codes, now, minted, used>>

\* The caller's continuation when verifySecondFactor returns true.
Passed(r) ==
    /\ IF req[r].op = "login" THEN ToIssue(r, TRUE) ELSE Goto(r, "delete")
    /\ used' = used \cup {[code |-> req[r].code, row |-> row.secret]}

\* Variant: the step of the last accepted code is accepted again.
MarkTOTPStepReplayed(r) ==
    /\ req[r].pc = "spend" /\ req[r].op # "confirm"
    /\ row.confirmed /\ row.last <= req[r].code.n
    /\ row' = [row EXCEPT !.last = req[r].code.n]
    /\ Passed(r)
    /\ UNCHANGED <<codes, now, minted>>

\* UPDATE ... SET last_used_step = $2 WHERE confirmed AND last_used_step < $2.
MarkTOTPStepUsed(r) ==
    /\ req[r].pc = "spend" /\ req[r].op # "confirm"
    /\ \/ /\ row.confirmed /\ row.last < req[r].code.n
          /\ row' = [row EXCEPT !.last = req[r].code.n]
          /\ Passed(r)
       \/ /\ ~(row.confirmed /\ row.last < req[r].code.n)
          /\ Finish(r) /\ UNCHANGED <<row, used>>
    /\ UNCHANGED <<codes, now, minted>>

\* Variant: the code is looked up but not marked used.
RecoveryCodeKept(r) ==
    /\ req[r].pc = "recover"
    /\ req[r].code \in codes
    /\ Passed(r)
    /\ UNCHANGED <<row, codes, now, minted>>

\* A code that a running DeleteTOTP has deleted is locked until that commits.
Locked(code) == \E q \in Reqs : req[q].pc = "deleteRow" /\ req[q].secret = code.secret

\* UPDATE ... SET used_at = now() WHERE code_hash = $2 AND used_at IS NULL.
UseRecoveryCode(r) ==
    /\ req[r].pc = "recover"
    /\ \/ /\ req[r].code \in codes /\ ~Locked(req[r].code)
          /\ codes' = codes \ {req[r].code}
          /\ Passed(r)
       \/ /\ req[r].code \notin codes
          /\ Finish(r) /\ UNCHANGED <<codes, used>>
    /\ UNCHANGED <<row, now, minted>>

\* issueSession: method "password" or, once passed, "password+totp".  The row
\* it inserts into sessions is not part of this module's state.
IssueSession(r) ==
    /\ req[r].pc = "issue"
    /\ Finish(r)
    /\ UNCHANGED <<row, codes, now, minted, used>>

\* The first statement of DeleteTOTP sees and locks the codes committed by now;
\* nobody sees them gone before the commit.  They are of one enrollment.
DeleteTOTPCodes(r) ==
    /\ req[r].pc = "delete"
    /\ \E s \in SecretOrNone :
         /\ IF codes = {} THEN s = NoSecret ELSE \E c \in codes : c.secret = s
         /\ req' = [req EXCEPT ![r].pc = "deleteRow", ![r].secret = s]
    /\ UNCHANGED <<row, codes, now, minted, used>>

\* The second one deletes the row, whichever secret it holds by now, and the
\* transaction commits.  An enrollment that committed in between, or that the
\* first statement waited for, leaves its recovery codes behind.
DeleteTOTP(r) ==
    /\ req[r].pc = "deleteRow"
    /\ row' = NoRow
    /\ codes' = {c \in codes : c.secret # req[r].secret}
    /\ req' = [q \in Reqs |-> IF q = r \/ req[q] = Idle
                               THEN Idle
                               ELSE [req[q] EXCEPT !.off = @ \/ req[q].op = "login"]]
    /\ UNCHANGED <<now, minted, used>>

\* Any store call may fail, DecryptSecret may, or the client may go away and
\* cancel its context: the handler returns, and a transaction of it is rolled
\* back (also as the victim of a deadlock between the two transactions).  A
\* statement that took effect although its answer was lost is that step followed
\* by this one.
StoreError(r) ==
    /\ req[r].pc # "idle"
    /\ Finish(r)
    /\ UNCHANGED <<row, codes, now, minted, used>>

Tick ==
    /\ now < MaxStep
    /\ now' = now + 1
    /\ UNCHANGED <<row, codes, minted, req, used>>

Next ==
    \/ Tick
    \/ \E r \in Reqs :
         \/ Login(r) \/ TOTPEnroll(r) \/ TOTPConfirm(r) \/ TOTPDisable(r)
         \/ StartTOTPEnrollment(r)
         \/ LoadPending(r) \/ MatchFirstCode(r) \/ ConfirmTOTP(r)
         \/ TotpEnabled(r) \/ LoadConfirmed(r) \/ MatchCode(r)
         \/ MarkTOTPStepUsed(r) \/ UseRecoveryCode(r)
         \/ IssueSession(r) \/ DeleteTOTPCodes(r) \/ DeleteTOTP(r)
         \/ StoreError(r)

Spec == Init /\ [][Next]_vars

-----------------------------------------------------------------------------
(* Properties.                                                             *)

\* Login issues a session on the password alone only if the second factor was
\* inactive at some moment of that very request: no interleaving with enroll,
\* confirm and disable, and no store failure, skips an active factor
\* (Login, handlers.go:264-288).
SessionNeedsSecondFactor ==
    \A r \in Reqs : req[r].pc = "issue" /\ ~req[r].passed => req[r].off

\* The unused recovery codes are those of one enrollment, and when a secret is
\* enrolled they are its own: a code handed out with another secret never counts
\* for this one, however enrollments and disables interleave, and even though a
\* disable may leave codes behind (StartTOTPEnrollment, DeleteTOTP).
RecoveryCodesMatchRow ==
    /\ \A c, d \in codes : c.secret = d.secret
    /\ row # NoRow => \A c \in codes : c.secret = row.secret

\* The last accepted step is never more than one period ahead of the clock, so
\* an owner whose codes were all spent is accepted again two periods later;
\* this holds for a confirmation that raced with a new enrollment as well
\* (MatchTOTPStep's skew, stored by ConfirmTOTP and MarkTOTPStepUsed).
LastStepNotAhead == row.last <= now + 1

\* This step is the store accepting the code of request r.
Accepts(r) ==
    /\ req[r].pc \in {"spend", "recover"}
    /\ req'[r].pc \in {"issue", "delete"}

\* While one secret is enrolled, no time step is accepted twice, the one that
\* confirmed it included, whatever requests race (MarkTOTPStepUsed).
StepSpentOnce ==
    [][\A r \in Reqs : Accepts(r) /\ req[r].pc = "spend" =>
         ~\E u \in used : /\ u.row = row.secret
                          /\ u.code.kind = "totp"
                          /\ u.code.n = req[r].code.n]_vars

\* A recovery code is accepted at most once in its life, also across
\* re-enrollments and concurrent requests (UseRecoveryCode).
RecoveryCodeSpentOnce ==
    [][\A r \in Reqs : Accepts(r) /\ req[r].pc = "recover" =>
         ~\E u \in used : u.code = req[r].code]_vars

\* An active factor goes away, or changes its secret, only by the last step of
\* a TOTPDisable whose code the store accepted (handlers.go:626-629: a hijacked
\* session cannot quietly swap or strip it).
ActiveFactorOnlyRemovedByCode ==
    [][row.confirmed /\ ~(row'.confirmed /\ row'.secret = row.secret) =>
         \E r \in Reqs : /\ At(r, "disable", "deleteRow")
                         /\ \E u \in used : u.code = req[r].code]_vars

\* A confirmed secret has been confirmed with one of its own codes (what
\* "stored unconfirmed until the user proves possession" asks of TOTPConfirm).
ConfirmProvesPossession ==
    row.confirmed => \E u \in used : u.row = row.secret /\ u.code.secret = row.secret

\* No code is ever accepted twice (what "every code is single-use" asks of
\* verifySecondFactor).
CodeSpentOnce ==
    [][\A r \in Reqs : Accepts(r) => ~\E u \in used : u.code = req[r].code]_vars
=============================================================================
