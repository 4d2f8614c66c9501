----------------------------- MODULE Ceremonies -----------------------------
(***************************************************************************)
(* Accounts, passkeys and the WebAuthn ceremonies between them: Signup,    *)
(* PasskeySignup*, PasskeyLogin* and PasskeyRegister* of                   *)
(* internal/auth/handlers.go, the statements of internal/store/store.go    *)
(* they call, and the janitor of internal/maintenance.                     *)
(*                                                                         *)
(* A ceremony is begun by one request and finished by another, which names *)
(* the flow row the first one saved.  One step is one store call (a SQL    *)
(* statement, or a transaction of inTx); any other request may run between *)
(* two of them.  Flow and account ids are random in the code and numbered  *)
(* here.  Usernames are those normalizeUsername returns.                   *)
(***************************************************************************)
EXTENDS Integers, RPProvider

CONSTANTS
    Reqs,        \* request slots
    Names,       \* normalized usernames
    Home,        \* bound: the origin of the browser that acts for a name
    NoName,
    Creds,       \* credential ids authenticators come up with
    NoCred,
    FlowTTL,     \* in ticks
    Skew,        \* how far the database's clock is ahead of the API's, in ticks
    MaxIds       \* bound: flows begun and accounts created, together

ASSUME CeremoniesAssumption ==
    /\ NoName \notin Names /\ NoCred \notin Creds
    /\ FlowTTL \in Nat /\ Skew \in Int /\ MaxIds \in Nat
    /\ DOMAIN Home = Names

VARIABLES
    users,       \* rows of users, with what they were created with
    passkeys,    \* webauthn_credentials: the owner of a credential, or 0
    flows,       \* webauthn_flows
    minted,      \* ids handed out so far
    byOrigin,    \* the cache of the relying-party provider
    req,
    consumed     \* history: flows a finish request has taken

vars == <<users, passkeys, flows, minted, byOrigin, req, consumed>>

-----------------------------------------------------------------------------
Id == 0 .. MaxIds      \* 0: none
User == [id : Id, name : Names, password : BOOLEAN]
Origins == {NoHeader, StaticDefault, Lower(StaticDefault)} \cup {Lower(Home[n]) : n \in Names}
RPs  == {Static} \cup {DerivedRP(o) : o \in Origins}
NoRP == <<>>
NoOrigin == <<>>
Flow == [id : Id, kind : {"register", "login", "signup"},
         user : Id,               \* the account; of a signup, the candidate's id
         name : Names \cup {NoName},
         origin : Origins,        \* Origin of the envelope
         left : Nat]              \* ticks until expires_at <= now()
Ops  == {"signup", "signupBegin", "signupFinish", "loginBegin", "loginFinish",
         "registerBegin", "registerFinish"}
Request == [op : Ops \cup {"none"},
            pc : {"idle", "check", "load", "save", "consume", "verify", "create",
                  "add", "issue"},
            name : Names \cup {NoName}, user : Id, flow : Id,
            cred : Creds \cup {NoCred},
            origin : Origins \cup {NoOrigin}, rp : RPs \cup {NoRP}]
                                      \* until the library is done with them

TypeOK ==
    /\ users \subseteq User
    /\ passkeys \in [Creds -> Id]
    /\ flows \subseteq Flow
    /\ minted \in Id
    /\ DOMAIN byOrigin \subseteq Origins /\ Cardinality(DOMAIN byOrigin) <= MaxDerived
    /\ req \in [Reqs -> Request]
    /\ consumed \subseteq Id

Idle == [op |-> "none", pc |-> "idle", name |-> NoName, user |-> 0, flow |-> 0,
         cred |-> NoCred, origin |-> NoOrigin, rp |-> NoRP]

Init ==
    /\ users = {} /\ passkeys = [c \in Creds |-> 0]
    /\ flows = {} /\ minted = 0 /\ byOrigin = <<>>
    /\ req = [r \in Reqs |-> Idle]
    /\ consumed = {}

Taken(name)  == \E u \in users : u.name = name
Registered(u) == {c \in Creds : passkeys[c] = u}
Finish(r)    == req' = [req EXCEPT ![r] = Idle]
Goto(r, pc)  == req' = [req EXCEPT ![r].pc = pc]
At(r, op, pc) == req[r].op = op /\ req[r].pc = pc

-----------------------------------------------------------------------------
(* Requests arriving.  A finish names a flow that was begun.               *)

Arrive(r, new) ==
    /\ req[r] = Idle
    /\ req' = [req EXCEPT ![r] = new]
    /\ UNCHANGED <<users, passkeys, flows, minted, consumed>>

\* ForRequest comes first; an origin that is not trusted ends the request there.
ArriveFor(r, name, new) ==
    LET found == ForOrigin(byOrigin, Home[name])
    IN  /\ found.ok /\ byOrigin' = found.cache
        /\ Arrive(r, [new EXCEPT !.origin = found.origin, !.rp = found.rp])

Signup(r, name) ==
    /\ Arrive(r, [Idle EXCEPT !.op = "signup", !.pc = "check", !.name = name])
    /\ UNCHANGED byOrigin

PasskeySignupBegin(r, name) ==
    /\ Arrive(r, [Idle EXCEPT !.op = "signupBegin", !.pc = "check", !.name = name])
    /\ UNCHANGED byOrigin

PasskeyLoginBegin(r, name) ==
    ArriveFor(r, name, [Idle EXCEPT !.op = "loginBegin", !.pc = "load", !.name = name])

\* RequireAuth has loaded the account of the session.
PasskeyRegisterBegin(r) ==
    \E u \in users :
        ArriveFor(r, u.name,
                  [Idle EXCEPT !.op = "registerBegin", !.pc = "save", !.user = u.id])

PasskeySignupFinish(r, f) ==
    /\ Arrive(r, [Idle EXCEPT !.op = "signupFinish", !.pc = "consume", !.flow = f])
    /\ UNCHANGED byOrigin

PasskeyLoginFinish(r, f) ==
    /\ Arrive(r, [Idle EXCEPT !.op = "loginFinish", !.pc = "consume", !.flow = f])
    /\ UNCHANGED byOrigin

PasskeyRegisterFinish(r, f) ==
    /\ \E u \in users :
         Arrive(r, [Idle EXCEPT !.op = "registerFinish", !.pc = "consume",
                                !.user = u.id, !.flow = f])
    /\ UNCHANGED byOrigin

-----------------------------------------------------------------------------
(* Beginning a ceremony.                                                   *)

\* UsernameExists, for both kinds of signup; then ForRequest, for the one with a
\* passkey.
UsernameExists(r) ==
    LET found == ForOrigin(byOrigin, Home[req[r].name])
    IN  /\ req[r].pc = "check"
        /\ \/ /\ Taken(req[r].name) \/ (req[r].op = "signupBegin" /\ ~found.ok)
              /\ Finish(r) /\ UNCHANGED byOrigin
           \/ /\ ~Taken(req[r].name) /\ req[r].op = "signup"
              /\ Goto(r, "create") /\ UNCHANGED byOrigin
           \/ /\ ~Taken(req[r].name) /\ req[r].op = "signupBegin" /\ found.ok
              /\ req' = [req EXCEPT ![r].pc = "save", ![r].origin = found.origin,
                                    ![r].rp = found.rp]
              /\ byOrigin' = found.cache
        /\ UNCHANGED <<users, passkeys, flows, minted, consumed>>

\* GetUserByUsername and the account's credentials, of which there must be some.
LoadByName(r) ==
    /\ At(r, "loginBegin", "load")
    /\ \/ \E u \in users :
            /\ u.name = req[r].name /\ Registered(u.id) # {}
            /\ req' = [req EXCEPT ![r].pc = "save", ![r].user = u.id]
       \/ /\ \A u \in users : u.name = req[r].name => Registered(u.id) = {}
          /\ Finish(r)
    /\ UNCHANGED <<users, passkeys, flows, minted, byOrigin, consumed>>

\* saveFlow: expires_at is the API's clock plus FlowTTL and is compared with the
\* database's.  A passkey signup mints the id of its candidate account.
SaveFlow(r) ==
    /\ req[r].pc = "save" /\ minted < MaxIds
    /\ minted' = minted + 1
    /\ flows' = flows \cup
         {[id |-> minted + 1, name |-> req[r].name, origin |-> req[r].origin,
           left |-> IF FlowTTL > Skew THEN FlowTTL - Skew ELSE 0,
           kind |-> CASE req[r].op = "signupBegin" -> "signup"
                      [] req[r].op = "loginBegin" -> "login"
                      [] OTHER -> "register",
           user |-> IF req[r].op = "signupBegin" THEN minted + 1 ELSE req[r].user]}
    /\ Finish(r)
    /\ UNCHANGED <<users, passkeys, byOrigin, consumed>>

-----------------------------------------------------------------------------
(* Finishing one.                                                          *)

FlowKind(op) == CASE op = "signupFinish" -> "signup"
                  [] op = "loginFinish"  -> "login"
                  [] OTHER               -> "register"

Consumable(r) ==
    {f \in flows : f.id = req[r].flow /\ f.kind = FlowKind(req[r].op) /\ f.left > 0}

\* What the handler goes on with: the relying party of the origin the flow was
\* begun at.  A flow of another account ends a registration.
Take(r, f) ==
    LET found == ForOrigin(byOrigin, f.origin)
    IN  /\ consumed' = consumed \cup {f.id}
        /\ byOrigin' = found.cache
        /\ IF ~found.ok \/ (req[r].op = "registerFinish" /\ f.user # req[r].user)
             THEN Finish(r)
             ELSE req' = [req EXCEPT ![r].pc = "verify", ![r].user = f.user,
                                     ![r].name = f.name, ![r].origin = f.origin,
                                     ![r].rp = found.rp]

\* Variant: the flow is read, and left for the janitor to delete.
ConsumeFlowBySelect(r) ==
    /\ req[r].pc = "consume"
    /\ \E f \in Consumable(r) : Take(r, f)
    /\ UNCHANGED <<users, passkeys, flows, minted>>

\* DELETE ... WHERE id, kind and expires_at > now() RETURNING.
ConsumeFlow(r) ==
    /\ req[r].pc = "consume"
    /\ \/ \E f \in Consumable(r) : Take(r, f) /\ flows' = flows \ {f}
       \/ Consumable(r) = {} /\ Finish(r) /\ UNCHANGED <<flows, byOrigin, consumed>>
    /\ UNCHANGED <<users, passkeys, minted>>

\* The account's credentials are loaded and the library reads the authenticator's
\* response, which speaks for c: FinishRegistration takes a new credential,
\* FinishLogin one of those loaded; NoCred is a response it rejects (another
\* challenge or relying party, a bad signature).  UpdateWebAuthnCredential, which
\* follows a login, decides nothing.
Verify(r, c) ==
    LET GoOn(pc) == req' = [req EXCEPT ![r].pc = pc, ![r].cred = c,
                                       ![r].origin = NoOrigin, ![r].rp = NoRP]
    IN  /\ req[r].pc = "verify"
        /\ CASE c = NoCred -> Finish(r)
             [] c # NoCred /\ req[r].op = "signupFinish" -> GoOn("create")
             [] c # NoCred /\ req[r].op = "registerFinish" -> GoOn("add")
             [] c # NoCred /\ req[r].op = "loginFinish" ->
                  IF c \in Registered(req[r].user) THEN GoOn("issue") ELSE Finish(r)
        /\ UNCHANGED <<users, passkeys, flows, minted, byOrigin, consumed>>

\* AddWebAuthnCredential: credential_id is unique over all accounts.
AddWebAuthnCredential(r) ==
    /\ req[r].pc = "add"
    /\ \/ /\ passkeys[req[r].cred] = 0
          /\ passkeys' = [passkeys EXCEPT ![req[r].cred] = req[r].user]
       \/ passkeys[req[r].cred] # 0 /\ UNCHANGED passkeys
    /\ Finish(r)
    /\ UNCHANGED <<users, flows, minted, byOrigin, consumed>>

\* Variant: the password row is written by a statement of its own, which fails.
CreateUserThenPassword(r) ==
    /\ At(r, "signup", "create")
    /\ minted < MaxIds /\ ~Taken(req[r].name)
    /\ users' = users \cup {[id |-> minted + 1, name |-> req[r].name, password |-> FALSE]}
    /\ minted' = minted + 1
    /\ Finish(r)
    /\ UNCHANGED <<passkeys, flows, byOrigin, consumed>>

\* One transaction: the users row, under the unique index on the name, the role
\* and the password.
CreateUserWithPassword(r) ==
    /\ At(r, "signup", "create")
    /\ \/ /\ ~Taken(req[r].name) /\ minted < MaxIds
          /\ users' = users \cup {[id |-> minted + 1, name |-> req[r].name, password |-> TRUE]}
          /\ minted' = minted + 1
          /\ req' = [req EXCEPT ![r].pc = "issue", ![r].user = minted + 1]
       \/ Taken(req[r].name) /\ Finish(r) /\ UNCHANGED <<users, minted>>
    /\ UNCHANGED <<passkeys, flows, byOrigin, consumed>>

\* Variant: a conflict on the name is taken for a retry of the same signup.
CreateOrLoadUserWithPasskey(r) ==
    /\ At(r, "signupFinish", "create")
    /\ \/ /\ ~Taken(req[r].name) /\ passkeys[req[r].cred] = 0
          /\ users' = users \cup {[id |-> req[r].user, name |-> req[r].name, password |-> FALSE]}
          /\ passkeys' = [passkeys EXCEPT ![req[r].cred] = req[r].user]
          /\ Goto(r, "issue")
       \/ /\ \E u \in users : u.name = req[r].name
                               /\ req' = [req EXCEPT ![r].pc = "issue", ![r].user = u.id]
          /\ UNCHANGED <<users, passkeys>>
    /\ UNCHANGED <<flows, minted, byOrigin, consumed>>

\* Likewise, with the candidate's id and the passkey instead of a password.
CreateUserWithPasskey(r) ==
    /\ At(r, "signupFinish", "create")
    /\ \/ /\ ~Taken(req[r].name) /\ passkeys[req[r].cred] = 0
          /\ users' = users \cup {[id |-> req[r].user, name |-> req[r].name, password |-> FALSE]}
          /\ passkeys' = [passkeys EXCEPT ![req[r].cred] = req[r].user]
          /\ Goto(r, "issue")
       \/ /\ Taken(req[r].name) \/ passkeys[req[r].cred] # 0
          /\ Finish(r) /\ UNCHANGED <<users, passkeys>>
    /\ UNCHANGED <<flows, minted, byOrigin, consumed>>

\* issueSession: the row it inserts into sessions is not part of this module's state.
IssueSession(r) ==
    /\ req[r].pc = "issue"
    /\ Finish(r)
    /\ UNCHANGED <<users, passkeys, flows, minted, byOrigin, consumed>>

\* A store call fails, or the client goes away: the handler returns.
StoreError(r) ==
    /\ req[r] # Idle
    /\ Finish(r)
    /\ UNCHANGED <<users, passkeys, flows, minted, byOrigin, consumed>>

\* The API stops and starts again: its requests and its cache are gone.
Restart ==
    /\ req' = [r \in Reqs |-> Idle]
    /\ byOrigin' = <<>>
    /\ UNCHANGED <<users, passkeys, flows, minted, consumed>>

-----------------------------------------------------------------------------
(* Time and the janitor.                                                   *)

Tick ==
    /\ flows' = {[f EXCEPT !.left = IF @ > 0 THEN @ - 1 ELSE 0] : f \in flows}
    /\ UNCHANGED <<users, passkeys, minted, byOrigin, req, consumed>>

\* RunOnce: DELETE ... WHERE expires_at <= now(), when it does not fail.
DeleteExpiredFlows ==
    /\ flows' = {f \in flows : f.left > 0}
    /\ UNCHANGED <<users, passkeys, minted, byOrigin, req, consumed>>

Next ==
    \/ Tick \/ DeleteExpiredFlows \/ Restart
    \/ \E r \in Reqs :
         \/ \E n \in Names :
              Signup(r, n) \/ PasskeySignupBegin(r, n) \/ PasskeyLoginBegin(r, n)
         \/ PasskeyRegisterBegin(r)
         \/ \E f \in 1 .. minted :
              \/ PasskeySignupFinish(r, f)
              \/ PasskeyLoginFinish(r, f)
              \/ PasskeyRegisterFinish(r, f)
         \/ UsernameExists(r) \/ LoadByName(r) \/ SaveFlow(r)
         \/ ConsumeFlow(r) \/ AddWebAuthnCredential(r)
         \/ \E c \in Creds \cup {NoCred} : Verify(r, c)
         \/ CreateUserWithPassword(r) \/ CreateUserWithPasskey(r)
         \/ IssueSession(r) \/ StoreError(r)

Spec == Init /\ [][Next]_vars

-----------------------------------------------------------------------------
(* Properties.                                                             *)

\* Every account can be signed in to: whatever fails or races, a users row comes
\* with a password or a passkey of its own, no name has two accounts, and no
\* passkey belongs to an account that does not exist (CreateUserWithPassword,
\* CreateUserWithPasskey: "either all three exist afterwards or none do").
AccountsAreWhole ==
    /\ \A u \in users : u.password \/ Registered(u.id) # {}
    /\ \A u, v \in users : u.id = v.id \/ u.name = v.name => u = v
    /\ \A c \in Creds : passkeys[c] # 0 => \E u \in users : u.id = passkeys[c]

\* A passkey login signs in only the account its flow was begun for, with a
\* passkey of that very account, and a signup only the account it has created
\* (PasskeyLoginFinish, Signup, PasskeySignupFinish).
SessionsAreEarned ==
    /\ \A r \in Reqs : At(r, "loginFinish", "issue") => passkeys[req[r].cred] = req[r].user
    /\ \A r \in Reqs : At(r, "signupFinish", "issue") => passkeys[req[r].cred] = req[r].user
    /\ \A r \in Reqs : req[r].pc = "issue" =>
         \E u \in users : u.id = req[r].user
                            /\ (req[r].op = "signup" => u.password /\ u.name = req[r].name)

\* Both halves of a ceremony speak for one relying party, the one of the origin
\* the browser was at when it began, although the cache was filled for others,
\* emptied when it was full, or lost in a restart in between (ForOrigin,
\* consumeFlow: "resolves the relying party pinned when it began").
CeremonyKeepsRP ==
    \A r \in Reqs : req[r].rp # NoRP =>
        LET o == Lower(req[r].origin)
        IN  req[r].rp = IF o \in StaticOrigins \cup {NoHeader} THEN Static ELSE DerivedRP(o)

\* A ceremony is finished at most once: two finish requests for one flow, a retry
\* or a copy, never both get past ConsumeFlow.  It is finished as what it was
\* begun as, and a registration only by the account that began it, whichever
\* other requests come with its id (consumeFlow, PasskeyRegisterFinish).
FlowConsumedOnce ==
    [][\A r \in Reqs : req[r].pc = "consume" /\ req'[r].pc = "verify" =>
         /\ req[r].flow \notin consumed
         /\ \E f \in flows :
              /\ f.id = req[r].flow /\ f.kind = FlowKind(req[r].op)
              /\ f.kind = "register" => f.user = req[r].user]_vars
=============================================================================
