-------------------------- MODULE CeremoniesProofs --------------------------
(***************************************************************************)
(* The ceremonies for any number of requests, names, credentials and       *)
(* trusted origins: accounts are whole, sessions are earned, a ceremony    *)
(* keeps its relying party and is finished at most once.                   *)
(*                                                                         *)
(* Uniqueness of accounts rests on who may still create one under the id   *)
(* a passkey signup was begun with: the flow while it is there, then the   *)
(* one request that has taken it, then nobody (FlowsKnow, CandidatesFresh).*)
(* The relying party rests on the cache: whatever is in it is what would   *)
(* be derived now (CacheIsDerived), so losing it changes nothing.          *)
(***************************************************************************)
EXTENDS Ceremonies, FiniteSetTheorems, TLAPS

RPOf(origin) ==
    LET o == Lower(origin)
    IN  IF o \in StaticOrigins \cup {NoHeader} THEN Static ELSE DerivedRP(o)

Known(i) == \E u \in users : u.id = i

CacheIsDerived(cache) == \A o \in DOMAIN cache : cache[o] = DerivedRP(o)

CacheBounded(cache) ==
    /\ DOMAIN cache \subseteq Origins /\ IsFiniteSet(DOMAIN cache)
    /\ Cardinality(DOMAIN cache) <= MaxDerived

\* A finish request that may still create an account under the flow's id.
Candidate(q) == q.op = "signupFinish" /\ q.pc \in {"verify", "create"}

\* A flow is its id's only one and not yet taken, and knows whom it is for.
FlowsKnow ==
    /\ \A f, g \in flows : f.id = g.id => f = g
    /\ \A f \in flows :
         /\ f.id \in 1 .. minted /\ f.id \notin consumed
         /\ f.kind = "signup" => f.user = f.id /\ f.name \in Names /\ ~Known(f.id)
         /\ f.kind # "signup" => Known(f.user)

CandidatesFresh ==
    /\ consumed \subseteq 1 .. minted
    /\ \A u \in users : u.id \in 1 .. minted
    /\ \A r \in Reqs : Candidate(req[r]) => req[r].user \in consumed /\ ~Known(req[r].user)
    /\ \A r, s \in Reqs : Candidate(req[r]) /\ Candidate(req[s])
                            /\ req[r].user = req[s].user => r = s

\* What a request knows from how far it has come.
RequestKnows(q) ==
    /\ q.op \in {"signup", "signupBegin"} => q.name \in Names
    /\ Candidate(q) => q.name \in Names
    /\ q.pc = "check" => q.op \in {"signup", "signupBegin"}
    /\ q.pc \in {"load", "save"} => q.origin \in Origins
    /\ q.pc = "save" => q.op \in {"signupBegin", "loginBegin", "registerBegin"}
    /\ q.pc \in {"consume", "verify"} => q.op \in {"signupFinish", "loginFinish", "registerFinish"}
    /\ q.pc = "add" => q.op = "registerFinish" /\ q.cred \in Creds
    /\ q.pc = "create" /\ q.op = "signupFinish" => q.cred \in Creds
    /\ q.op \in {"loginBegin", "registerBegin"} /\ q.pc = "save" => Known(q.user)
    /\ q.op = "registerFinish" \/ (q.op = "loginFinish" /\ q.pc \in {"verify", "issue"})
         => Known(q.user)
    /\ q.pc = "issue" /\ q.op \in {"loginFinish", "signupFinish"} =>
         q.cred \in Creds /\ passkeys[q.cred] = q.user /\ Known(q.user)
    /\ q.pc = "issue" =>
         \/ q.op \in {"loginFinish", "signupFinish"}
         \/ q.op = "signup" /\ \E u \in users : u.id = q.user /\ u.password /\ u.name = q.name
    /\ q.rp # NoRP => q.rp = RPOf(q.origin)

CeremonyInv ==
    /\ TypeOK
    /\ CacheIsDerived(byOrigin) /\ CacheBounded(byOrigin)
    /\ AccountsAreWhole
    /\ FlowsKnow
    /\ CandidatesFresh
    /\ \A r \in Reqs : RequestKnows(req[r])
-----------------------------------------------------------------------------
(* The provider.                                                           *)

LEMMA LowerTwice == \A o : Lower(Lower(o)) = Lower(o)
BY DEF Lower

LEMMA OriginsClosed ==
  ASSUME NEW h, h \in Origins \/ \E n \in Names : h = Home[n]
  PROVE  Lower(h) \in Origins
<1>1. Lower(NoHeader) = NoHeader
  <2> DEFINE R == [scheme : {""}, host : {<<>>}, port : {0}, upper : {FALSE}]
  <2>1. NoHeader \in R
    BY DEF NoHeader
  <2>2. \A o \in R : [o EXCEPT !.upper = FALSE] = o
    OBVIOUS
  <2>3. QED BY <2>1, <2>2 DEF Lower
<1>2. QED BY <1>1, LowerTwice DEF Origins

LEMMA CachedIsDerived ==
  ASSUME NEW cache, NEW o \in Origins, CacheIsDerived(cache), CacheBounded(cache)
  PROVE  /\ Cached(cache, o)[o] = DerivedRP(o)
         /\ CacheIsDerived(Cached(cache, o)) /\ CacheBounded(Cached(cache, o))
<1>1. CASE o \in DOMAIN cache
  BY <1>1 DEF Cached, CacheIsDerived
<1>2. CASE o \notin DOMAIN cache
  <2> DEFINE kept == IF Cardinality(DOMAIN cache) >= MaxDerived THEN {} ELSE DOMAIN cache
             new  == [x \in kept \cup {o} |-> IF x = o THEN DerivedRP(o) ELSE cache[x]]
  <2>1. Cached(cache, o) = new
    BY <1>2 DEF Cached
  <2>2. DOMAIN new = kept \cup {o} /\ new[o] = DerivedRP(o)
    OBVIOUS
  <2>3. CacheIsDerived(new)
    BY DEF CacheIsDerived
  <2>4. IsFiniteSet(kept) /\ kept \subseteq Origins /\ o \notin kept
    BY <1>2, FS_EmptySet DEF CacheBounded
  <2>5. Cardinality(kept) \in Nat /\ Cardinality(kept) < MaxDerived
    <3>1. Cardinality(DOMAIN cache) \in Nat /\ MaxDerived \in Nat \ {0}
      BY FS_CardinalityType, RPProviderAssumption DEF CacheBounded
    <3>2. Cardinality({}) = 0
      BY FS_EmptySet
    <3>3. QED BY <3>1, <3>2
  <2>6. /\ IsFiniteSet(kept \cup {o})
        /\ Cardinality(kept \cup {o}) = Cardinality(kept) + 1
    BY <2>4, FS_AddElement
  <2>7. CacheBounded(new)
    <3> HIDE DEF kept, new
    <3>1. Cardinality(kept \cup {o}) <= MaxDerived
      BY <2>5, <2>6, RPProviderAssumption
    <3>2. QED BY <2>2, <2>4, <2>6, <3>1 DEF CacheBounded
  <2>8. QED BY <2>1, <2>2, <2>3, <2>7
<1>3. QED BY <1>1, <1>2

\* Whatever the cache holds, ForOrigin gives the relying party of the origin a
\* flow keeps, and keeps the cache what it was: derived, and bounded.
LEMMA ForOriginResolves ==
  ASSUME NEW cache, NEW h, h \in Origins \/ \E n \in Names : h = Home[n],
         CacheIsDerived(cache), CacheBounded(cache)
  PROVE  LET found == ForOrigin(cache, h)
         IN  /\ CacheIsDerived(found.cache) /\ CacheBounded(found.cache)
             /\ found.ok => /\ found.origin \in Origins
                            /\ found.rp = RPOf(found.origin) /\ found.rp \in RPs
<1> DEFINE o == Lower(h)
<1>1. o \in Origins /\ Lower(o) = o
  BY OriginsClosed, LowerTwice
<1>2. CASE o = NoHeader
  <2>1. ForOrigin(cache, h) =
          [ok |-> TRUE, rp |-> Static, origin |-> StaticDefault, cache |-> cache]
    BY <1>2 DEF ForOrigin
  <2>2. Lower(StaticDefault) \in StaticOrigins
    BY RPProviderAssumption DEF StaticDefault, StaticOrigins
  <2>3. StaticDefault \in Origins /\ RPOf(StaticDefault) = Static /\ Static \in RPs
    BY <2>2 DEF RPOf, Origins, RPs
  <2>4. QED BY <2>1, <2>3
<1>3. CASE o # NoHeader /\ o \in StaticOrigins
  <2>1. ForOrigin(cache, h) =
          [ok |-> TRUE, rp |-> Static, origin |-> o, cache |-> cache]
    BY <1>3 DEF ForOrigin
  <2>2. RPOf(o) = Static /\ Static \in RPs
    BY <1>1, <1>3 DEF RPOf, RPs
  <2>3. QED BY <1>1, <2>1, <2>2
<1>4. CASE o # NoHeader /\ o \notin StaticOrigins /\ Trusted(o)
  <2>1. ForOrigin(cache, h) =
          [ok |-> TRUE, rp |-> Cached(cache, o)[o], origin |-> o,
           cache |-> Cached(cache, o)]
    BY <1>4 DEF ForOrigin
  <2>2. RPOf(o) = DerivedRP(o) /\ DerivedRP(o) \in RPs
    BY <1>1, <1>4 DEF RPOf, RPs
  <2>3. QED BY <1>1, <2>1, <2>2, CachedIsDerived
<1>5. CASE o # NoHeader /\ o \notin StaticOrigins /\ ~Trusted(o)
  <2>1. ForOrigin(cache, h) =
          [ok |-> FALSE, rp |-> Static, origin |-> o, cache |-> cache]
    BY <1>5 DEF ForOrigin
  <2>2. QED BY <2>1
<1>6. QED BY <1>2, <1>3, <1>4, <1>5

LEMMA FlowOriginKept ==
  ASSUME NEW cache, NEW h \in Origins, CacheIsDerived(cache), CacheBounded(cache),
         ForOrigin(cache, h).ok
  PROVE  ForOrigin(cache, h).rp = RPOf(h)
<1>1. Lower(Lower(h)) = Lower(h)
  BY LowerTwice
<1>2. CASE Lower(h) = NoHeader
  BY <1>2 DEF ForOrigin, RPOf
<1>3. CASE Lower(h) # NoHeader
  <2>1. ForOrigin(cache, h).origin = Lower(h)
    BY <1>3 DEF ForOrigin
  <2>2. QED BY <1>1, <2>1, ForOriginResolves DEF RPOf
<1>4. QED BY <1>2, <1>3

-----------------------------------------------------------------------------
(* Steps of one request that leave the tables alone.                       *)

LEMMA IdleKnows == Idle \in Request /\ RequestKnows(Idle) /\ ~Candidate(Idle)
<1>1. Idle \in Request
  BY CeremoniesAssumption DEF Idle, Request, Id, Ops
<1>2. QED BY <1>1, CeremoniesAssumption DEF Idle, RequestKnows, Candidate, NoRP, NoOrigin

LEMMA SlotKeeps ==
  ASSUME NEW r \in Reqs, NEW q \in Request, CeremonyInv, RequestKnows(q),
         Candidate(q) => Candidate(req[r]) /\ q.user = req[r].user,
         req' = [req EXCEPT ![r] = q],
         CacheIsDerived(byOrigin'), CacheBounded(byOrigin'),
         UNCHANGED <<users, passkeys, flows, minted, consumed>>
  PROVE  CeremonyInv'
<1>1. req' \in [Reqs -> Request] /\ \A s \in Reqs : req'[s] = IF s = r THEN q ELSE req[s]
  BY DEF CeremonyInv, TypeOK
<1>2. TypeOK'
  BY <1>1 DEF CeremonyInv, TypeOK, CacheBounded
<1>3. AccountsAreWhole'
  BY DEF CeremonyInv, AccountsAreWhole, Registered
<1>4. FlowsKnow'
  BY DEF CeremonyInv, FlowsKnow, Known
<1>5. CandidatesFresh'
  <2>1. \A s \in Reqs : Candidate(req'[s]) =>
          Candidate(req[s]) /\ req'[s].user = req[s].user
    BY <1>1
  <2>2. \A i : Known(i)' <=> Known(i)
    BY DEF Known
  <2>3. QED BY <2>1, <2>2 DEF CeremonyInv, CandidatesFresh
<1>6. \A s \in Reqs : RequestKnows(req[s])'
  <2>1. \A s \in Reqs : RequestKnows(req'[s])
    BY <1>1 DEF CeremonyInv
  <2>2. ASSUME NEW s \in Reqs
        PROVE  RequestKnows(req[s])' <=> RequestKnows(req'[s])
    BY DEF RequestKnows, Known, Candidate
  <2>3. QED BY <2>1, <2>2
<1>7. QED BY <1>2, <1>3, <1>4, <1>5, <1>6 DEF CeremonyInv

LEMMA FinishKeeps ==
  ASSUME NEW r \in Reqs, CeremonyInv, Finish(r),
         UNCHANGED <<users, passkeys, flows, minted, byOrigin, consumed>>
  PROVE  CeremonyInv'
BY SlotKeeps, IdleKnows DEF CeremonyInv, Finish

LEMMA ArriveKeeps ==
  ASSUME NEW r \in Reqs, NEW q \in Request, CeremonyInv, Arrive(r, q),
         RequestKnows(q), ~Candidate(q), UNCHANGED byOrigin
  PROVE  CeremonyInv'
BY SlotKeeps DEF CeremonyInv, Arrive

LEMMA ArriveForKeeps ==
  ASSUME NEW r \in Reqs, NEW n \in Names, NEW q \in Request, CeremonyInv,
         ArriveFor(r, n, q), q.pc \notin {"verify", "create"},
         \A o \in Origins : RequestKnows([q EXCEPT !.origin = o, !.rp = RPOf(o)])
  PROVE  CeremonyInv'
<1> DEFINE found == ForOrigin(byOrigin, Home[n])
           new   == [q EXCEPT !.origin = found.origin, !.rp = found.rp]
<1>1. /\ CacheIsDerived(found.cache) /\ CacheBounded(found.cache)
      /\ found.origin \in Origins /\ found.rp = RPOf(found.origin) /\ found.rp \in RPs
  BY ForOriginResolves DEF CeremonyInv, ArriveFor
<1>2. byOrigin' = found.cache /\ Arrive(r, new)
  BY DEF ArriveFor
<1> HIDE DEF found
<1>3. new \in Request /\ RequestKnows(new)
  BY <1>1 DEF Request
<1>4. ~Candidate(new)
  BY DEF Candidate, Request
<1> HIDE DEF new
<1>5. QED BY <1>1, <1>2, <1>3, <1>4, SlotKeeps DEF Arrive

LEMMA SignupKeeps ==
  ASSUME NEW r \in Reqs, NEW n \in Names, CeremonyInv,
         Signup(r, n) \/ PasskeySignupBegin(r, n)
  PROVE  CeremonyInv'
<1> DEFINE Q(op) == [Idle EXCEPT !.op = op, !.pc = "check", !.name = n]
<1>1. ASSUME NEW op \in {"signup", "signupBegin"}
      PROVE  Q(op) \in Request /\ RequestKnows(Q(op)) /\ ~Candidate(Q(op))
  <2>1. Q(op) \in Request
    BY IdleKnows DEF Idle, Request, Ops
  <2>2. Q(op).op = op /\ Q(op).pc = "check" /\ Q(op).name = n /\ Q(op).rp = NoRP
    BY DEF Idle
  <2> HIDE DEF Q
  <2>3. QED BY <2>1, <2>2 DEF RequestKnows, Candidate
<1>2. \E op \in {"signup", "signupBegin"} : Arrive(r, Q(op)) /\ UNCHANGED byOrigin
  BY DEF Signup, PasskeySignupBegin
<1> HIDE DEF Q
<1>3. QED BY <1>1, <1>2, ArriveKeeps

LEMMA LoginBeginKeeps ==
  ASSUME NEW r \in Reqs, NEW n \in Names, CeremonyInv, PasskeyLoginBegin(r, n)
  PROVE  CeremonyInv'
<1> DEFINE q == [Idle EXCEPT !.op = "loginBegin", !.pc = "load", !.name = n]
<1>1. q \in Request /\ q.pc = "load"
  BY IdleKnows DEF Idle, Request, Ops
<1>2. \A o \in Origins : RequestKnows([q EXCEPT !.origin = o, !.rp = RPOf(o)])
  BY DEF Idle, RequestKnows, Candidate
<1>3. ArriveFor(r, n, q)
  BY DEF PasskeyLoginBegin
<1> HIDE DEF q
<1>4. QED BY <1>1, <1>2, <1>3, ArriveForKeeps

LEMMA RegisterBeginKeeps ==
  ASSUME NEW r \in Reqs, CeremonyInv, PasskeyRegisterBegin(r)
  PROVE  CeremonyInv'
<1>1. PICK u \in users :
        ArriveFor(r, u.name, [Idle EXCEPT !.op = "registerBegin", !.pc = "save", !.user = u.id])
  BY DEF PasskeyRegisterBegin
<1> DEFINE q == [Idle EXCEPT !.op = "registerBegin", !.pc = "save", !.user = u.id]
<1>2. u.id \in Id /\ u.name \in Names /\ Known(u.id)
  BY DEF CeremonyInv, TypeOK, User, Known
<1>3. q \in Request /\ q.pc = "save"
  BY <1>2, IdleKnows DEF Idle, Request, Ops
<1>4. \A o \in Origins : RequestKnows([q EXCEPT !.origin = o, !.rp = RPOf(o)])
  BY <1>2 DEF Idle, RequestKnows, Candidate
<1> HIDE DEF q
<1>5. ArriveFor(r, u.name, q)
  BY <1>1 DEF q
<1>6. QED BY <1>2, <1>3, <1>4, <1>5, ArriveForKeeps

LEMMA FinishRequestKeeps ==
  ASSUME NEW r \in Reqs, NEW f \in 1 .. minted, CeremonyInv,
         PasskeySignupFinish(r, f) \/ PasskeyLoginFinish(r, f) \/ PasskeyRegisterFinish(r, f)
  PROVE  CeremonyInv'
<1> DEFINE Q(op, u) == [Idle EXCEPT !.op = op, !.pc = "consume", !.user = u, !.flow = f]
<1>1. f \in Id /\ 0 \in Id
  BY CeremoniesAssumption DEF CeremonyInv, TypeOK, Id
<1>2. \A op \in {"signupFinish", "loginFinish", "registerFinish"}, u \in Id :
        Q(op, u) \in Request /\ ~Candidate(Q(op, u))
  BY <1>1, IdleKnows DEF Idle, Request, Ops, Candidate
<1>3. \A op \in {"signupFinish", "loginFinish"} : RequestKnows(Q(op, 0))
  BY DEF Idle, RequestKnows, Candidate
<1>4. \A u \in users : u.id \in Id /\ RequestKnows(Q("registerFinish", u.id))
  BY DEF CeremonyInv, TypeOK, User, Idle, RequestKnows, Candidate, Known
<1>5. ASSUME NEW op \in {"signupFinish", "loginFinish"},
             Arrive(r, [Idle EXCEPT !.op = op, !.pc = "consume", !.flow = f]),
             UNCHANGED byOrigin
      PROVE  CeremonyInv'
  <2> DEFINE q == [Idle EXCEPT !.op = op, !.pc = "consume", !.flow = f]
  <2>0. q \in Request /\ q.user = 0
    BY <1>1, IdleKnows DEF Idle, Request, Ops
  <2>1. q = Q(op, 0)
    <3> HIDE DEF q
    <3>1. [q EXCEPT !.user = 0] = q
      BY <2>0 DEF Request
    <3>2. Q(op, 0) = [q EXCEPT !.user = 0]
      BY DEF q, Idle
    <3>3. QED BY <3>1, <3>2
  <2> HIDE DEF Q
  <2>2. QED BY <1>1, <1>2, <1>3, <1>5, <2>1, ArriveKeeps
<1>6. CASE PasskeyRegisterFinish(r, f)
  <2>1. \E u \in users : Arrive(r, Q("registerFinish", u.id)) /\ UNCHANGED byOrigin
    BY <1>6 DEF PasskeyRegisterFinish
  <2> HIDE DEF Q
  <2>2. QED BY <1>2, <1>4, <2>1, ArriveKeeps
<1>7. QED BY <1>5, <1>6 DEF PasskeySignupFinish, PasskeyLoginFinish

LEMMA UsernameExistsKeeps ==
  ASSUME NEW r \in Reqs, CeremonyInv, UsernameExists(r)
  PROVE  CeremonyInv'
<1> DEFINE n     == req[r].name
           found == ForOrigin(byOrigin, Home[n])
<1>0. req[r] \in Request /\ RequestKnows(req[r]) /\ req[r].pc = "check"
  BY DEF CeremonyInv, TypeOK, UsernameExists
<1>1. n \in Names /\ req[r].op \in {"signup", "signupBegin"}
  BY <1>0 DEF RequestKnows
<1>2. CASE Finish(r) /\ UNCHANGED byOrigin
  BY <1>2, FinishKeeps DEF UsernameExists
<1>3. CASE req[r].op = "signup" /\ Goto(r, "create") /\ UNCHANGED byOrigin
  <2> DEFINE q == [req[r] EXCEPT !.pc = "create"]
  <2>1. q \in Request /\ RequestKnows(q) /\ ~Candidate(q)
    BY <1>0, <1>3 DEF Request, RequestKnows, Candidate
  <2>2. req' = [req EXCEPT ![r] = q]
    BY <1>3 DEF Goto, CeremonyInv, TypeOK
  <2>3. QED BY <1>3, <2>1, <2>2, SlotKeeps DEF CeremonyInv, UsernameExists
<1>4. CASE /\ req[r].op = "signupBegin" /\ found.ok
           /\ req' = [req EXCEPT ![r].pc = "save", ![r].origin = found.origin,
                                 ![r].rp = found.rp]
           /\ byOrigin' = found.cache
  <2>1. /\ CacheIsDerived(found.cache) /\ CacheBounded(found.cache)
        /\ found.origin \in Origins /\ found.rp = RPOf(found.origin) /\ found.rp \in RPs
    BY <1>1, <1>4, ForOriginResolves DEF CeremonyInv
  <2> HIDE DEF found
  <2> DEFINE q == [req[r] EXCEPT !.pc = "save", !.origin = found.origin, !.rp = found.rp]
  <2>2. q \in Request /\ RequestKnows(q) /\ ~Candidate(q)
    <3>1. /\ q.op = "signupBegin" /\ q.pc = "save" /\ q.name \in Names
          /\ q.origin = found.origin /\ q.rp = found.rp
      BY <1>0, <1>1, <1>4 DEF Request
    <3>2. q \in Request
      BY <1>0, <2>1 DEF Request
    <3> HIDE DEF q
    <3>3. QED BY <2>1, <3>1, <3>2 DEF RequestKnows, Candidate
  <2>3. req' = [req EXCEPT ![r] = q]
    BY <1>0, <1>4 DEF CeremonyInv, TypeOK
  <2> HIDE DEF q
  <2>4. QED BY <1>4, <2>1, <2>2, <2>3, SlotKeeps DEF UsernameExists
<1>5. QED BY <1>2, <1>3, <1>4 DEF UsernameExists

LEMMA LoadByNameKeeps ==
  ASSUME NEW r \in Reqs, CeremonyInv, LoadByName(r)
  PROVE  CeremonyInv'
<1>1. CASE Finish(r)
  BY <1>1, FinishKeeps DEF LoadByName
<1>2. ASSUME NEW u \in users,
             req' = [req EXCEPT ![r].pc = "save", ![r].user = u.id]
      PROVE  CeremonyInv'
  <2> DEFINE q == [req[r] EXCEPT !.pc = "save", !.user = u.id]
  <2>1. /\ req[r] \in Request /\ RequestKnows(req[r])
        /\ req[r].op = "loginBegin" /\ req[r].pc = "load"
    BY DEF CeremonyInv, TypeOK, LoadByName, At
  <2>2. u.id \in Id /\ Known(u.id)
    BY DEF CeremonyInv, TypeOK, User, Known
  <2>3. q \in Request /\ RequestKnows(q) /\ ~Candidate(q)
    <3>1. /\ q.op = "loginBegin" /\ q.pc = "save" /\ q.user = u.id
          /\ q.origin = req[r].origin /\ q.rp = req[r].rp
      BY <2>1 DEF Request
    <3>2. q \in Request
      BY <2>1, <2>2 DEF Request
    <3> HIDE DEF q
    <3>3. QED BY <2>1, <2>2, <3>1, <3>2 DEF RequestKnows, Candidate
  <2>4. req' = [req EXCEPT ![r] = q]
    BY <1>2, <2>1 DEF CeremonyInv, TypeOK
  <2> HIDE DEF q
  <2>5. QED BY <2>3, <2>4, SlotKeeps DEF CeremonyInv, LoadByName
<1>3. QED BY <1>1, <1>2 DEF LoadByName

LEMMA VerifyKeeps ==
  ASSUME NEW r \in Reqs, NEW c \in Creds \cup {NoCred}, CeremonyInv, Verify(r, c)
  PROVE  CeremonyInv'
<1> DEFINE Q(pc) == [req[r] EXCEPT !.pc = pc, !.cred = c, !.origin = NoOrigin, !.rp = NoRP]
<1>1. req[r] \in Request /\ RequestKnows(req[r]) /\ req[r].pc = "verify"
  BY DEF CeremonyInv, TypeOK, Verify
<1>2. \A pc \in {"create", "add", "issue"} :
        /\ Q(pc) \in Request
        /\ Q(pc).op = req[r].op /\ Q(pc).pc = pc /\ Q(pc).name = req[r].name
        /\ Q(pc).user = req[r].user /\ Q(pc).cred = c /\ Q(pc).rp = NoRP
  BY <1>1 DEF Request
<1>3. \/ Finish(r)
      \/ c \in Creds /\ \E pc \in {"create", "add", "issue"} :
           /\ req' = [req EXCEPT ![r].pc = pc, ![r].cred = c,
                                 ![r].origin = NoOrigin, ![r].rp = NoRP]
           /\ pc = "create" => req[r].op = "signupFinish"
           /\ pc = "add" => req[r].op = "registerFinish"
           /\ pc = "issue" => req[r].op = "loginFinish" /\ c \in Registered(req[r].user)
  <2>1. req[r].op \in {"signupFinish", "registerFinish", "loginFinish"}
    BY <1>1 DEF RequestKnows
  <2>2. CASE c = NoCred
    BY <2>2 DEF Verify
  <2>3. CASE c # NoCred /\ req[r].op = "signupFinish"
    BY <2>3 DEF Verify
  <2>4. CASE c # NoCred /\ req[r].op = "registerFinish"
    BY <2>4 DEF Verify
  <2>5. CASE c # NoCred /\ req[r].op = "loginFinish"
    BY <2>5 DEF Verify
  <2>6. QED BY <2>1, <2>2, <2>3, <2>4, <2>5
<1>4. CASE Finish(r)
  BY <1>4, FinishKeeps DEF Verify
<1>5. ASSUME NEW pc \in {"create", "add", "issue"}, c \in Creds,
             req' = [req EXCEPT ![r].pc = pc, ![r].cred = c,
                                ![r].origin = NoOrigin, ![r].rp = NoRP],
             pc = "create" => req[r].op = "signupFinish",
             pc = "add" => req[r].op = "registerFinish",
             pc = "issue" => req[r].op = "loginFinish" /\ c \in Registered(req[r].user)
      PROVE  CeremonyInv'
  <2>1. req' = [req EXCEPT ![r] = Q(pc)]
    BY <1>1, <1>5 DEF CeremonyInv, TypeOK
  <2> HIDE DEF Q
  <2>2. RequestKnows(Q(pc))
    BY <1>1, <1>2, <1>5 DEF RequestKnows, Candidate, Registered
  <2>3. Candidate(Q(pc)) => Candidate(req[r]) /\ Q(pc).user = req[r].user
    BY <1>1, <1>2, <1>5 DEF Candidate
  <2>4. QED BY <1>2, <2>1, <2>2, <2>3, SlotKeeps DEF CeremonyInv, Verify
<1>6. QED BY <1>3, <1>4, <1>5

-----------------------------------------------------------------------------
(* Steps that change the tables.  Accounts and the owner of a passkey stay,*)
(* so what the other requests know stays true.                             *)

LEMMA OthersKnow ==
  ASSUME NEW s \in Reqs, CeremonyInv, req'[s] = req[s],
         users \subseteq users',
         \A c \in Creds : passkeys[c] # 0 => passkeys'[c] = passkeys[c]
  PROVE  RequestKnows(req[s])'
<1>1. RequestKnows(req[s])
  BY DEF CeremonyInv
<1>2. \A i : Known(i) => Known(i)' /\ i # 0
  BY DEF CeremonyInv, CandidatesFresh, TypeOK, Id, Known
<1>3. QED BY <1>1, <1>2 DEF RequestKnows, Candidate, Known

LEMMA IdleSlotKnows ==
  ASSUME NEW s \in Reqs, req'[s] = Idle
  PROVE  RequestKnows(req[s])'
BY CeremoniesAssumption DEF RequestKnows, Candidate, Idle

LEMMA FinishFrees ==
  ASSUME NEW r \in Reqs, CeremonyInv, Finish(r)
  PROVE  /\ req' \in [Reqs -> Request]
         /\ req'[r] = Idle /\ \A s \in Reqs \ {r} : req'[s] = req[s]
         /\ \A s \in Reqs : Candidate(req'[s]) => s # r /\ req'[s] = req[s]
BY IdleKnows DEF Finish, CeremonyInv, TypeOK

LEMMA RestartKeeps == CeremonyInv /\ Restart => CeremonyInv'
<1> SUFFICES ASSUME CeremonyInv, Restart PROVE CeremonyInv'
  OBVIOUS
<1>1. \A r \in Reqs : req'[r] = Idle
  BY DEF Restart
<1>2. CacheIsDerived(byOrigin') /\ CacheBounded(byOrigin')
  <2>1. byOrigin' = <<>> /\ DOMAIN <<>> = {}
    BY DEF Restart
  <2>2. IsFiniteSet({}) /\ Cardinality({}) = 0 /\ 0 <= MaxDerived
    BY FS_EmptySet, RPProviderAssumption
  <2>3. DOMAIN byOrigin' = {}
    BY <2>1
  <2>4. QED BY <2>2, <2>3 DEF CacheIsDerived, CacheBounded
<1>3. TypeOK'
  BY <1>2, IdleKnows DEF CeremonyInv, TypeOK, Restart, CacheBounded
<1>4. AccountsAreWhole' /\ FlowsKnow'
  BY DEF CeremonyInv, Restart, AccountsAreWhole, Registered, FlowsKnow, Known
<1>5. CandidatesFresh'
  BY <1>1, IdleKnows DEF CeremonyInv, Restart, CandidatesFresh
<1>6. \A r \in Reqs : RequestKnows(req[r])'
  BY <1>1, IdleSlotKnows
<1>7. QED BY <1>2, <1>3, <1>4, <1>5, <1>6 DEF CeremonyInv

\* Flows that only age or go.
LEMMA FewerFlowsKeep ==
  ASSUME CeremonyInv, flows' \subseteq Flow,
         \A f \in flows' : \E g \in flows : f = [g EXCEPT !.left = f.left],
         \A f, g \in flows' : f.id = g.id => f.left = g.left,
         UNCHANGED <<users, passkeys, minted, byOrigin, req, consumed>>
  PROVE  CeremonyInv'
<1>1. TypeOK' /\ AccountsAreWhole' /\ CandidatesFresh'
  BY DEF CeremonyInv, TypeOK, AccountsAreWhole, Registered, CandidatesFresh, Known
<1>2. FlowsKnow'
  <2>1. \A f \in flows' : \E g \in flows :
          /\ f = [g EXCEPT !.left = f.left]
          /\ f.id = g.id /\ f.kind = g.kind /\ f.user = g.user /\ f.name = g.name
    BY DEF CeremonyInv, TypeOK, Flow
  <2>2. \A f, g \in flows' : f.id = g.id => f = g
    BY <2>1 DEF CeremonyInv, FlowsKnow
  <2>3. \A i : Known(i)' <=> Known(i)
    BY DEF Known
  <2>4. QED BY <2>1, <2>2, <2>3 DEF CeremonyInv, FlowsKnow
<1>3. \A s \in Reqs : RequestKnows(req[s])'
  BY OthersKnow
<1>4. QED BY <1>1, <1>2, <1>3 DEF CeremonyInv

LEMMA TickKeeps == CeremonyInv /\ Tick => CeremonyInv'
<1> SUFFICES ASSUME CeremonyInv, Tick PROVE CeremonyInv'
  OBVIOUS
<1> DEFINE Left(f) == IF f.left > 0 THEN f.left - 1 ELSE 0
<1>1. flows' = {[f EXCEPT !.left = Left(f)] : f \in flows}
  BY DEF Tick
<1>2. \A f \in flows : f \in Flow /\ Left(f) \in Nat
  BY DEF CeremonyInv, TypeOK, Flow
<1> HIDE DEF Left
<1>3. \A f \in flows : /\ [f EXCEPT !.left = Left(f)] \in Flow
                       /\ [f EXCEPT !.left = Left(f)].left = Left(f)
                       /\ [f EXCEPT !.left = Left(f)].id = f.id
  BY <1>2 DEF Flow
<1>4. /\ flows' \subseteq Flow
      /\ \A f \in flows' : \E g \in flows : f = [g EXCEPT !.left = f.left]
  BY <1>1, <1>3
<1>5. \A f, g \in flows' : f.id = g.id => f.left = g.left
  <2> TAKE f, g \in flows'
  <2>1. PICK a \in flows : f = [a EXCEPT !.left = Left(a)]
    BY <1>1
  <2>2. PICK b \in flows : g = [b EXCEPT !.left = Left(b)]
    BY <1>1
  <2>3. f.id = g.id => a = b
    BY <1>3, <2>1, <2>2 DEF CeremonyInv, FlowsKnow
  <2>4. QED BY <2>1, <2>2, <2>3
<1>6. QED BY <1>4, <1>5, FewerFlowsKeep DEF Tick

LEMMA DeleteExpiredFlowsKeeps == CeremonyInv /\ DeleteExpiredFlows => CeremonyInv'
<1> SUFFICES ASSUME CeremonyInv, DeleteExpiredFlows PROVE CeremonyInv'
  OBVIOUS
<1>1. flows' \subseteq flows /\ flows \subseteq Flow
  BY DEF DeleteExpiredFlows, CeremonyInv, TypeOK
<1>2. \A f \in flows' : f = [f EXCEPT !.left = f.left]
  BY <1>1 DEF Flow
<1>3. \A f, g \in flows' : f.id = g.id => f.left = g.left
  BY <1>1 DEF CeremonyInv, FlowsKnow
<1>4. \A f \in flows' : \E g \in flows : f = [g EXCEPT !.left = f.left]
  BY <1>1, <1>2
<1>5. QED BY <1>1, <1>3, <1>4, FewerFlowsKeep DEF DeleteExpiredFlows

LEMMA SaveFlowKeeps ==
  ASSUME NEW r \in Reqs, CeremonyInv, SaveFlow(r)
  PROVE  CeremonyInv'
<1> DEFINE q   == req[r]
           sig == q.op = "signupBegin"
           new == [id |-> minted + 1, name |-> q.name, origin |-> q.origin,
                   left |-> IF FlowTTL > Skew THEN FlowTTL - Skew ELSE 0,
                   kind |-> CASE q.op = "signupBegin" -> "signup"
                              [] q.op = "loginBegin" -> "login"
                              [] OTHER -> "register",
                   user |-> IF q.op = "signupBegin" THEN minted + 1 ELSE q.user]
<1>1. /\ q \in Request /\ RequestKnows(q) /\ q.pc = "save"
      /\ minted \in Id /\ minted + 1 \in Id /\ minted' = minted + 1
      /\ flows' = flows \cup {new}
  BY CeremoniesAssumption DEF CeremonyInv, TypeOK, SaveFlow, Id
<1>2. /\ q.origin \in Origins /\ (sig => q.name \in Names)
      /\ (~sig => Known(q.user) /\ q.op \in {"loginBegin", "registerBegin"})
  BY <1>1 DEF RequestKnows
<1>3. /\ new.id = minted + 1 /\ new.name = q.name
      /\ new.kind = "signup" <=> sig
      /\ new.user = IF sig THEN minted + 1 ELSE q.user
  OBVIOUS
<1>4. new \in Flow
  <2>1. new.left \in Nat
    BY CeremoniesAssumption
  <2>2. new.kind \in {"register", "login", "signup"}
    OBVIOUS
  <2>3. new.user \in Id /\ new.name \in Names \cup {NoName}
    BY <1>1 DEF Request
  <2>4. QED BY <1>1, <1>2, <2>1, <2>2, <2>3 DEF Flow
<1> HIDE DEF new
<1>5. /\ req' \in [Reqs -> Request]
      /\ req'[r] = Idle /\ \A s \in Reqs \ {r} : req'[s] = req[s]
      /\ \A s \in Reqs : Candidate(req'[s]) => s # r /\ req'[s] = req[s]
  BY FinishFrees DEF SaveFlow
<1>6. TypeOK'
  BY <1>1, <1>4, <1>5 DEF CeremonyInv, TypeOK, SaveFlow
<1>7. AccountsAreWhole'
  BY DEF CeremonyInv, AccountsAreWhole, Registered, SaveFlow
<1>8. \A i : Known(i)' <=> Known(i)
  BY DEF Known, SaveFlow
<1>9. minted \in Nat
  BY <1>1, CeremoniesAssumption DEF Id
<1>10. FlowsKnow'
  <2>1. ~Known(minted + 1) /\ minted + 1 \notin consumed
    BY <1>9 DEF CeremonyInv, CandidatesFresh, Known
  <2>2. \A f \in flows : f.id # new.id
    BY <1>3, <1>9 DEF CeremonyInv, FlowsKnow
  <2>3. \A f, g \in flows' : f.id = g.id => f = g
    BY <1>1, <2>2 DEF CeremonyInv, FlowsKnow
  <2>4. /\ new.id \in 1 .. minted' /\ new.id \notin consumed'
        /\ new.kind = "signup" => new.user = new.id /\ new.name \in Names /\ ~Known(new.id)
        /\ new.kind # "signup" => Known(new.user)
    BY <1>1, <1>2, <1>3, <1>9, <2>1 DEF SaveFlow
  <2>5. \A f \in flows :
          /\ f.id \in 1 .. minted' /\ f.id \notin consumed'
          /\ f.kind = "signup" => f.user = f.id /\ f.name \in Names /\ ~Known(f.id)
          /\ f.kind # "signup" => Known(f.user)
    BY <1>1, <1>9 DEF CeremonyInv, FlowsKnow, SaveFlow
  <2>6. QED BY <1>1, <1>8, <2>3, <2>4, <2>5 DEF FlowsKnow
<1>11. CandidatesFresh'
  BY <1>1, <1>5, <1>8, <1>9 DEF CeremonyInv, CandidatesFresh, SaveFlow
<1>12. \A s \in Reqs : RequestKnows(req[s])'
  BY <1>5, OthersKnow, IdleSlotKnows DEF SaveFlow
<1>13. QED
  BY <1>6, <1>7, <1>10, <1>11, <1>12 DEF CeremonyInv, SaveFlow

LEMMA ConsumeFlowKeeps ==
  ASSUME NEW r \in Reqs, CeremonyInv, ConsumeFlow(r)
  PROVE  CeremonyInv'
<1>1. CASE Finish(r) /\ UNCHANGED <<flows, byOrigin, consumed>>
  BY <1>1, FinishKeeps DEF ConsumeFlow
<1>2. ASSUME NEW f \in Consumable(r), Take(r, f), flows' = flows \ {f}
      PROVE  CeremonyInv'
  <2> DEFINE found == ForOrigin(byOrigin, f.origin)
             q     == [req[r] EXCEPT !.pc = "verify", !.user = f.user, !.name = f.name,
                                     !.origin = f.origin, !.rp = found.rp]
  <2>1. /\ f \in flows /\ f \in Flow /\ f.id = req[r].flow
        /\ f.kind = FlowKind(req[r].op)
        /\ req[r] \in Request /\ RequestKnows(req[r]) /\ req[r].pc = "consume"
    BY <1>2 DEF Consumable, ConsumeFlow, CeremonyInv, TypeOK
  <2>2. /\ f.id \in 1 .. minted /\ f.id \notin consumed /\ f.id \in Id
        /\ f.kind = "signup" => f.user = f.id /\ f.name \in Names /\ ~Known(f.id)
        /\ f.kind # "signup" => Known(f.user)
    BY <2>1 DEF CeremonyInv, FlowsKnow, Flow
  <2>3. /\ CacheIsDerived(found.cache) /\ CacheBounded(found.cache)
        /\ found.ok => found.rp \in RPs
    BY <2>1, ForOriginResolves DEF CeremonyInv, Flow
  <2>4. found.ok => found.rp = RPOf(f.origin)
    BY <2>1, FlowOriginKept DEF CeremonyInv, Flow
  <2>5. consumed' = consumed \cup {f.id} /\ byOrigin' = found.cache
    BY <1>2 DEF Take
  <2> HIDE DEF found
  <2>6. \/ Finish(r)
        \/ found.ok /\ req' = [req EXCEPT ![r] = q]
                    /\ (req[r].op = "registerFinish" => f.user = req[r].user)
    <3>1. [req EXCEPT ![r].pc = "verify", ![r].user = f.user, ![r].name = f.name,
                      ![r].origin = f.origin, ![r].rp = found.rp]
            = [req EXCEPT ![r] = q]
      BY <2>1 DEF CeremonyInv, TypeOK
    <3> HIDE DEF q
    <3>2. QED BY <1>2, <3>1 DEF Take, found
  <2>7. /\ q.op = req[r].op /\ q.pc = "verify" /\ q.user = f.user /\ q.name = f.name
        /\ q.origin = f.origin /\ q.rp = found.rp
    BY <2>1 DEF Request
  <2>8. found.ok => q \in Request
    BY <2>1, <2>3 DEF Request, Flow
  <2> HIDE DEF q
  <2>9. /\ req' \in [Reqs -> Request]
        /\ req'[r] = Idle \/ (req'[r] = q /\ found.ok)
        /\ \A s \in Reqs \ {r} : req'[s] = req[s]
    BY <2>6, <2>8, FinishFrees DEF CeremonyInv, TypeOK
  <2>10. TypeOK'
    BY <2>2, <2>3, <2>5, <2>9, <1>2 DEF CeremonyInv, TypeOK, CacheBounded, ConsumeFlow
  <2>11. AccountsAreWhole'
    BY DEF CeremonyInv, AccountsAreWhole, Registered, ConsumeFlow
  <2>12. \A i : Known(i)' <=> Known(i)
    BY DEF Known, ConsumeFlow
  <2>13. FlowsKnow'
    <3>1. \A g \in flows' : g \in flows /\ g.id # f.id
      BY <1>2, <2>1 DEF CeremonyInv, FlowsKnow
    <3>2. QED BY <2>5, <2>12, <3>1 DEF CeremonyInv, FlowsKnow, ConsumeFlow
  <2>14. CandidatesFresh'
    <3>1. Candidate(req'[r]) => req'[r].user = f.id /\ ~Known(f.id)
      <4>1. Candidate(req'[r]) => req'[r] = q
        BY <2>9, IdleKnows
      <4>2. Candidate(q) => f.kind = "signup"
        BY <2>1, <2>7 DEF Candidate, FlowKind
      <4>3. QED BY <2>2, <2>7, <4>1, <4>2
    <3>2. \A s \in Reqs \ {r} : Candidate(req'[s]) => Candidate(req[s]) /\ req'[s].user = req[s].user
      BY <2>9
    <3>3. QED
      BY <2>2, <2>5, <2>12, <3>1, <3>2 DEF CeremonyInv, CandidatesFresh, ConsumeFlow
  <2>15. ASSUME NEW s \in Reqs PROVE RequestKnows(req[s])'
    <3>1. CASE s # r
      BY <2>9, <3>1, OthersKnow DEF ConsumeFlow
    <3>2. CASE req'[s] = Idle
      BY <3>2, IdleSlotKnows
    <3>3. CASE s = r /\ req'[r] = q /\ found.ok
      <4>1. q.op \in {"signupFinish", "loginFinish", "registerFinish"}
        BY <2>1, <2>7 DEF RequestKnows
      <4>2. q.op # "signupFinish" => Known(q.user)
        BY <2>1, <2>2, <2>7, <4>1 DEF FlowKind
      <4>3. q.op = "signupFinish" => q.name \in Names
        BY <2>1, <2>2, <2>7 DEF FlowKind
      <4>4. RequestKnows(q)
        BY <2>3, <2>4, <2>7, <3>3, <4>1, <4>2, <4>3 DEF RequestKnows, Candidate
      <4>5. QED BY <3>3, <4>4, <2>12 DEF RequestKnows, Candidate, Known, ConsumeFlow
    <3>4. QED BY <2>9, <3>1, <3>2, <3>3
  <2>16. QED BY <2>3, <2>5, <2>10, <2>11, <2>13, <2>14, <2>15 DEF CeremonyInv
<1>3. QED BY <1>1, <1>2 DEF ConsumeFlow

LEMMA AddWebAuthnCredentialKeeps ==
  ASSUME NEW r \in Reqs, CeremonyInv, AddWebAuthnCredential(r)
  PROVE  CeremonyInv'
<1>1. CASE UNCHANGED passkeys
  BY <1>1, FinishKeeps DEF AddWebAuthnCredential
<1>2. CASE /\ passkeys[req[r].cred] = 0
           /\ passkeys' = [passkeys EXCEPT ![req[r].cred] = req[r].user]
  <2>1. /\ req[r] \in Request /\ RequestKnows(req[r]) /\ req[r].pc = "add"
        /\ req[r].cred \in Creds /\ Known(req[r].user) /\ req[r].user \in Id
    BY DEF CeremonyInv, TypeOK, AddWebAuthnCredential, RequestKnows, Request
  <2>2. /\ passkeys' \in [Creds -> Id]
        /\ \A c \in Creds : passkeys[c] # 0 => passkeys'[c] = passkeys[c]
        /\ \A c \in Creds : passkeys'[c] # passkeys[c] => passkeys'[c] = req[r].user
    BY <1>2, <2>1 DEF CeremonyInv, TypeOK
  <2>3. /\ req' \in [Reqs -> Request]
        /\ req'[r] = Idle /\ \A s \in Reqs \ {r} : req'[s] = req[s]
        /\ \A s \in Reqs : Candidate(req'[s]) => s # r /\ req'[s] = req[s]
    BY FinishFrees DEF AddWebAuthnCredential
  <2>4. TypeOK'
    BY <2>2, <2>3 DEF CeremonyInv, TypeOK, AddWebAuthnCredential
  <2>5. AccountsAreWhole'
    <3>1. \A u \in users : u.id # 0
      BY DEF CeremonyInv, CandidatesFresh
    <3>2. \A u \in users : Registered(u.id) \subseteq Registered(u.id)'
      BY <2>2, <3>1 DEF Registered
    <3>3. QED BY <2>1, <2>2, <3>2
             DEF CeremonyInv, AccountsAreWhole, Known, AddWebAuthnCredential
  <2>6. FlowsKnow' /\ CandidatesFresh'
    BY <2>3 DEF CeremonyInv, FlowsKnow, CandidatesFresh, Known, AddWebAuthnCredential
  <2>7. \A s \in Reqs : RequestKnows(req[s])'
    BY <2>2, <2>3, OthersKnow, IdleSlotKnows DEF AddWebAuthnCredential
  <2>8. QED BY <2>4, <2>5, <2>6, <2>7 DEF CeremonyInv, AddWebAuthnCredential
<1>3. QED BY <1>1, <1>2 DEF AddWebAuthnCredential

LEMMA CreateUserWithPasswordKeeps ==
  ASSUME NEW r \in Reqs, CeremonyInv, CreateUserWithPassword(r)
  PROVE  CeremonyInv'
<1>1. CASE Finish(r) /\ UNCHANGED <<users, minted>>
  BY <1>1, FinishKeeps DEF CreateUserWithPassword
<1>2. CASE /\ ~Taken(req[r].name) /\ minted < MaxIds
           /\ users' = users \cup {[id |-> minted + 1, name |-> req[r].name, password |-> TRUE]}
           /\ minted' = minted + 1
           /\ req' = [req EXCEPT ![r].pc = "issue", ![r].user = minted + 1]
  <2> DEFINE new == [id |-> minted + 1, name |-> req[r].name, password |-> TRUE]
             q   == [req[r] EXCEPT !.pc = "issue", !.user = minted + 1]
  <2>1. /\ req[r] \in Request /\ RequestKnows(req[r])
        /\ req[r].op = "signup" /\ req[r].pc = "create" /\ req[r].name \in Names
        /\ minted \in Nat /\ minted \in Id /\ minted + 1 \in Id
    BY <1>2, CeremoniesAssumption
       DEF CeremonyInv, TypeOK, CreateUserWithPassword, At, RequestKnows, Id
  <2>2. new \in User
    BY <2>1 DEF User
  <2>3. /\ q \in Request /\ q.op = "signup" /\ q.pc = "issue" /\ q.user = minted + 1
        /\ q.name = req[r].name /\ q.rp = req[r].rp /\ q.origin = req[r].origin
    BY <2>1 DEF Request
  <2>4. /\ req' = [req EXCEPT ![r] = q]
        /\ users' = users \cup {new} /\ new.id = minted + 1 /\ new.password
        /\ new.name = req[r].name
    BY <1>2, <2>1 DEF CeremonyInv, TypeOK
  <2> HIDE DEF new, q
  <2>5. /\ req' \in [Reqs -> Request]
        /\ req'[r] = q /\ \A s \in Reqs \ {r} : req'[s] = req[s]
        /\ \A s \in Reqs : Candidate(req'[s]) => s # r /\ req'[s] = req[s]
    BY <2>3, <2>4 DEF CeremonyInv, TypeOK, Candidate
  <2>6. TypeOK'
    BY <1>2, <2>1, <2>2, <2>4, <2>5 DEF CeremonyInv, TypeOK, CreateUserWithPassword
  <2>7. \A u \in users : u.id \in 1 .. minted /\ u.id # new.id /\ u.name # new.name
    BY <1>2, <2>1, <2>4 DEF CeremonyInv, CandidatesFresh, Taken
  <2>8. AccountsAreWhole'
    <3>1. \A u \in users' : u.password \/ Registered(u.id)' # {}
      BY <2>4 DEF CeremonyInv, AccountsAreWhole, Registered, CreateUserWithPassword
    <3>2. \A u, v \in users' : u.id = v.id \/ u.name = v.name => u = v
      BY <2>4, <2>7 DEF CeremonyInv, AccountsAreWhole
    <3>3. QED BY <2>4, <3>1, <3>2
             DEF CeremonyInv, AccountsAreWhole, CreateUserWithPassword
  <2>9. \A i : Known(i)' <=> Known(i) \/ i = minted + 1
    BY <2>4 DEF Known
  <2>10. FlowsKnow'
    BY <1>2, <2>1, <2>9 DEF CeremonyInv, FlowsKnow, CreateUserWithPassword
  <2>11. CandidatesFresh'
    <3>1. consumed' \subseteq 1 .. minted' /\ minted + 1 \notin consumed
      BY <1>2, <2>1 DEF CeremonyInv, CandidatesFresh, CreateUserWithPassword
    <3>2. \A u \in users' : u.id \in 1 .. minted'
      BY <1>2, <2>1, <2>4, <2>7
    <3>3. QED BY <2>5, <2>9, <3>1, <3>2
             DEF CeremonyInv, CandidatesFresh, CreateUserWithPassword
  <2>12. ASSUME NEW s \in Reqs PROVE RequestKnows(req[s])'
    <3>1. CASE s # r
      BY <2>4, <2>5, <3>1, OthersKnow DEF CreateUserWithPassword
    <3>2. CASE s = r
      <4>1. q.rp # NoRP => q.rp = RPOf(q.origin)
        BY <2>1, <2>3 DEF RequestKnows
      <4>2. \E u \in users' : u.id = q.user /\ u.password /\ u.name = q.name
        BY <2>3, <2>4
      <4>3. QED BY <2>1, <2>3, <2>5, <3>2, <4>1, <4>2 DEF RequestKnows, Candidate
    <3>3. QED BY <3>1, <3>2
  <2>13. QED
    BY <2>6, <2>8, <2>10, <2>11, <2>12 DEF CeremonyInv, CreateUserWithPassword
<1>3. QED BY <1>1, <1>2 DEF CreateUserWithPassword

LEMMA CreateUserWithPasskeyKeeps ==
  ASSUME NEW r \in Reqs, CeremonyInv, CreateUserWithPasskey(r)
  PROVE  CeremonyInv'
<1>1. CASE Finish(r) /\ UNCHANGED <<users, passkeys>>
  BY <1>1, FinishKeeps DEF CreateUserWithPasskey
<1>2. CASE /\ ~Taken(req[r].name) /\ passkeys[req[r].cred] = 0
           /\ users' = users \cup {[id |-> req[r].user, name |-> req[r].name, password |-> FALSE]}
           /\ passkeys' = [passkeys EXCEPT ![req[r].cred] = req[r].user]
           /\ Goto(r, "issue")
  <2> DEFINE new == [id |-> req[r].user, name |-> req[r].name, password |-> FALSE]
             q   == [req[r] EXCEPT !.pc = "issue"]
  <2>1. /\ req[r] \in Request /\ RequestKnows(req[r])
        /\ req[r].op = "signupFinish" /\ req[r].pc = "create"
    BY DEF CeremonyInv, TypeOK, CreateUserWithPasskey, At
  <2>2. /\ Candidate(req[r]) /\ req[r].name \in Names /\ req[r].cred \in Creds
        /\ req[r].user \in Id /\ req[r].user \in consumed /\ ~Known(req[r].user)
        /\ req[r].user \in 1 .. minted
    BY <2>1 DEF CeremonyInv, RequestKnows, Candidate, CandidatesFresh, Request
  <2>3. new \in User
    BY <2>2 DEF User
  <2>4. /\ q \in Request /\ q.op = "signupFinish" /\ q.pc = "issue"
        /\ q.user = req[r].user /\ q.cred = req[r].cred
        /\ q.rp = req[r].rp /\ q.origin = req[r].origin
    BY <2>1 DEF Request
  <2>5. /\ req' = [req EXCEPT ![r] = q]
        /\ users' = users \cup {new} /\ new.id = req[r].user /\ new.name = req[r].name
    BY <1>2, <2>1 DEF CeremonyInv, TypeOK, Goto
  <2> HIDE DEF new, q
  <2>6. /\ req' \in [Reqs -> Request]
        /\ req'[r] = q /\ \A s \in Reqs \ {r} : req'[s] = req[s]
        /\ \A s \in Reqs : Candidate(req'[s]) => s # r /\ req'[s] = req[s]
    BY <2>4, <2>5 DEF CeremonyInv, TypeOK, Candidate
  <2>7. /\ passkeys' \in [Creds -> Id] /\ passkeys'[req[r].cred] = req[r].user
        /\ \A c \in Creds : passkeys[c] # 0 => passkeys'[c] = passkeys[c]
        /\ \A c \in Creds : passkeys'[c] # passkeys[c] => passkeys'[c] = req[r].user
    BY <1>2, <2>2 DEF CeremonyInv, TypeOK
  <2>8. TypeOK'
    BY <2>3, <2>5, <2>6, <2>7 DEF CeremonyInv, TypeOK, CreateUserWithPasskey
  <2>9. \A u \in users : u.id # 0 /\ u.id # new.id /\ u.name # new.name
    BY <1>2, <2>2, <2>5 DEF CeremonyInv, CandidatesFresh, Known, Taken
  <2>10. \A i : Known(i)' <=> Known(i) \/ i = req[r].user
    BY <2>5 DEF Known
  <2>11. AccountsAreWhole'
    <3>1. \A u \in users : Registered(u.id) \subseteq Registered(u.id)'
      BY <2>7, <2>9 DEF Registered
    <3>2. \E c \in Creds : passkeys'[c] = new.id
      BY <2>2, <2>5, <2>7
    <3>3. ASSUME NEW u \in users' PROVE u.password \/ \E c \in Creds : passkeys'[c] = u.id
      <4>1. CASE u \in users
        BY <3>1, <4>1 DEF CeremonyInv, AccountsAreWhole, Registered
      <4>2. QED BY <2>5, <3>2, <4>1
    <3>4. \A u, v \in users' : u.id = v.id \/ u.name = v.name => u = v
      BY <2>5, <2>9 DEF CeremonyInv, AccountsAreWhole
    <3>5. \A c \in Creds : passkeys'[c] # 0 => \E u \in users' : u.id = passkeys'[c]
      BY <2>5, <2>7 DEF CeremonyInv, AccountsAreWhole
    <3>6. QED BY <3>3, <3>4, <3>5 DEF AccountsAreWhole, Registered
  <2>12. FlowsKnow'
    BY <2>2, <2>10 DEF CeremonyInv, FlowsKnow, CreateUserWithPasskey
  <2>13. CandidatesFresh'
    <3>1. \A u \in users' : u.id \in 1 .. minted
      BY <2>2, <2>5 DEF CeremonyInv, CandidatesFresh
    <3>2. \A s \in Reqs : Candidate(req'[s]) => Candidate(req[s]) /\ req[s].user # req[r].user
      BY <2>2, <2>6 DEF CeremonyInv, CandidatesFresh
    <3>3. QED BY <2>6, <2>10, <3>1, <3>2
             DEF CeremonyInv, CandidatesFresh, CreateUserWithPasskey
  <2>14. ASSUME NEW s \in Reqs PROVE RequestKnows(req[s])'
    <3>1. CASE s # r
      BY <2>5, <2>6, <2>7, <3>1, OthersKnow
    <3>2. CASE s = r
      <4>1. q.rp # NoRP => q.rp = RPOf(q.origin)
        BY <2>1, <2>4 DEF RequestKnows
      <4>2. passkeys'[q.cred] = q.user /\ q.cred \in Creds /\ \E u \in users' : u.id = q.user
        BY <2>2, <2>4, <2>5, <2>7
      <4>3. QED BY <2>4, <2>6, <3>2, <4>1, <4>2 DEF RequestKnows, Candidate, Known
    <3>3. QED BY <3>1, <3>2
  <2>15. QED
    BY <2>8, <2>11, <2>12, <2>13, <2>14 DEF CeremonyInv, CreateUserWithPasskey
<1>3. QED BY <1>1, <1>2 DEF CreateUserWithPasskey

-----------------------------------------------------------------------------
LEMMA CeremonyInvInit == Init => CeremonyInv
<1> SUFFICES ASSUME Init PROVE CeremonyInv
  OBVIOUS
<1>1. TypeOK /\ CacheIsDerived(byOrigin) /\ CacheBounded(byOrigin)
  <2>1. byOrigin = <<>> /\ DOMAIN <<>> = {}
    BY DEF Init
  <2>2. IsFiniteSet({}) /\ Cardinality({}) = 0 /\ 0 <= MaxDerived
    BY FS_EmptySet, RPProviderAssumption
  <2>3. DOMAIN byOrigin = {}
    BY <2>1
  <2>4. CacheIsDerived(byOrigin) /\ CacheBounded(byOrigin)
    BY <2>2, <2>3 DEF CacheIsDerived, CacheBounded
  <2>5. QED
    BY <2>4, IdleKnows, CeremoniesAssumption DEF Init, TypeOK, CacheBounded, Id
<1>2. AccountsAreWhole /\ FlowsKnow /\ CandidatesFresh
  BY IdleKnows DEF Init, AccountsAreWhole, FlowsKnow, CandidatesFresh
<1>3. \A r \in Reqs : RequestKnows(req[r])
  BY IdleKnows DEF Init
<1>4. QED BY <1>1, <1>2, <1>3 DEF CeremonyInv

LEMMA CeremonyInvStep == CeremonyInv /\ [Next]_vars => CeremonyInv'
<1> SUFFICES ASSUME CeremonyInv, [Next]_vars PROVE CeremonyInv'
  OBVIOUS
<1>1. CASE UNCHANGED vars
  <2>1. TypeOK' /\ CacheIsDerived(byOrigin') /\ CacheBounded(byOrigin')
    BY <1>1 DEF vars, CeremonyInv, TypeOK
  <2>2. AccountsAreWhole' /\ FlowsKnow' /\ CandidatesFresh'
    BY <1>1 DEF vars, CeremonyInv, AccountsAreWhole, Registered, FlowsKnow,
                CandidatesFresh, Known
  <2>3. \A s \in Reqs : RequestKnows(req[s])'
    BY <1>1, OthersKnow DEF vars
  <2>4. QED BY <2>1, <2>2, <2>3 DEF CeremonyInv
<1>2. CASE Tick \/ DeleteExpiredFlows \/ Restart
  BY <1>2, TickKeeps, DeleteExpiredFlowsKeeps, RestartKeeps
<1>3. ASSUME NEW r \in Reqs, NEW n \in Names,
             Signup(r, n) \/ PasskeySignupBegin(r, n) \/ PasskeyLoginBegin(r, n)
      PROVE  CeremonyInv'
  BY <1>3, SignupKeeps, LoginBeginKeeps
<1>4. ASSUME NEW r \in Reqs, NEW f \in 1 .. minted,
             PasskeySignupFinish(r, f) \/ PasskeyLoginFinish(r, f) \/ PasskeyRegisterFinish(r, f)
      PROVE  CeremonyInv'
  BY <1>4, FinishRequestKeeps
<1>5. ASSUME NEW r \in Reqs,
             PasskeyRegisterBegin(r) \/ UsernameExists(r) \/ LoadByName(r)
      PROVE  CeremonyInv'
  BY <1>5, RegisterBeginKeeps, UsernameExistsKeeps, LoadByNameKeeps
<1>6. ASSUME NEW r \in Reqs, NEW c \in Creds \cup {NoCred}, Verify(r, c)
      PROVE  CeremonyInv'
  BY <1>6, VerifyKeeps
<1>7. ASSUME NEW r \in Reqs,
             SaveFlow(r) \/ ConsumeFlow(r) \/ AddWebAuthnCredential(r)
      PROVE  CeremonyInv'
  BY <1>7, SaveFlowKeeps, ConsumeFlowKeeps, AddWebAuthnCredentialKeeps
<1>8. ASSUME NEW r \in Reqs, CreateUserWithPassword(r) \/ CreateUserWithPasskey(r)
      PROVE  CeremonyInv'
  BY <1>8, CreateUserWithPasswordKeeps, CreateUserWithPasskeyKeeps
<1>9. ASSUME NEW r \in Reqs, IssueSession(r) \/ StoreError(r)
      PROVE  CeremonyInv'
  BY <1>9, FinishKeeps DEF IssueSession, StoreError
<1>10. QED
  BY <1>1, <1>2, <1>3, <1>4, <1>5, <1>6, <1>7, <1>8, <1>9 DEF Next

LEMMA CeremonyInvAlways == Spec => []CeremonyInv
BY CeremonyInvInit, CeremonyInvStep, PTL DEF Spec

-----------------------------------------------------------------------------
\* Every variable keeps its type, and the cache of the provider its bound, for
\* any number of requests and any trusted patterns (ForOrigin and the handlers of
\* internal/auth).
THEOREM CeremoniesTypeCorrect == Spec => []TypeOK
<1>1. CeremonyInv => TypeOK
  BY DEF CeremonyInv
<1>2. QED BY CeremonyInvAlways, <1>1, PTL

\* An account always has a password or a passkey of its own, its name and id are
\* its own, and no passkey is an orphan's, whatever fails and whichever requests
\* race (CreateUserWithPassword, CreateUserWithPasskey, AddWebAuthnCredential).
THEOREM AccountsStayWhole == Spec => []AccountsAreWhole
<1>1. CeremonyInv => AccountsAreWhole
  BY DEF CeremonyInv
<1>2. QED BY CeremonyInvAlways, <1>1, PTL

\* A session is issued only for the account whose passkey was verified or that
\* the same request has created (PasskeyLoginFinish, Signup, PasskeySignupFinish).
THEOREM SessionsStayEarned == Spec => []SessionsAreEarned
<1>1. CeremonyInv => SessionsAreEarned
  BY DEF CeremonyInv, RequestKnows, Known, SessionsAreEarned, At
<1>2. QED BY CeremonyInvAlways, <1>1, PTL

\* The relying party a request works with is that of its origin, whatever the
\* cache has held or lost since the ceremony began (ForOrigin, consumeFlow).
THEOREM CeremoniesKeepTheirRP == Spec => []CeremonyKeepsRP
<1>1. CeremonyInv => CeremonyKeepsRP
  BY DEF CeremonyInv, RequestKnows, RPOf, CeremonyKeepsRP
<1>2. QED BY CeremonyInvAlways, <1>1, PTL

\* Of the finish requests that name one flow at most one gets past ConsumeFlow,
\* before a restart or after it, and that one finishes what was begun: the same
\* kind of ceremony, a registration for the same account.
THEOREM FlowsAreConsumedOnce == Spec => FlowConsumedOnce
<1> DEFINE Once == \A r \in Reqs : req[r].pc = "consume" /\ req'[r].pc = "verify" =>
                     /\ req[r].flow \notin consumed
                     /\ \E f \in flows :
                          /\ f.id = req[r].flow /\ f.kind = FlowKind(req[r].op)
                          /\ f.kind = "register" => f.user = req[r].user
<1>1. CeremonyInv /\ [Next]_vars => [Once]_vars
  <2> SUFFICES ASSUME CeremonyInv, Next,
                      NEW r \in Reqs, req[r].pc = "consume", req'[r].pc = "verify"
               PROVE  /\ req[r].flow \notin consumed
                      /\ \E f \in flows :
                           /\ f.id = req[r].flow /\ f.kind = FlowKind(req[r].op)
                           /\ f.kind = "register" => f.user = req[r].user
    OBVIOUS
  <2>1. Idle.pc # "verify" /\ req \in [Reqs -> Request]
    BY DEF Idle, CeremonyInv, TypeOK
  <2>2. ConsumeFlow(r)
    <3> DEFINE Elsewhere == req'[r] = req[r] \/ req'[r].pc # "verify"
    <3>1. CASE Tick \/ DeleteExpiredFlows \/ Restart
      BY <2>1, <3>1 DEF Tick, DeleteExpiredFlows, Restart
    <3>2. ASSUME NEW s \in Reqs, NEW new, new.pc # "verify",
                 req' = [req EXCEPT ![s] = new]
          PROVE  Elsewhere
      BY <2>1, <3>2
    <3>3. ASSUME NEW s \in Reqs, NEW n \in Names,
                 Signup(s, n) \/ PasskeySignupBegin(s, n)
          PROVE  Elsewhere
      <4>1. [Idle EXCEPT !.op = "signup", !.pc = "check", !.name = n].pc = "check"
        BY DEF Idle
      <4>2. [Idle EXCEPT !.op = "signupBegin", !.pc = "check", !.name = n].pc = "check"
        BY DEF Idle
      <4>3. QED BY <3>2, <3>3, <4>1, <4>2 DEF Signup, PasskeySignupBegin, Arrive
    <3>4. ASSUME NEW s \in Reqs, NEW n, NEW q \in Request, q.pc # "verify",
                 ArriveFor(s, n, q)
          PROVE  Elsewhere
      <4>1. \A o, rp : [q EXCEPT !.origin = o, !.rp = rp].pc = q.pc
        BY DEF Request
      <4>2. \E o, rp : req' = [req EXCEPT ![s] = [q EXCEPT !.origin = o, !.rp = rp]]
        BY <3>4 DEF ArriveFor, Arrive
      <4>3. QED BY <3>2, <3>4, <4>1, <4>2
    <3>5. ASSUME NEW s \in Reqs, NEW n \in Names, PasskeyLoginBegin(s, n)
          PROVE  Elsewhere
      <4>1. LET q == [Idle EXCEPT !.op = "loginBegin", !.pc = "load", !.name = n]
            IN  q \in Request /\ q.pc # "verify"
        BY IdleKnows DEF Idle, Request, Ops
      <4>2. QED BY <3>4, <3>5, <4>1 DEF PasskeyLoginBegin
    <3>6. ASSUME NEW s \in Reqs, PasskeyRegisterBegin(s)
          PROVE  Elsewhere
      <4>1. ASSUME NEW u \in users
            PROVE  LET q == [Idle EXCEPT !.op = "registerBegin", !.pc = "save", !.user = u.id]
                   IN  q \in Request /\ q.pc # "verify"
        BY IdleKnows DEF Idle, Request, Ops, CeremonyInv, TypeOK, User
      <4>2. QED BY <3>4, <3>6, <4>1 DEF PasskeyRegisterBegin
    <3>7. ASSUME NEW s \in Reqs, NEW f \in 1 .. minted,
                 PasskeySignupFinish(s, f) \/ PasskeyLoginFinish(s, f)
                   \/ PasskeyRegisterFinish(s, f)
          PROVE  Elsewhere
      <4>1. \A op, u : [Idle EXCEPT !.op = op, !.pc = "consume", !.flow = f].pc = "consume"
        BY DEF Idle
      <4>2. \A op, u :
              [Idle EXCEPT !.op = op, !.pc = "consume", !.user = u, !.flow = f].pc = "consume"
        BY DEF Idle
      <4>3. QED
        BY <3>2, <3>7, <4>1, <4>2
           DEF PasskeySignupFinish, PasskeyLoginFinish, PasskeyRegisterFinish, Arrive
    <3>8. ASSUME NEW s \in Reqs, UsernameExists(s) \/ LoadByName(s) \/ SaveFlow(s)
          PROVE  Elsewhere
      BY <2>1, <3>8 DEF UsernameExists, LoadByName, SaveFlow, Finish, Goto, Request
    <3>9. ASSUME NEW s \in Reqs, ConsumeFlow(s)
          PROVE  s = r \/ Elsewhere
      BY <2>1, <3>9 DEF ConsumeFlow, Take, Finish
    <3>10. ASSUME NEW s \in Reqs, NEW c \in Creds \cup {NoCred}, Verify(s, c)
           PROVE  s # r
      BY <3>10 DEF Verify
    <3>11. ASSUME NEW s \in Reqs,
                  AddWebAuthnCredential(s) \/ IssueSession(s) \/ StoreError(s)
                    \/ CreateUserWithPassword(s) \/ CreateUserWithPasskey(s)
           PROVE  Elsewhere
      BY <2>1, <3>11 DEF AddWebAuthnCredential, CreateUserWithPassword,
                         CreateUserWithPasskey, IssueSession, StoreError, Finish, Goto, Request
    <3>12. ASSUME NEW s \in Reqs, NEW c \in Creds \cup {NoCred}, Verify(s, c), s # r
           PROVE  Elsewhere
      <4>1. req[s].op \in {"signupFinish", "registerFinish", "loginFinish"}
        BY <3>12 DEF CeremonyInv, RequestKnows, Verify
      <4>2. CASE c = NoCred
        BY <2>1, <3>12, <4>2 DEF Verify, Finish
      <4>3. CASE c # NoCred /\ req[s].op = "signupFinish"
        BY <2>1, <3>12, <4>3 DEF Verify
      <4>4. CASE c # NoCred /\ req[s].op = "registerFinish"
        BY <2>1, <3>12, <4>4 DEF Verify
      <4>5. CASE c # NoCred /\ req[s].op = "loginFinish"
        BY <2>1, <3>12, <4>5 DEF Verify, Finish
      <4>6. QED BY <4>1, <4>2, <4>3, <4>4, <4>5
    <3>13. req[r] # req'[r]
      BY <2>1
    <3>14. QED
      BY <3>1, <3>3, <3>5, <3>6, <3>7, <3>8, <3>9, <3>10, <3>11, <3>12, <3>13 DEF Next
  <2>3. PICK f \in Consumable(r) : Take(r, f)
    BY <2>1, <2>2 DEF ConsumeFlow, Finish
  <2>4. req[r].op = "registerFinish" => f.user = req[r].user
    BY <2>1, <2>3 DEF Take, Finish
  <2>5. req[r].op \in {"signupFinish", "registerFinish", "loginFinish"}
    BY DEF CeremonyInv, RequestKnows
  <2>6. QED BY <2>3, <2>4, <2>5 DEF Consumable, FlowKind, CeremonyInv, FlowsKnow
<1>2. QED BY CeremonyInvAlways, <1>1, PTL DEF Spec, FlowConsumedOnce
=============================================================================
