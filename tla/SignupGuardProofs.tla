------------------------- MODULE SignupGuardProofs -------------------------
(***************************************************************************)
(* For any number of clients and any settings of the two limiters, the     *)
(* guard keeps one client from draining the bucket that everyone shares,   *)
(* and all of them together within that bucket.                            *)
(*                                                                         *)
(* The guard runs either limiter as it is (GuardRunsLimiter and            *)
(* GuardRunsSiteLimiter), so the theorems of RateLimiterProofs hold of     *)
(* both: once by EXTENDS, once as the instance SiteProofs.                 *)
(* PassedWasGranted says that a request beyond the first check is one the  *)
(* per-IP limiter has allowed, AdmissionsAreGrants that the requests let   *)
(* through are those the site-wide one has allowed.                        *)
(***************************************************************************)
EXTENDS SignupGuard, RateLimiterProofs, FiniteSetTheorems

PassedWasGranted ==
    /\ atSite \in [Keys -> Int]
    /\ admitted \in [Keys -> Int]
    /\ \A k \in Keys : admitted[k] + atSite[k] <= granted[k]

LEMMA GuardRunsLimiter == Spec => LimiterSpec
<1>1. Init => LimiterInit
  BY DEF Init
<1>2. [Next]_vars => [LimiterNext]_limiterVars
  BY DEF Next, vars, Elapse, CheckIP, CheckSite, LimiterNext, limiterVars
<1>3. QED BY <1>1, <1>2, PTL DEF Spec, LimiterSpec

LEMMA PassedCheckIP ==
  ASSUME LimiterInv, PassedWasGranted, NEW k \in Keys, CheckIP(k)
  PROVE  PassedWasGranted'
<1>0. granted \in [Keys -> Nat] /\ admitted' = admitted
  BY DEF LimiterInv, LimiterTypeOK, CheckIP
<1>1. CASE granted' = granted
  BY <1>0, <1>1 DEF CheckIP, PassedWasGranted
<1>2. CASE granted' # granted
  <2>1. granted' = [granted EXCEPT ![k] = @ + 1]
    BY <1>2, AllowEffect DEF CheckIP
  <2>2. atSite' = [atSite EXCEPT ![k] = @ + 1]
    BY <1>2 DEF CheckIP
  <2>3. QED BY <1>0, <2>1, <2>2 DEF PassedWasGranted
<1>3. QED BY <1>1, <1>2

LEMMA PassedCheckSite ==
  ASSUME LimiterInv, PassedWasGranted, NEW k \in Keys, CheckSite(k)
  PROVE  PassedWasGranted'
<1>1. /\ atSite' = [atSite EXCEPT ![k] = @ - 1]
      /\ granted' = granted
      /\ granted \in [Keys -> Nat]
      /\ admitted' = admitted \/ admitted' = [admitted EXCEPT ![k] = @ + 1]
  BY DEF CheckSite, LimiterInv, LimiterTypeOK
<1>2. QED BY <1>1 DEF PassedWasGranted

(***************************************************************************)
(* A request that gets past the per-IP limiter has been allowed by it,     *)
(* whatever other requests run between the two checks.                     *)
(***************************************************************************)
THEOREM NothingSkipsThePerIPLimit == Spec => []PassedWasGranted
<1>1. Init => PassedWasGranted
  BY DEF Init, LimiterInit, PassedWasGranted
<1>2. LimiterInv /\ PassedWasGranted /\ [Next]_vars => PassedWasGranted'
  <2> SUFFICES ASSUME LimiterInv, PassedWasGranted, [Next]_vars PROVE PassedWasGranted'
    OBVIOUS
  <2>1. CASE UNCHANGED vars \/ Elapse
    BY <2>1 DEF vars, limiterVars, guardVars, Elapse, Tick, PassedWasGranted
  <2>2. QED BY <2>1, PassedCheckIP, PassedCheckSite DEF Next
<1>3. QED BY <1>1, <1>2, GuardRunsLimiter, LimiterInvariant, PTL DEF Spec

(***************************************************************************)
(* One client takes from the shared bucket no more than its own bucket has *)
(* ever held (signupGuard, server.go:134-150).                             *)
(***************************************************************************)
THEOREM SharedBucketIsProtected == Spec => []NoisyClientCannotDrainSite
<1> DEFINE WindowOfAll == \A k \in Keys : WindowInv(k, 0, 0)
<1>1. LimiterInit => WindowOfAll
  BY InvInit, WindowStart DEF LimiterInit
<1>2. LimiterInv /\ LimiterInv' /\ WindowOfAll /\ [StepConserves]_limiterVars => WindowOfAll'
  BY WindowStep
<1>3. LimiterInv /\ PassedWasGranted /\ WindowOfAll
        => NoisyClientCannotDrainSite
  <2> SUFFICES ASSUME LimiterInv, PassedWasGranted, WindowOfAll, NEW k \in Keys
               PROVE  Cost * (admitted[k] + atSite[k]) <= Capacity + Rate * now
    BY DEF NoisyClientCannotDrainSite
  <2> DEFINE a == admitted[k] + atSite[k]
             b == granted[k]
  <2>1. a \in Int /\ b \in Int /\ a <= b /\ now \in Nat
    BY DEF PassedWasGranted, LimiterInv, LimiterTypeOK
  <2>2. Cost * b <= Capacity + Rate * now
    BY <2>1, WindowInvBounds DEF WindowBound
  <2> HIDE DEF a, b
  <2>3. Cost * b = Cost * a + Cost * (b - a) /\ Cost * (b - a) \in Nat
    BY <2>1, RateLimiterAssumption
  <2>4. Cost * a \in Int /\ Cost * b \in Int /\ Rate * now \in Int
    BY <2>1, RateLimiterAssumption
  <2>5. Cost * a <= Capacity + Rate * now
    BY <2>2, <2>3, <2>4, CapacityType
  <2>6. QED BY <2>5 DEF a
<1>4. QED
  BY <1>1, <1>2, <1>3, GuardRunsLimiter, LimiterInvariant, TokensAreConserved,
     NothingSkipsThePerIPLimit, PTL
  DEF LimiterSpec, TokensConserved

-----------------------------------------------------------------------------
(* The site-wide limiter, another instance of what RateLimiterProofs says. *)

SiteProofs == INSTANCE RateLimiterProofs WITH
                  Keys <- {"global"}, Rate <- SiteRate, Cost <- SiteCost, Burst <- SiteBurst,
                  buckets <- siteBuckets, lastSweep <- siteLastSweep,
                  granted <- siteGranted, decision <- siteDecision

LEMMA SameAllow == Site!Allow("global") => SiteProofs!Allow("global")
BY DEF Site!Allow, Site!Create, Site!Take, Site!Limit, Site!Swept, Site!SweepDue,
       Site!Refill, Site!Capacity, Site!NoBucket,
       SiteProofs!Allow, SiteProofs!Create, SiteProofs!Take, SiteProofs!Limit,
       SiteProofs!Swept, SiteProofs!SweepDue, SiteProofs!Refill, SiteProofs!Capacity,
       SiteProofs!NoBucket

LEMMA GuardRunsSiteLimiter == Spec => SiteProofs!LimiterSpec
<1>1. Init => SiteProofs!LimiterInit
  BY DEF Init, LimiterInit, Site!LimiterInit, Site!NoBucket, SiteProofs!LimiterInit,
         SiteProofs!NoBucket
<1>2. [Next]_vars => [SiteProofs!LimiterNext]_(SiteProofs!limiterVars)
  <2> SUFFICES ASSUME [Next]_vars
               PROVE  [SiteProofs!LimiterNext]_(SiteProofs!limiterVars)
    OBVIOUS
  <2>1. CASE UNCHANGED vars
    BY <2>1 DEF vars, limiterVars, siteVars, SiteProofs!limiterVars
  <2>2. CASE Elapse
    BY <2>2 DEF Elapse, Tick, siteVars, SiteProofs!Tick, SiteProofs!LimiterNext
  <2>3. ASSUME NEW k \in Keys, CheckIP(k)
        PROVE  UNCHANGED SiteProofs!limiterVars
    BY <2>3 DEF CheckIP, Allow, siteVars, SiteProofs!limiterVars
  <2>4. ASSUME NEW k \in Keys, CheckSite(k)
        PROVE  SiteProofs!Allow("global")
    BY <2>4, SameAllow DEF CheckSite
  <2>5. QED BY <2>1, <2>2, <2>3, <2>4 DEF Next, SiteProofs!LimiterNext
<1>3. QED BY <1>1, <1>2, PTL DEF Spec, SiteProofs!LimiterSpec

LEMMA SiteInvariant == Spec => []SiteProofs!LimiterInv
BY GuardRunsSiteLimiter, SiteProofs!LimiterInvariant, SignupGuardAssumption,
   RateLimiterAssumption, PTL

GuardTypeOK ==
    /\ atSite \in [Keys -> 0 .. MaxInFlight]
    /\ admitted \in [Keys -> Nat]

(***************************************************************************)
(* Both limiters' maps stay well formed, and no counter of requests goes   *)
(* below zero, however requests interleave between the two checks.         *)
(***************************************************************************)
THEOREM GuardTypeCorrect == Spec => []TypeOK
<1>1. Init => GuardTypeOK
  BY SignupGuardAssumption DEF Init, GuardTypeOK
<1>2. GuardTypeOK /\ [Next]_vars => GuardTypeOK'
  <2> SUFFICES ASSUME GuardTypeOK, [Next]_vars PROVE GuardTypeOK'
    OBVIOUS
  <2>0. MaxInFlight \in Nat
    BY SignupGuardAssumption
  <2>1. CASE UNCHANGED vars \/ Elapse
    BY <2>1 DEF vars, guardVars, Elapse, GuardTypeOK
  <2>2. ASSUME NEW k \in Keys, CheckIP(k) PROVE GuardTypeOK'
    BY <2>0, <2>2 DEF CheckIP, GuardTypeOK
  <2>3. ASSUME NEW k \in Keys, CheckSite(k) PROVE GuardTypeOK'
    BY <2>0, <2>3 DEF CheckSite, GuardTypeOK
  <2>4. QED BY <2>1, <2>2, <2>3 DEF Next
<1>3. LimiterInv /\ SiteProofs!LimiterInv /\ GuardTypeOK => TypeOK
  BY DEF LimiterInv, SiteProofs!LimiterInv, SiteProofs!LimiterTypeOK, SiteProofs!Bucket,
         SiteProofs!NoBucket, Site!LimiterTypeOK, Site!Bucket, Site!NoBucket,
         GuardTypeOK, TypeOK
<1>4. QED BY <1>1, <1>2, <1>3, GuardRunsLimiter, LimiterInvariant, SiteInvariant, PTL DEF Spec

-----------------------------------------------------------------------------
(* Every request let through is one the site-wide limiter has granted.     *)

AdmissionsAreGrants ==
    /\ admitted \in [Keys -> Nat]
    /\ IsFiniteSet(Admissions)
    /\ Cardinality(Admissions) = siteGranted["global"]

\* One more admission is one more pair.
LEMMA OneMoreAdmission ==
  ASSUME AdmissionsAreGrants, NEW k \in Keys, admitted' = [admitted EXCEPT ![k] = @ + 1]
  PROVE  /\ admitted' \in [Keys -> Nat]
         /\ IsFiniteSet(Admissions')
         /\ Cardinality(Admissions') = Cardinality(Admissions) + 1
<1> DEFINE new == <<k, admitted[k] + 1>>
<1>0. admitted \in [Keys -> Nat] /\ IsFiniteSet(Admissions)
  BY DEF AdmissionsAreGrants
<1>1. admitted' \in [Keys -> Nat] /\ admitted'[k] = admitted[k] + 1
      /\ \A q \in Keys \ {k} : admitted'[q] = admitted[q]
  BY <1>0
<1>2. 1 .. (admitted[k] + 1) = (1 .. admitted[k]) \cup {admitted[k] + 1}
  BY <1>0
<1>3. ASSUME NEW x PROVE x \in Admissions <=> \E q \in Keys : x \in {q} \X (1 .. admitted[q])
  BY DEF Admissions
<1>4. ASSUME NEW x PROVE x \in Admissions' <=> \E q \in Keys : x \in {q} \X (1 .. admitted'[q])
  BY DEF Admissions
<1>5. Admissions' = Admissions \cup {new}
  <2>1. ASSUME NEW x \in Admissions' PROVE x \in Admissions \/ x = new
    <3>1. PICK q \in Keys : x \in {q} \X (1 .. admitted'[q])
      BY <2>1, <1>4
    <3>2. CASE q = k
      BY <3>1, <3>2, <1>1, <1>2, <1>3
    <3>3. CASE q # k
      BY <3>1, <3>3, <1>1, <1>3
    <3>4. QED BY <3>2, <3>3
  <2>2. ASSUME NEW x \in Admissions PROVE x \in Admissions'
    <3>1. PICK q \in Keys : x \in {q} \X (1 .. admitted[q])
      BY <2>2, <1>3
    <3>2. 1 .. admitted[q] \subseteq 1 .. admitted'[q]
      BY <1>0, <1>1
    <3>3. QED BY <3>1, <3>2, <1>4
  <2>3. new \in Admissions'
    <3>1. new \in {k} \X (1 .. admitted'[k])
      BY <1>0, <1>1
    <3>2. QED BY <3>1, <1>4
  <2>4. QED BY <2>1, <2>2, <2>3
<1>6. new \notin Admissions
  <2>1. SUFFICES ASSUME new \in Admissions PROVE FALSE
    OBVIOUS
  <2>2. PICK q \in Keys : new \in {q} \X (1 .. admitted[q])
    BY <2>1, <1>3
  <2>3. q = k /\ admitted[k] + 1 \in 1 .. admitted[k]
    BY <2>2
  <2>4. QED BY <2>3, <1>0
<1>7. QED BY <1>0, <1>1, <1>5, <1>6, FS_AddElement

LEMMA AdmissionsCheckSite ==
  ASSUME SiteProofs!LimiterInv, AdmissionsAreGrants, NEW k \in Keys, CheckSite(k)
  PROVE  AdmissionsAreGrants'
<1>0. siteGranted \in [{"global"} -> Nat]
  BY DEF SiteProofs!LimiterInv, SiteProofs!LimiterTypeOK
<1>1. SiteProofs!Allow("global")
  BY SameAllow DEF CheckSite
<1>2. siteGranted' = siteGranted \/ siteGranted' = [siteGranted EXCEPT !["global"] = @ + 1]
  BY <1>1, SiteProofs!AllowEffect, SignupGuardAssumption, RateLimiterAssumption
<1>3. CASE siteGranted' = siteGranted
  BY <1>3 DEF CheckSite, AdmissionsAreGrants, Admissions
<1>4. CASE siteGranted' # siteGranted
  <2>1. admitted' = [admitted EXCEPT ![k] = @ + 1]
    BY <1>4 DEF CheckSite
  <2>2. siteGranted'["global"] = siteGranted["global"] + 1
    BY <1>0, <1>2, <1>4
  <2>3. QED BY <2>1, <2>2, OneMoreAdmission DEF AdmissionsAreGrants
<1>5. QED BY <1>3, <1>4

(***************************************************************************)
(* The requests let through are as many as the site-wide limiter has       *)
(* granted: none skips the second check, none is counted for two clients.  *)
(***************************************************************************)
THEOREM NothingSkipsTheSiteLimit == Spec => []AdmissionsAreGrants
<1>1. Init => AdmissionsAreGrants
  <2> SUFFICES ASSUME Init PROVE AdmissionsAreGrants
    OBVIOUS
  <2>1. Admissions = {}
    BY DEF Init, Admissions
  <2>2. siteGranted["global"] = 0 /\ admitted \in [Keys -> Nat]
    BY DEF Init, Site!LimiterInit
  <2>3. QED BY <2>1, <2>2, FS_EmptySet DEF AdmissionsAreGrants
<1>2. SiteProofs!LimiterInv /\ AdmissionsAreGrants /\ [Next]_vars => AdmissionsAreGrants'
  <2> SUFFICES ASSUME SiteProofs!LimiterInv, AdmissionsAreGrants, [Next]_vars
               PROVE  AdmissionsAreGrants'
    OBVIOUS
  <2>1. CASE UNCHANGED vars \/ Elapse
    BY <2>1 DEF vars, siteVars, guardVars, Elapse, AdmissionsAreGrants, Admissions
  <2>2. ASSUME NEW k \in Keys, CheckIP(k) PROVE AdmissionsAreGrants'
    BY <2>2 DEF CheckIP, siteVars, AdmissionsAreGrants, Admissions
  <2>3. QED BY <2>1, <2>2, AdmissionsCheckSite DEF Next
<1>3. QED BY <1>1, <1>2, SiteInvariant, PTL DEF Spec

(***************************************************************************)
(* All clients together are let through at most as often as the site-wide  *)
(* bucket has ever held a token, for any number of clients and any         *)
(* interleaving of their requests (signupGuard, server.go:134-150).        *)
(***************************************************************************)
THEOREM SiteIsCapped == Spec => []SiteWideCap
<1> DEFINE Window == SiteProofs!WindowInv("global", 0, 0)
<1>1. SiteProofs!LimiterInit => Window
  <2> SUFFICES ASSUME SiteProofs!LimiterInit PROVE Window
    OBVIOUS
  <2>1. SiteProofs!LimiterInv
    BY SiteProofs!InvInit, SignupGuardAssumption, RateLimiterAssumption
  <2>2. SiteProofs!WindowInv("global", siteGranted["global"], now)
    BY <2>1, SiteProofs!WindowStart, SignupGuardAssumption, RateLimiterAssumption
  <2>3. siteGranted["global"] = 0 /\ now = 0
    BY DEF SiteProofs!LimiterInit
  <2>4. QED BY <2>2, <2>3
<1>2. SiteProofs!LimiterInv /\ SiteProofs!LimiterInv' /\ Window
        /\ [SiteProofs!StepConserves]_(SiteProofs!limiterVars) => Window'
  BY SiteProofs!WindowStep, SignupGuardAssumption, RateLimiterAssumption
<1>3. SiteProofs!LimiterInv /\ AdmissionsAreGrants /\ Window => SiteWideCap
  <2> SUFFICES ASSUME SiteProofs!LimiterInv, AdmissionsAreGrants, Window PROVE SiteWideCap
    OBVIOUS
  <2>1. SiteProofs!WindowBound("global", 0, 0)
    BY SiteProofs!WindowInvBounds, SignupGuardAssumption, RateLimiterAssumption
  <2>2. siteGranted["global"] \in Nat /\ now \in Nat
    BY DEF SiteProofs!LimiterInv, SiteProofs!LimiterTypeOK
  <2>3. siteGranted["global"] - 0 = siteGranted["global"] /\ now - 0 = now
    BY <2>2
  <2>4. QED BY <2>1, <2>3 DEF SiteProofs!WindowBound, SiteProofs!Capacity, Site!Capacity,
                              AdmissionsAreGrants, SiteWideCap
<1>4. QED
  BY <1>1, <1>2, <1>3, GuardRunsSiteLimiter, SiteInvariant, NothingSkipsTheSiteLimit,
     SiteProofs!TokensAreConserved, SignupGuardAssumption, RateLimiterAssumption, PTL
  DEF SiteProofs!LimiterSpec, SiteProofs!TokensConserved

(***************************************************************************)
(* The cap holds over every window as well: from any moment on, all        *)
(* clients together create at most the site-wide burst plus the refill of  *)
(* the time since (signupGuard, Allow, sweep).                             *)
(***************************************************************************)
THEOREM SiteIsCappedInEveryWindow ==
  ASSUME NEW g \in Nat, NEW t \in Nat
  PROVE  Spec => [](Cardinality(Admissions) = g /\ now = t =>
                      [](SiteCost * (Cardinality(Admissions) - g)
                           <= Site!Capacity + SiteRate * (now - t)))
<1> DEFINE Window == SiteProofs!WindowInv("global", g, t)
           Capped == SiteCost * (Cardinality(Admissions) - g)
                       <= Site!Capacity + SiteRate * (now - t)
<1>1. SiteProofs!LimiterInv /\ AdmissionsAreGrants /\ Cardinality(Admissions) = g /\ now = t
        => Window
  <2> SUFFICES ASSUME SiteProofs!LimiterInv, siteGranted["global"] = g, now = t PROVE Window
    BY DEF AdmissionsAreGrants
  <2>1. SiteProofs!WindowInv("global", siteGranted["global"], now)
    BY SiteProofs!WindowStart, SignupGuardAssumption, RateLimiterAssumption
  <2>2. QED BY <2>1
<1>2. SiteProofs!LimiterInv /\ SiteProofs!LimiterInv' /\ Window
        /\ [SiteProofs!StepConserves]_(SiteProofs!limiterVars) => Window'
  BY SiteProofs!WindowStep, SignupGuardAssumption, RateLimiterAssumption
<1>3. SiteProofs!LimiterInv /\ AdmissionsAreGrants /\ Window => Capped
  <2> SUFFICES ASSUME SiteProofs!LimiterInv, AdmissionsAreGrants, Window PROVE Capped
    OBVIOUS
  <2>1. SiteProofs!WindowBound("global", g, t)
    BY SiteProofs!WindowInvBounds, SignupGuardAssumption, RateLimiterAssumption
  <2>2. QED BY <2>1 DEF SiteProofs!WindowBound, SiteProofs!Capacity, Site!Capacity,
                        AdmissionsAreGrants
<1> HIDE DEF Window, Capped
<1>4. Spec => [](Cardinality(Admissions) = g /\ now = t => []Capped)
  BY <1>1, <1>2, <1>3, GuardRunsSiteLimiter, SiteInvariant, NothingSkipsTheSiteLimit,
     SiteProofs!TokensAreConserved, SignupGuardAssumption, RateLimiterAssumption, PTL
  DEF SiteProofs!LimiterSpec, SiteProofs!TokensConserved
<1>5. QED BY <1>4 DEF Capped
=============================================================================
