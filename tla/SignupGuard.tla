---------------------------- MODULE SignupGuard ----------------------------
(***************************************************************************)
(* Deps.signupGuard (internal/server/server.go): an account-creating       *)
(* request passes the per-IP limiter, then the site-wide one, then the     *)
(* handler.  The two limiters have a mutex each, so other requests run     *)
(* between the two checks of one.  The per-IP limiter is the RateLimiter   *)
(* this module extends; the site-wide one is a second instance with the    *)
(* single key "global" and the same clock.                                 *)
(***************************************************************************)
EXTENDS RateLimiter, FiniteSets

CONSTANTS
    SiteRate, SiteCost, SiteBurst,   \* SignupGlobalInterval and -Burst
    MaxTime, MaxInFlight             \* bounds of the run

ASSUME SignupGuardAssumption ==
    /\ SiteRate \in Nat
    /\ SiteCost \in Nat \ {0}
    /\ SiteBurst \in Int
    /\ MaxTime \in Nat /\ MaxInFlight \in Nat

VARIABLES
    siteBuckets, siteLastSweep, siteGranted, siteDecision,
    atSite,       \* per IP, requests between the two checks
    admitted      \* history: requests let through to the handler, per IP

siteVars  == <<siteBuckets, siteLastSweep, siteGranted, siteDecision>>
guardVars == <<atSite, admitted>>
vars == <<limiterVars, siteVars, guardVars>>

Site == INSTANCE RateLimiter WITH
            Keys <- {"global"}, Rate <- SiteRate, Cost <- SiteCost, Burst <- SiteBurst,
            buckets <- siteBuckets, lastSweep <- siteLastSweep,
            granted <- siteGranted, decision <- siteDecision

TypeOK ==
    /\ LimiterTypeOK
    /\ Site!LimiterTypeOK
    /\ atSite \in [Keys -> 0 .. MaxInFlight]
    /\ admitted \in [Keys -> Nat]

Init ==
    /\ LimiterInit
    /\ Site!LimiterInit
    /\ atSite = [k \in Keys |-> 0]
    /\ admitted = [k \in Keys |-> 0]

\* Variants, for the sensitivity checks: a nil limiter on either side.
NoIPLimit(k) ==
    /\ atSite[k] < MaxInFlight
    /\ atSite' = [atSite EXCEPT ![k] = @ + 1]
    /\ UNCHANGED <<limiterVars, siteVars, admitted>>
NoSiteLimit(k) ==
    /\ atSite[k] > 0
    /\ atSite' = [atSite EXCEPT ![k] = @ - 1]
    /\ admitted' = [admitted EXCEPT ![k] = @ + 1]
    /\ UNCHANGED <<limiterVars, siteVars>>

\* SignupIPLimiter.LimitWith: 429, or on to the site-wide guard.
CheckIP(k) ==
    /\ atSite[k] < MaxInFlight
    /\ Allow(k)
    /\ atSite' = IF granted' # granted THEN [atSite EXCEPT ![k] = @ + 1] ELSE atSite
    /\ UNCHANGED <<siteVars, admitted>>

\* SignupGlobalLimiter.LimitWith: 429, or on to the handler.
CheckSite(k) ==
    /\ atSite[k] > 0
    /\ atSite' = [atSite EXCEPT ![k] = @ - 1]
    /\ Site!Allow("global")
    /\ admitted' = IF siteGranted' # siteGranted
                      THEN [admitted EXCEPT ![k] = @ + 1] ELSE admitted
    /\ UNCHANGED <<buckets, lastSweep, now, granted, decision>>

Elapse ==
    /\ now < MaxTime
    /\ Tick
    /\ UNCHANGED <<siteVars, guardVars>>

Next == Elapse \/ \E k \in Keys : CheckIP(k) \/ CheckSite(k)

Spec == Init /\ [][Next]_vars

-----------------------------------------------------------------------------
(* Properties.                                                             *)

\* One client draws from the bucket everyone shares at most what its own bucket
\* has ever held, however its requests interleave with the others' (server.go:
\* 134-137, "before it can drain the global bucket everyone shares").
NoisyClientCannotDrainSite ==
    \A k \in Keys : Cost * (admitted[k] + atSite[k]) <= Capacity + Rate * now

\* The first, second, ... request of each client that was let through.
Admissions == UNION {{k} \X (1 .. admitted[k]) : k \in Keys}

\* All clients together create at most what the site-wide bucket has ever held.
SiteWideCap == SiteCost * Cardinality(Admissions) <= Site!Capacity + SiteRate * now
=============================================================================
