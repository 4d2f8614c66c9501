---------------------------- MODULE RateLimiter ----------------------------
(***************************************************************************)
(* httpx.RateLimiter (internal/httpx/middleware.go): a token bucket per    *)
(* key, created on first use and dropped by a periodic sweep once it has   *)
(* refilled.  Allow holds the mutex from reading the clock to returning,   *)
(* so a whole Allow, sweep included, is one step.                          *)
(*                                                                         *)
(* Tokens are counted in units of 1/Cost of a token, so that one event     *)
(* costs Cost units and a tick of the clock refills Rate of them: float64  *)
(* arithmetic is replaced by exact arithmetic.                             *)
(***************************************************************************)
EXTENDS Integers

CONSTANTS
    Keys,           \* hashed client IPs, or user IDs
    Rate, Cost,     \* ratePerSec = Rate / Cost
    Burst,          \* burst, in tokens
    SweepInterval   \* sweepInterval, in ticks

ASSUME RateLimiterAssumption ==
    /\ Rate \in Nat
    /\ Cost \in Nat \ {0}
    /\ Burst \in Int
    /\ SweepInterval \in Nat

VARIABLES
    buckets,        \* the map: NoBucket for a key that is not in it
    lastSweep,
    now,            \* rl.now()
    granted,        \* history: events allowed so far, per key
    decision        \* history: key and result of the last Allow

limiterVars == <<buckets, lastSweep, now, granted, decision>>

-----------------------------------------------------------------------------
NoBucket == [tokens |-> -1, last |-> -1]
Bucket   == [tokens : Nat, last : Nat]
Tracked  == {k \in Keys : buckets[k] # NoBucket}

\* NewRateLimiter: a burst below one is one.
Capacity == Cost * (IF Burst < 1 THEN 1 ELSE Burst)

LimiterTypeOK ==
    /\ buckets \in [Keys -> Bucket \cup {NoBucket}]
    /\ lastSweep \in Int
    /\ now \in Nat
    /\ granted \in [Keys -> Nat]

\* lastSweep is the zero time.Time: the first Allow sweeps.
LimiterInit ==
    /\ buckets = [k \in Keys |-> NoBucket]
    /\ lastSweep = -SweepInterval
    /\ now = 0
    /\ granted = [k \in Keys |-> 0]
    /\ decision = <<>>

Refill(b) ==
    LET t == b.tokens + (now - b.last) * Rate
    IN  IF t > Capacity THEN Capacity ELSE t

\* The map and the time of the last sweep after sweep(now).
SweepDue == now - lastSweep >= SweepInterval
SweepAll(k) == IF SweepDue THEN NoBucket ELSE buckets[k]    \* variant: drained ones too
SweepNone(k) == buckets[k]                                  \* variant: none
Swept(k) ==
    IF SweepDue /\ buckets[k] # NoBucket /\ Refill(buckets[k]) >= Capacity
      THEN NoBucket
      ELSE buckets[k]

\* Variant: the first event of a new bucket is free.
CreateFull(k) ==
    /\ Swept(k) = NoBucket
    /\ buckets' = [[q \in Keys |-> Swept(q)] EXCEPT
                     ![k] = [tokens |-> Capacity, last |-> now]]
    /\ granted' = [granted EXCEPT ![k] = @ + 1]
    /\ decision' = <<k, TRUE>>

Create(k) ==
    /\ Swept(k) = NoBucket
    /\ buckets' = [[q \in Keys |-> Swept(q)] EXCEPT
                     ![k] = [tokens |-> Capacity - Cost, last |-> now]]
    /\ granted' = [granted EXCEPT ![k] = @ + 1]
    /\ decision' = <<k, TRUE>>

\* Variant: spends what is not there.
TakeUnchecked(k) ==
    /\ Swept(k) # NoBucket
    /\ buckets' = [[q \in Keys |-> Swept(q)] EXCEPT
                     ![k] = [tokens |-> Refill(buckets[k]) - Cost, last |-> now]]
    /\ granted' = [granted EXCEPT ![k] = @ + 1]
    /\ decision' = <<k, TRUE>>

Take(k) ==
    /\ Swept(k) # NoBucket /\ Refill(buckets[k]) >= Cost
    /\ buckets' = [[q \in Keys |-> Swept(q)] EXCEPT
                     ![k] = [tokens |-> Refill(buckets[k]) - Cost, last |-> now]]
    /\ granted' = [granted EXCEPT ![k] = @ + 1]
    /\ decision' = <<k, TRUE>>

Limit(k) ==
    /\ Swept(k) # NoBucket /\ Refill(buckets[k]) < Cost
    /\ buckets' = [[q \in Keys |-> Swept(q)] EXCEPT
                     ![k] = [tokens |-> Refill(buckets[k]), last |-> now]]
    /\ decision' = <<k, FALSE>>
    /\ UNCHANGED granted

Allow(k) ==
    /\ Create(k) \/ Take(k) \/ Limit(k)
    /\ lastSweep' = IF SweepDue THEN now ELSE lastSweep
    /\ UNCHANGED now

Tick ==
    /\ now' = now + 1
    /\ UNCHANGED <<buckets, lastSweep, granted, decision>>

LimiterNext == Tick \/ \E k \in Keys : Allow(k)

LimiterSpec == LimiterInit /\ [][LimiterNext]_limiterVars

-----------------------------------------------------------------------------
(* Properties.                                                             *)

\* What a key may still spend; a missing bucket counts as a full one.
Level(k) == IF buckets[k] = NoBucket THEN Capacity ELSE Refill(buckets[k])

\* The limiter decides as one that never forgets a bucket: "dropping it changes
\* no decision" (middleware.go:276-279).
Forgetful == INSTANCE TokenBucket WITH level <- [k \in Keys |-> Level(k)]
SweepChangesNoDecision == Forgetful!Spec

\* No tokens out of nothing: what a key has spent and still holds grows by at
\* most Rate a tick, whatever is swept, re-created or refused in between.
StepConserves ==
    \A k \in Keys : Level(k)' + Cost * granted'[k]
                       <= Level(k) + Cost * granted[k] + Rate * (now' - now)
TokensConserved == [][StepConserves]_limiterVars

\* The map holds recently active keys only: a bucket that the last sweep left is
\* one that had not refilled by then (middleware.go:276-279).
OnlyRecentKeysTracked ==
    \A k \in Tracked : \/ buckets[k].last >= lastSweep
                       \/ buckets[k].tokens + (lastSweep - buckets[k].last) * Rate < Capacity
=============================================================================
