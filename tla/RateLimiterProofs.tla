------------------------- MODULE RateLimiterProofs -------------------------
(***************************************************************************)
(* Theorems about RateLimiter, for any keys, rate, burst and interval.     *)
(*                                                                         *)
(* The inductive invariant LimiterInv adds to the types that no bucket and *)
(* no sweep is dated in the future and that no bucket holds more than the  *)
(* capacity.  Everything else follows from the effect of one Allow on      *)
(* Level, the units a key may still spend: AllowEffect says that an Allow  *)
(* of k moves only Level(k), by the cost of the event it allows, whatever  *)
(* the sweep in it drops.                                                  *)
(***************************************************************************)
EXTENDS RateLimiter, TLAPS

LimiterInv ==
    /\ LimiterTypeOK
    /\ lastSweep <= now
    /\ \A k \in Tracked : buckets[k].last <= now /\ buckets[k].tokens <= Capacity
    /\ OnlyRecentKeysTracked

-----------------------------------------------------------------------------
(* Arithmetic.                                                             *)

LEMMA CapacityType == Capacity \in Nat /\ Cost <= Capacity
<1>1. CASE Burst < 1
  BY <1>1, RateLimiterAssumption DEF Capacity
<1>2. CASE ~(Burst < 1)
  <2>1. Burst \in Nat /\ Burst - 1 \in Nat /\ Cost \in Nat
    BY <1>2, RateLimiterAssumption
  <2>2. Cost * Burst = Cost + Cost * (Burst - 1)
    BY <2>1
  <2>3. Cost * (Burst - 1) \in Nat
    BY <2>1
  <2>4. QED BY <1>2, <2>1, <2>2, <2>3 DEF Capacity
<1>3. QED BY <1>1, <1>2

LEMMA RateTimes == \A d \in Nat : d * Rate \in Nat /\ (d + 1) * Rate = d * Rate + Rate
BY RateLimiterAssumption

LEMMA RefillType ==
  ASSUME NEW b \in Bucket, b.last <= now, now \in Nat
  PROVE  /\ Refill(b) \in Nat
         /\ Refill(b) <= Capacity
         /\ Refill(b) < Capacity => b.tokens + (now - b.last) * Rate < Capacity
<1>1. b.tokens \in Nat /\ b.last \in Nat /\ now - b.last \in Nat
  BY DEF Bucket
<1>2. (now - b.last) * Rate \in Nat
  BY <1>1, RateTimes
<1>3. QED BY <1>1, <1>2, CapacityType DEF Refill

\* A bucket written now holds what was written.
LEMMA RefillNow ==
  ASSUME NEW t \in Nat, t <= Capacity, now \in Nat
  PROVE  Refill([tokens |-> t, last |-> now]) = t
<1>1. (now - now) * Rate = 0
  BY RateLimiterAssumption
<1>2. QED BY <1>1, CapacityType DEF Refill

LEMMA SweptOrKept ==
  ASSUME NEW k \in Keys
  PROVE  \/ Swept(k) = buckets[k]
         \/ Swept(k) = NoBucket /\ buckets[k] # NoBucket /\ Refill(buckets[k]) >= Capacity
BY DEF Swept

LEMMA LevelType ==
  ASSUME LimiterInv, NEW k \in Keys
  PROVE  Level(k) \in Nat /\ Level(k) <= Capacity
<1>1. CASE buckets[k] = NoBucket
  BY <1>1, CapacityType DEF Level
<1>2. CASE buckets[k] # NoBucket
  <2>1. buckets[k] \in Bucket /\ buckets[k].last <= now /\ now \in Nat
    BY <1>2 DEF LimiterInv, LimiterTypeOK, Tracked
  <2>2. QED BY <1>2, <2>1, RefillType DEF Level
<1>3. QED BY <1>1, <1>2
-----------------------------------------------------------------------------
(* The effect of the two kinds of steps on Level.                          *)

LEMMA BucketFacts ==
  ASSUME LimiterInv, NEW k \in Keys, buckets[k] # NoBucket
  PROVE  buckets[k] \in Bucket /\ buckets[k].last <= now /\ buckets[k].tokens <= Capacity
BY DEF LimiterInv, LimiterTypeOK, Tracked

\* The bucket an Allow of k writes, and the one it keeps for any other key.
LEMMA AllowBuckets ==
  ASSUME LimiterInv, NEW k \in Keys, Allow(k)
  PROVE  /\ buckets' \in [Keys -> Bucket \cup {NoBucket}]
         /\ \A q \in Keys \ {k} : buckets'[q] = Swept(q)
         /\ \E t \in Nat :
              /\ buckets'[k] = [tokens |-> t, last |-> now]
              /\ t <= Capacity
              /\ \/ t = Level(k) - Cost /\ granted' = [granted EXCEPT ![k] = @ + 1]
                    /\ decision' = <<k, TRUE>>
                 \/ Level(k) < Cost /\ t = Level(k) /\ granted' = granted
                    /\ decision' = <<k, FALSE>>
<1> DEFINE kept == [q \in Keys |-> Swept(q)]
<1>0. now \in Nat /\ Cost \in Nat /\ buckets \in [Keys -> Bucket \cup {NoBucket}]
  BY RateLimiterAssumption DEF LimiterInv, LimiterTypeOK
<1>1. kept \in [Keys -> Bucket \cup {NoBucket}]
  BY <1>0 DEF Swept
<1>2. ASSUME NEW t \in Nat, buckets' = [kept EXCEPT ![k] = [tokens |-> t, last |-> now]]
      PROVE  /\ buckets' \in [Keys -> Bucket \cup {NoBucket}]
             /\ \A q \in Keys \ {k} : buckets'[q] = Swept(q)
             /\ buckets'[k] = [tokens |-> t, last |-> now]
  <2>1. [tokens |-> t, last |-> now] \in Bucket
    BY <1>0 DEF Bucket
  <2>2. buckets' \in [Keys -> Bucket \cup {NoBucket}]
    BY <1>1, <1>2, <2>1
  <2>3. \A q \in Keys \ {k} : buckets'[q] = Swept(q)
    BY <1>2
  <2>4. QED BY <1>1, <1>2, <2>2, <2>3
<1>3. CASE Create(k)
  <2>1. Level(k) = Capacity
    <3>1. CASE buckets[k] = NoBucket
      BY <3>1 DEF Level
    <3>2. CASE buckets[k] # NoBucket
      <4>1. Refill(buckets[k]) >= Capacity
        BY <1>3, <3>2, SweptOrKept DEF Create
      <4>2. Refill(buckets[k]) \in Nat /\ Refill(buckets[k]) <= Capacity
        BY <1>0, <3>2, BucketFacts, RefillType
      <4>3. QED BY <3>2, <4>1, <4>2, CapacityType DEF Level
    <3>3. QED BY <3>1, <3>2
  <2>2. Capacity - Cost \in Nat /\ Capacity - Cost <= Capacity
    BY <1>0, CapacityType
  <2>3. buckets' = [kept EXCEPT ![k] = [tokens |-> Capacity - Cost, last |-> now]]
    BY <1>3 DEF Create
  <2>4. granted' = [granted EXCEPT ![k] = @ + 1] /\ decision' = <<k, TRUE>>
    BY <1>3 DEF Create
  <2>5. QED BY <1>2, <2>1, <2>2, <2>3, <2>4
<1>4. ASSUME Swept(k) # NoBucket
      PROVE  Level(k) = Refill(buckets[k])
  BY <1>4, SweptOrKept DEF Level
<1>5. CASE Take(k)
  <2>1. Level(k) = Refill(buckets[k]) /\ Refill(buckets[k]) >= Cost
    BY <1>4, <1>5 DEF Take
  <2>2. Level(k) - Cost \in Nat /\ Level(k) - Cost <= Capacity
    BY <1>0, <2>1, LevelType, CapacityType
  <2>3. buckets' = [kept EXCEPT ![k] = [tokens |-> Level(k) - Cost, last |-> now]]
    BY <1>5, <2>1 DEF Take
  <2>4. granted' = [granted EXCEPT ![k] = @ + 1] /\ decision' = <<k, TRUE>>
    BY <1>5 DEF Take
  <2>5. QED BY <1>2, <2>2, <2>3, <2>4
<1>6. CASE Limit(k)
  <2>1. Level(k) = Refill(buckets[k]) /\ Refill(buckets[k]) < Cost
    BY <1>4, <1>6 DEF Limit
  <2>2. Level(k) \in Nat /\ Level(k) <= Capacity
    BY LevelType
  <2>3. buckets' = [kept EXCEPT ![k] = [tokens |-> Level(k), last |-> now]]
    BY <1>6, <2>1 DEF Limit
  <2>4. granted' = granted /\ decision' = <<k, FALSE>>
    BY <1>6 DEF Limit
  <2>5. QED BY <1>2, <2>1, <2>2, <2>3, <2>4
<1>7. QED BY <1>3, <1>5, <1>6 DEF Allow

\* An Allow of k moves the level of k only, and by the cost of what it allows.
LEMMA AllowEffect ==
  ASSUME LimiterInv, NEW k \in Keys, Allow(k)
  PROVE  /\ now' = now
         /\ \A q \in Keys \ {k} : Level(q)' = Level(q)
         /\ \/ /\ Level(k) >= Cost /\ Level(k)' = Level(k) - Cost
               /\ granted' = [granted EXCEPT ![k] = @ + 1] /\ decision' = <<k, TRUE>>
            \/ /\ Level(k) < Cost /\ Level(k)' = Level(k)
               /\ granted' = granted /\ decision' = <<k, FALSE>>
<1>0. now' = now /\ now \in Nat /\ Cost \in Nat
  BY RateLimiterAssumption DEF Allow, LimiterInv, LimiterTypeOK
<1>1. ASSUME NEW q \in Keys \ {k} PROVE Level(q)' = Level(q)
  <2>1. buckets'[q] = Swept(q)
    BY AllowBuckets
  <2>2. CASE Swept(q) = buckets[q]
    BY <1>0, <2>1, <2>2 DEF Level, Refill
  <2>3. CASE Swept(q) = NoBucket /\ buckets[q] # NoBucket /\ Refill(buckets[q]) >= Capacity
    <3>1. Refill(buckets[q]) \in Nat /\ Refill(buckets[q]) <= Capacity
      BY <1>0, <2>3, BucketFacts, RefillType
    <3>2. Level(q) = Capacity
      BY <2>3, <3>1, CapacityType DEF Level
    <3>3. Level(q)' = Capacity
      BY <2>1, <2>3 DEF Level, Capacity
    <3>4. QED BY <3>2, <3>3
  <2>4. QED BY <2>2, <2>3, SweptOrKept
<1>2. ASSUME NEW t \in Nat, t <= Capacity, buckets'[k] = [tokens |-> t, last |-> now]
      PROVE  Level(k)' = t
  <2>1. [tokens |-> t, last |-> now] # NoBucket
    BY <1>0 DEF NoBucket
  <2>2. Refill(buckets[k])' = Refill([tokens |-> t, last |-> now])
    BY <1>0, <1>2 DEF Refill, Capacity
  <2>3. QED BY <1>0, <1>2, <2>1, <2>2, RefillNow DEF Level, NoBucket
<1>3. PICK t \in Nat :
         /\ buckets'[k] = [tokens |-> t, last |-> now]
         /\ t <= Capacity
         /\ \/ t = Level(k) - Cost /\ granted' = [granted EXCEPT ![k] = @ + 1]
               /\ decision' = <<k, TRUE>>
            \/ Level(k) < Cost /\ t = Level(k) /\ granted' = granted
               /\ decision' = <<k, FALSE>>
  BY AllowBuckets
<1>4. Level(k)' = t /\ Level(k) \in Nat
  BY <1>2, <1>3, LevelType
<1>5. t = Level(k) - Cost => Level(k) >= Cost
  BY <1>0, <1>4
<1>6. QED BY <1>0, <1>1, <1>3, <1>4, <1>5, Zenon

\* A tick refills every bucket by Rate, up to the capacity.
LEMMA TickEffect ==
  ASSUME LimiterInv, Tick, NEW k \in Keys
  PROVE  Level(k)' = IF Level(k) + Rate > Capacity THEN Capacity ELSE Level(k) + Rate
<1>0. now \in Nat /\ Rate \in Nat /\ now' = now + 1 /\ buckets' = buckets
  BY RateLimiterAssumption DEF Tick, LimiterInv, LimiterTypeOK
<1>1. CASE buckets[k] = NoBucket
  <2>1. Level(k) = Capacity /\ Level(k)' = Capacity
    BY <1>0, <1>1 DEF Level, Capacity
  <2>2. QED BY <1>0, <2>1, CapacityType
<1>2. CASE buckets[k] # NoBucket
  <2> DEFINE d == now - buckets[k].last
  <2>1. d \in Nat /\ buckets[k].tokens \in Nat /\ buckets[k].last \in Nat
    BY <1>0, <1>2, BucketFacts DEF Bucket
  <2>2. d * Rate \in Nat /\ (d + 1) * Rate = d * Rate + Rate
    BY <2>1, RateTimes
  <2>3. now' - buckets[k].last = d + 1
    BY <1>0, <2>1
  <2> HIDE DEF d
  <2>4. Level(k) = Refill(buckets[k]) /\ Level(k)' = Refill(buckets[k])'
    BY <1>0, <1>2 DEF Level, NoBucket
  <2>5. Refill(buckets[k]) = IF buckets[k].tokens + d * Rate > Capacity
                               THEN Capacity ELSE buckets[k].tokens + d * Rate
    BY DEF Refill, d
  <2>6. Refill(buckets[k])' = IF buckets[k].tokens + (d * Rate + Rate) > Capacity
                                THEN Capacity ELSE buckets[k].tokens + (d * Rate + Rate)
    BY <1>0, <2>2, <2>3 DEF Refill, Capacity
  <2>7. QED BY <1>0, <2>1, <2>2, <2>4, <2>5, <2>6, CapacityType
<1>3. QED BY <1>1, <1>2

-----------------------------------------------------------------------------
(* The invariant.                                                          *)

LEMMA InvInit == LimiterInit => LimiterInv
BY RateLimiterAssumption
   DEF LimiterInit, LimiterInv, LimiterTypeOK, OnlyRecentKeysTracked, Tracked

LEMMA InvAllow ==
  ASSUME LimiterInv, NEW k \in Keys, Allow(k)
  PROVE  LimiterInv'
<1>0. now' = now /\ now \in Nat /\ lastSweep \in Int /\ lastSweep <= now
  BY DEF Allow, LimiterInv, LimiterTypeOK
<1>1. lastSweep' \in Int /\ lastSweep' <= now' /\ (lastSweep' = lastSweep \/ lastSweep' = now)
  BY <1>0 DEF Allow
<1>2. granted' \in [Keys -> Nat]
  <2>1. granted' = granted \/ granted' = [granted EXCEPT ![k] = @ + 1]
    BY AllowEffect
  <2>2. granted \in [Keys -> Nat]
    BY DEF LimiterInv, LimiterTypeOK
  <2>3. QED BY <2>1, <2>2
<1>3. buckets' \in [Keys -> Bucket \cup {NoBucket}]
  BY AllowBuckets
<1>4. buckets'[k].last = now /\ buckets'[k].tokens <= Capacity
  <2>1. PICK t \in Nat : buckets'[k] = [tokens |-> t, last |-> now] /\ t <= Capacity
    BY AllowBuckets
  <2>2. QED BY <2>1
<1>5. ASSUME NEW q \in Keys \ {k}, buckets'[q] # NoBucket
      PROVE  buckets'[q] = buckets[q] /\ buckets[q] # NoBucket /\ q \in Tracked
  BY <1>5, AllowBuckets, SweptOrKept DEF Tracked
<1>6. ASSUME NEW q \in Tracked'
      PROVE  buckets'[q].last <= now' /\ buckets'[q].tokens <= Capacity
  BY <1>0, <1>4, <1>5, <1>6, BucketFacts DEF Tracked
<1>7. ASSUME NEW q \in Tracked'
      PROVE  \/ buckets'[q].last >= lastSweep'
             \/ buckets'[q].tokens + (lastSweep' - buckets'[q].last) * Rate < Capacity
  <2>1. CASE q = k
    BY <1>0, <1>1, <1>4, <2>1
  <2>2. CASE q # k
    <3>1. q \in Keys \ {k} /\ buckets'[q] # NoBucket
      BY <1>7, <2>2 DEF Tracked
    <3>2. buckets'[q] = buckets[q] /\ buckets[q] # NoBucket /\ q \in Tracked /\ q \in Keys
      BY <1>5, <3>1
    <3>3. CASE ~SweepDue
      BY <1>0, <3>2, <3>3 DEF Allow, LimiterInv, OnlyRecentKeysTracked
    <3>4. CASE SweepDue
      <4>1. lastSweep' = now
        BY <3>4 DEF Allow
      <4>2. ~(Refill(buckets[q]) >= Capacity)
        BY <3>1, <3>2, <3>4, AllowBuckets DEF Swept
      <4>3. buckets[q] \in Bucket /\ buckets[q].last <= now
        BY <3>2, BucketFacts
      <4>4. Refill(buckets[q]) \in Nat
        BY <1>0, <4>3, RefillType
      <4>5. Refill(buckets[q]) < Capacity
        BY <4>2, <4>4, CapacityType
      <4>6. buckets[q].tokens + (now - buckets[q].last) * Rate < Capacity
        BY <1>0, <4>3, <4>5, RefillType
      <4>7. QED BY <3>2, <4>1, <4>6
    <3>5. QED BY <3>3, <3>4
  <2>3. QED BY <2>1, <2>2
<1>8. LimiterTypeOK'
  BY <1>0, <1>1, <1>2, <1>3 DEF LimiterTypeOK, Bucket, NoBucket
<1>9. \A q \in Tracked' : buckets'[q].last <= now' /\ buckets'[q].tokens <= Capacity'
  BY <1>6 DEF Capacity
<1>10. OnlyRecentKeysTracked'
  BY <1>7 DEF OnlyRecentKeysTracked, Capacity
<1>11. QED BY <1>1, <1>8, <1>9, <1>10 DEF LimiterInv

LEMMA InvTick == LimiterInv /\ Tick => LimiterInv'
<1> SUFFICES ASSUME LimiterInv, Tick PROVE LimiterInv'
  OBVIOUS
<1>1. /\ now \in Nat /\ lastSweep \in Int /\ lastSweep <= now /\ now' = now + 1
      /\ UNCHANGED <<buckets, lastSweep, granted>>
  BY DEF Tick, LimiterInv, LimiterTypeOK
<1>2. \A q \in Tracked : buckets[q].last \in Nat
  BY BucketFacts DEF Tracked, Bucket
<1>3. LimiterTypeOK'
  BY <1>1 DEF LimiterInv, LimiterTypeOK, Bucket, NoBucket
<1>4. \A q \in Tracked' : buckets'[q].last <= now' /\ buckets'[q].tokens <= Capacity'
  BY <1>1, <1>2 DEF LimiterInv, Tracked, NoBucket, Capacity
<1>5. OnlyRecentKeysTracked'
  BY <1>1 DEF LimiterInv, OnlyRecentKeysTracked, Tracked, NoBucket, Capacity
<1>6. lastSweep' <= now'
  BY <1>1
<1>7. QED BY <1>3, <1>4, <1>5, <1>6 DEF LimiterInv

LEMMA InvStutter == LimiterInv /\ UNCHANGED limiterVars => LimiterInv'
BY DEF LimiterInv, limiterVars, LimiterTypeOK, OnlyRecentKeysTracked, Tracked,
       Bucket, NoBucket, Capacity

(***************************************************************************)
(* The limiter's data is well formed, no bucket is dated in the future and *)
(* none holds more than the burst, for every key, rate, burst and interval *)
(* (NewRateLimiter, Allow, refill, sweep).                                 *)
(***************************************************************************)
THEOREM LimiterInvariant == LimiterSpec => []LimiterInv
<1>1. LimiterInit => LimiterInv
  BY InvInit
<1>2. LimiterInv /\ [LimiterNext]_limiterVars => LimiterInv'
  BY InvAllow, InvTick, InvStutter DEF LimiterNext
<1>3. QED BY <1>1, <1>2, PTL DEF LimiterSpec

(***************************************************************************)
(* Memory: after a sweep the map holds only keys that had not refilled by  *)
(* then, or that were used since.                                          *)
(***************************************************************************)
THEOREM OnlyRecentKeysAreTracked == LimiterSpec => []OnlyRecentKeysTracked
<1>1. LimiterInv => OnlyRecentKeysTracked
  BY DEF LimiterInv
<1>2. QED BY <1>1, LimiterInvariant, PTL

-----------------------------------------------------------------------------
(* What the steps do to the tokens.                                        *)

(***************************************************************************)
(* Tokens are never made out of nothing: per key, what is spent and what   *)
(* is left grow by at most Rate a tick, also across a sweep that drops the *)
(* bucket and the request that creates it again.                           *)
(***************************************************************************)
THEOREM TokensAreConserved == LimiterSpec => TokensConserved
<1>1. ASSUME LimiterInv, Tick PROVE StepConserves
  <2> SUFFICES ASSUME NEW k \in Keys
               PROVE  Level(k)' + Cost * granted'[k]
                        <= Level(k) + Cost * granted[k] + Rate * (now' - now)
    BY DEF StepConserves
  <2>1. Level(k)' <= Level(k) + Rate /\ Level(k)' \in Int
    BY <1>1, TickEffect, LevelType, CapacityType, RateLimiterAssumption
  <2>2. granted' = granted /\ now' - now = 1
    BY <1>1 DEF Tick, LimiterInv, LimiterTypeOK
  <2>3. Rate * (now' - now) = Rate
    BY <2>2, RateLimiterAssumption
  <2>4. Cost * granted[k] \in Int
    BY <1>1, RateLimiterAssumption DEF LimiterInv, LimiterTypeOK
  <2>5. Level(k) \in Int
    BY <1>1, LevelType
  <2>6. QED BY <2>1, <2>2, <2>3, <2>4, <2>5, RateLimiterAssumption
<1>2. ASSUME LimiterInv, NEW k \in Keys, Allow(k) PROVE StepConserves
  <2> SUFFICES ASSUME NEW q \in Keys
               PROVE  Level(q)' + Cost * granted'[q]
                        <= Level(q) + Cost * granted[q] + Rate * (now' - now)
    BY DEF StepConserves
  <2>1. Rate * (now' - now) = 0
    BY <1>2, RateLimiterAssumption DEF Allow, LimiterInv, LimiterTypeOK
  <2>2. granted \in [Keys -> Nat] /\ Cost \in Nat
    BY <1>2, RateLimiterAssumption DEF LimiterInv, LimiterTypeOK
  <2>3. Level(q) \in Int /\ Cost * granted[q] \in Int
    BY <1>2, <2>2, LevelType
  <2>4. CASE q # k
    <3>1. Level(q)' = Level(q) /\ granted'[q] = granted[q]
      BY <1>2, <2>2, <2>4, AllowEffect
    <3>2. QED BY <2>1, <2>3, <3>1
  <2>5. CASE q = k
    <3>1. CASE Level(k)' = Level(k) - Cost /\ granted' = [granted EXCEPT ![k] = @ + 1]
      <4>1. granted'[q] = granted[q] + 1
        BY <2>2, <2>5, <3>1
      <4>2. Cost * (granted[q] + 1) = Cost * granted[q] + Cost
        BY <2>2
      <4>3. QED BY <2>1, <2>2, <2>3, <2>5, <3>1, <4>1, <4>2
    <3>2. CASE Level(k)' = Level(k) /\ granted' = granted
      BY <2>1, <2>3, <2>5, <3>2
    <3>3. QED BY <1>2, <3>1, <3>2, AllowEffect
  <2>6. QED BY <2>4, <2>5
<1>3. LimiterInv /\ [LimiterNext]_limiterVars => [StepConserves]_limiterVars
  BY <1>1, <1>2 DEF LimiterNext
<1>4. QED BY <1>3, LimiterInvariant, PTL DEF LimiterSpec, TokensConserved
\* The burst and the rate since a moment at which g events had been allowed.
WindowBound(k, g, t) == Cost * (granted[k] - g) <= Capacity + Rate * (now - t)
WindowInv(k, g, t)   == Cost * granted[k] + Level(k) <= Cost * g + Capacity + Rate * (now - t)

LEMMA LevelIsNat == LimiterInv => \A k \in Keys : Level(k) \in Nat
BY LevelType

LEMMA NextLevelIsNat == LimiterInv' => (\A k \in Keys : Level(k) \in Nat)'
BY LevelIsNat, PTL

LEMMA TimesInt == \A d \in Int : Cost * d \in Int /\ Rate * d \in Int
BY RateLimiterAssumption

LEMMA WindowStart ==
  ASSUME LimiterInv, NEW k \in Keys
  PROVE  WindowInv(k, granted[k], now)
<1>1. Rate * (now - now) = 0
  BY RateLimiterAssumption DEF LimiterInv, LimiterTypeOK
<1>2. Level(k) <= Capacity /\ Level(k) \in Nat /\ Cost * granted[k] \in Int
  BY LevelType, TimesInt DEF LimiterInv, LimiterTypeOK
<1>3. QED BY <1>1, <1>2, CapacityType DEF WindowInv

LEMMA WindowStep ==
  ASSUME NEW k \in Keys, NEW g \in Nat, NEW t \in Nat,
         LimiterInv, LimiterInv', WindowInv(k, g, t), [StepConserves]_limiterVars
  PROVE  WindowInv(k, g, t)'
<1>1. CASE UNCHANGED limiterVars
  BY <1>1 DEF limiterVars, WindowInv, Level, Refill, Capacity, NoBucket
<1>2. CASE StepConserves
  <2> DEFINE n == now
             m == now'
             G == granted[k]
             H == granted'[k]
  <2>1. n \in Nat /\ m \in Nat /\ G \in Nat /\ H \in Nat
    BY DEF LimiterInv, LimiterTypeOK
  <2>2. Level(k)' + Cost * H <= Level(k) + Cost * G + Rate * (m - n)
    BY <1>2 DEF StepConserves
  <2>3. Cost * G + Level(k) <= Cost * g + Capacity + Rate * (n - t)
    BY DEF WindowInv
  <2>4. Level(k) \in Int /\ Level(k)' \in Int
    BY LevelIsNat, NextLevelIsNat
  <2> HIDE DEF n, m, G, H
  <2>5. Rate * (m - t) = Rate * (m - n) + Rate * (n - t)
    BY <2>1, RateLimiterAssumption
  <2>6. Rate * (m - n) \in Int /\ Rate * (n - t) \in Int /\ Cost * G \in Int /\ Cost * H \in Int
        /\ Cost * g \in Int
    BY TimesInt, <2>1
  <2>7. Cost * H + Level(k)' <= Cost * g + Capacity + Rate * (m - t)
    BY <2>2, <2>3, <2>4, <2>5, <2>6, CapacityType
  <2>8. QED BY <2>7 DEF WindowInv, H, m, Capacity
<1>3. QED BY <1>1, <1>2

LEMMA WindowInvBounds ==
  ASSUME NEW k \in Keys, NEW g \in Nat, NEW t \in Nat, LimiterInv, WindowInv(k, g, t)
  PROVE  WindowBound(k, g, t)
<1>1. granted[k] \in Nat /\ now \in Nat /\ Level(k) \in Nat
  BY LevelIsNat DEF LimiterInv, LimiterTypeOK
<1>2. Cost * (granted[k] - g) = Cost * granted[k] - Cost * g
  BY <1>1, RateLimiterAssumption
<1>3. Cost * granted[k] \in Int /\ Cost * g \in Int /\ Rate * (now - t) \in Int
  BY TimesInt, <1>1
<1>4. QED BY <1>1, <1>2, <1>3, CapacityType DEF WindowInv, WindowBound

(***************************************************************************)
(* The rate holds over every window, not only over the whole run: from any *)
(* moment on, a key is allowed at most its burst plus the refill of the    *)
(* time since, whatever is swept in between (Allow, refill, sweep).        *)
(***************************************************************************)
THEOREM RateHoldsInEveryWindow ==
  ASSUME NEW k \in Keys, NEW g \in Nat, NEW t \in Nat
  PROVE  LimiterSpec => [](granted[k] = g /\ now = t => []WindowBound(k, g, t))
<1>1. LimiterInv /\ granted[k] = g /\ now = t => WindowInv(k, g, t)
  BY WindowStart
<1>2. LimiterInv /\ LimiterInv' /\ WindowInv(k, g, t) /\ [StepConserves]_limiterVars
        => WindowInv(k, g, t)'
  BY WindowStep
<1>3. LimiterInv /\ WindowInv(k, g, t) => WindowBound(k, g, t)
  BY WindowInvBounds
<1>4. QED
  BY <1>1, <1>2, <1>3, LimiterInvariant, TokensAreConserved, PTL
  DEF LimiterSpec, TokensConserved

-----------------------------------------------------------------------------
(* The limiter implements one that never drops a bucket.                   *)

LEMMA LevelInit == LimiterInit => Forgetful!Init
<1> SUFFICES ASSUME LimiterInit PROVE Forgetful!Init
  OBVIOUS
<1>1. \A k \in Keys : Level(k) = Capacity
  BY DEF LimiterInit, Level
<1>2. QED BY <1>1 DEF LimiterInit, Forgetful!Init

LEMMA TickSimulates == LimiterInv /\ Tick => Forgetful!Tick
<1> SUFFICES ASSUME LimiterInv, Tick PROVE Forgetful!Tick
  OBVIOUS
<1>1. \A k \in Keys : Level(k)' = Forgetful!Lower(Capacity, Level(k) + Rate)
  <2> SUFFICES ASSUME NEW k \in Keys
               PROVE  Level(k)' = Forgetful!Lower(Capacity, Level(k) + Rate)
    OBVIOUS
  <2>1. Level(k) + Rate \in Int /\ Capacity \in Int
    BY LevelType, CapacityType, RateLimiterAssumption
  <2>2. QED BY <2>1, TickEffect DEF Forgetful!Lower
<1>2. [k \in Keys |-> Level(k)]'
        = [k \in Keys |-> Forgetful!Lower(Capacity, [q \in Keys |-> Level(q)][k] + Rate)]
  BY <1>1
<1>3. QED BY <1>2 DEF Tick, Forgetful!Tick

LEMMA AllowSimulates ==
  ASSUME LimiterInv, NEW k \in Keys, Allow(k)
  PROVE  Forgetful!Grant(k) \/ Forgetful!Refuse(k)
<1> DEFINE level == [q \in Keys |-> Level(q)]
<1>1. now' = now /\ \A q \in Keys \ {k} : Level(q)' = Level(q)
  BY AllowEffect
<1>2. CASE /\ Level(k) >= Cost /\ Level(k)' = Level(k) - Cost
           /\ granted' = [granted EXCEPT ![k] = @ + 1] /\ decision' = <<k, TRUE>>
  <2>1. level' = [level EXCEPT ![k] = @ - Cost]
    BY <1>1, <1>2
  <2>2. QED BY <1>1, <1>2, <2>1 DEF Forgetful!Grant
<1>3. CASE /\ Level(k) < Cost /\ Level(k)' = Level(k)
           /\ granted' = granted /\ decision' = <<k, FALSE>>
  <2>1. level' = level
    BY <1>1, <1>3
  <2>2. QED BY <1>1, <1>3, <2>1 DEF Forgetful!Refuse
<1>4. QED BY <1>2, <1>3, AllowEffect

(***************************************************************************)
(* The sweep changes no decision: the limiter allows and refuses exactly   *)
(* as one whose buckets live for ever, for every schedule of requests      *)
(* (middleware.go:276-279, sweep and Allow).                               *)
(***************************************************************************)
THEOREM SweepIsInvisible == LimiterSpec => SweepChangesNoDecision
<1>1. LimiterInv /\ [LimiterNext]_limiterVars => [Forgetful!Next]_(Forgetful!vars)
  <2> SUFFICES ASSUME LimiterInv, [LimiterNext]_limiterVars
               PROVE  [Forgetful!Next]_(Forgetful!vars)
    OBVIOUS
  <2>1. CASE Tick
    BY <2>1, TickSimulates DEF Forgetful!Next
  <2>2. ASSUME NEW k \in Keys, Allow(k) PROVE Forgetful!Next
    BY <2>2, AllowSimulates DEF Forgetful!Next
  <2>3. CASE UNCHANGED limiterVars
    <3>1. [q \in Keys |-> Level(q)]' = [q \in Keys |-> Level(q)]
      BY <2>3 DEF limiterVars, Level, Refill, Capacity, NoBucket
    <3>2. QED BY <2>3, <3>1 DEF limiterVars, Forgetful!vars
  <2>4. QED BY <2>1, <2>2, <2>3 DEF LimiterNext
<1>2. QED
  BY <1>1, LevelInit, LimiterInvariant, PTL
  DEF LimiterSpec, SweepChangesNoDecision, Forgetful!Spec
=============================================================================
