---------------------------- MODULE TokenBucket ----------------------------
(***************************************************************************)
(* What a per-key rate limiter promises: every key owns a bucket of        *)
(* Capacity units that refills by Rate units a tick; an event costs Cost   *)
(* units and is allowed exactly when the bucket holds them.  There is no   *)
(* memory to reclaim here; RateLimiter, which reclaims it, implements this *)
(* module.                                                                 *)
(***************************************************************************)
EXTENDS Integers

CONSTANTS Keys, Rate, Cost, Capacity

VARIABLES level, now, granted, decision

vars == <<level, now, granted, decision>>

Lower(a, b) == IF a <= b THEN a ELSE b

Init ==
    /\ level = [k \in Keys |-> Capacity]
    /\ now = 0
    /\ granted = [k \in Keys |-> 0]
    /\ decision = <<>>

Tick ==
    /\ now' = now + 1
    /\ level' = [k \in Keys |-> Lower(Capacity, level[k] + Rate)]
    /\ UNCHANGED <<granted, decision>>

Grant(k) ==
    /\ level[k] >= Cost
    /\ level' = [level EXCEPT ![k] = @ - Cost]
    /\ granted' = [granted EXCEPT ![k] = @ + 1]
    /\ decision' = <<k, TRUE>>
    /\ UNCHANGED now

Refuse(k) ==
    /\ level[k] < Cost
    /\ decision' = <<k, FALSE>>
    /\ UNCHANGED <<level, now, granted>>

Next == Tick \/ \E k \in Keys : Grant(k) \/ Refuse(k)

Spec == Init /\ [][Next]_vars
=============================================================================
