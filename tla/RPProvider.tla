----------------------------- MODULE RPProvider -----------------------------
(***************************************************************************)
(* RPProvider of internal/auth/passkey.go: the relying party for a browser *)
(* origin, the configured one or one derived from an origin that matches a *)
(* trusted pattern (MatchOriginPattern of internal/httpx/middleware.go).   *)
(*                                                                         *)
(* An origin is a record [scheme, host, port, upper]: its host a sequence  *)
(* of labels, port 0 when it has none, upper when it is not spelled in     *)
(* lower case; a pattern has wild for a leading "*." as well.  What is no  *)
(* plain scheme://host[:port] is trusted by nobody and left out.           *)
(***************************************************************************)
EXTENDS Naturals, Sequences, FiniteSets

CONSTANTS
    RPID,               \* the configured relying-party id, a sequence of labels
    RPOrigins,          \* and its origins, a sequence
    OriginPatterns,
    MaxDerived          \* maxDerivedRPs (256)

ASSUME RPProviderAssumption == 1 \in DOMAIN RPOrigins /\ MaxDerived \in Nat \ {0}

-----------------------------------------------------------------------------
NoHeader == [scheme |-> "", host |-> <<>>, port |-> 0, upper |-> FALSE]
Lower(o) == [o EXCEPT !.upper = FALSE]

Static        == [id |-> RPID, origins |-> {RPOrigins[i] : i \in DOMAIN RPOrigins}]
StaticDefault == RPOrigins[1]
StaticOrigins == {Lower(RPOrigins[i]) : i \in DOMAIN RPOrigins}

\* "*" stands for one label; ports are compared with the rest of the host.
MatchOriginPattern(pat, o) ==
    /\ pat.scheme = o.scheme /\ pat.port = o.port
    /\ IF pat.wild THEN o.host # <<>> /\ Tail(o.host) = pat.host ELSE o.host = pat.host

Trusted(o) == \E pat \in OriginPatterns : MatchOriginPattern(pat, o)

\* hostOfOrigin drops the port; the library is given this one origin.
DerivedRP(o) == [id |-> o.host, origins |-> {o}]

\* Variant: the instance is shared by all origins of a pattern.
CachedByPattern(cache, o) ==
    IF \E c \in DOMAIN cache, pat \in OriginPatterns :
         MatchOriginPattern(pat, c) /\ MatchOriginPattern(pat, o)
      THEN [x \in {o} |-> cache[CHOOSE c \in DOMAIN cache : TRUE]]
      ELSE [x \in {o} |-> DerivedRP(o)]

\* Variant: the cache is never emptied.
CachedForEver(cache, o) ==
    [x \in DOMAIN cache \cup {o} |-> IF x \in DOMAIN cache THEN cache[x] ELSE DerivedRP(o)]

\* The cache byOrigin once derived(o) has returned: a full one is emptied first.
Cached(cache, o) ==
    IF o \in DOMAIN cache THEN cache
    ELSE LET kept == IF Cardinality(DOMAIN cache) >= MaxDerived THEN {}
                     ELSE DOMAIN cache
         IN  [x \in kept \cup {o} |-> IF x = o THEN DerivedRP(o) ELSE cache[x]]

\* What ForOrigin returns, the origin being what a flow keeps, and leaves cached.
ForOrigin(cache, header) ==
    LET o == Lower(header)
    IN  CASE o = NoHeader ->
               [ok |-> TRUE, rp |-> Static, origin |-> StaticDefault, cache |-> cache]
          [] o # NoHeader /\ o \in StaticOrigins ->
               [ok |-> TRUE, rp |-> Static, origin |-> o, cache |-> cache]
          [] o # NoHeader /\ o \notin StaticOrigins /\ Trusted(o) ->
               [ok |-> TRUE, rp |-> Cached(cache, o)[o], origin |-> o,
                cache |-> Cached(cache, o)]
          [] OTHER ->
               [ok |-> FALSE, rp |-> Static, origin |-> o, cache |-> cache]
=============================================================================
