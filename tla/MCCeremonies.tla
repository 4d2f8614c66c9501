---------------------------- MODULE MCCeremonies ----------------------------
(***************************************************************************)
(* Two requests at a time that fight over names and authenticators.  Each  *)
(* name's browser comes from a host of its own under one pattern; the      *)
(* configured origin is nobody's.                                          *)
(***************************************************************************)
EXTENDS Ceremonies, TLC

CONSTANTS r1, r2, n1, n2, c1, c2

MCReqs  == {r1, r2}
MCNames == {n1, n2}
MCCreds == {c1, c2}

Host(labels) == [scheme |-> "https", host |-> labels, port |-> 0, upper |-> FALSE]

MCHome           == [n \in MCNames |-> [Host(<<n, "example">>) EXCEPT !.upper = TRUE]]
MCRPID           == <<"app", "test">>
MCRPOrigins      == <<[Host(MCRPID) EXCEPT !.upper = TRUE, !.port = 8080]>>
MCOriginPatterns ==
    {[scheme |-> "https", wild |-> TRUE, host |-> <<"example">>, port |-> 0]}

\* A request without an Origin header, or from the configured origin in any
\* spelling, gets the configured relying party, also when its flow is finished.
ASSUME StaticIsPinned ==
    \A h \in {NoHeader, RPOrigins[1], Lower(RPOrigins[1])} :
        LET begun == ForOrigin(<<>>, h)
        IN  begun.ok /\ begun.rp = Static /\ ForOrigin(<<>>, begun.origin).rp = Static

\* A wildcard stands for one label, with the scheme and the port of its pattern.
ASSUME WildcardIsOneLabel ==
    \A scheme \in {"http", "https"}, port \in {0, 8080},
       host \in {<<>>, <<"example">>, <<"a", "example">>, <<"a", "b", "example">>,
                 <<"a", "example", "evil">>} :
        ForOrigin(<<>>, [scheme |-> scheme, host |-> host, port |-> port, upper |-> TRUE]).ok
            <=> scheme = "https" /\ port = 0 /\ host = <<"a", "example">>

Symmetric == Permutations(MCReqs) \cup Permutations(MCNames) \cup Permutations(MCCreds)
=============================================================================
