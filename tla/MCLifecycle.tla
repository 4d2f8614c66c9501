---------------------------- MODULE MCLifecycle ----------------------------
(***************************************************************************)
(* Lifecycle with two instances that boot over one empty database: one     *)
(* that is followed until it exits, and one of an older version.           *)
(***************************************************************************)
EXTENDS Lifecycle, TLC

CONSTANTS p1, p2

MCEmbedded == (p1 :> {1, 2}) @@ (p2 :> {1})

\* A batch with something unusable in it and more violations than are stored, a
\* declared legacy report without its member, and a custom one.
MCSent ==
    {[shape |-> "array", items |-> <<"csp", "malformed", "csp", "csp">>],
     [shape |-> "object", legacy |-> TRUE, member |-> FALSE, named |-> TRUE],
     [shape |-> "object", legacy |-> FALSE, member |-> FALSE, named |-> TRUE]}
=============================================================================
