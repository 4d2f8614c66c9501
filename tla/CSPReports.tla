----------------------------- MODULE CSPReports -----------------------------
(***************************************************************************)
(* Normalize of internal/csp/csp.go: which of the items of a report        *)
(* request's body become rows of csp_reports.  What a report says is       *)
(* abstracted; an item is named by its position.                           *)
(***************************************************************************)
EXTENDS Naturals, Sequences, FiniteSets

CONSTANT MaxReports     \* maxReportsPerRequest (20)

ASSUME CSPAssumption == MaxReports \in Nat \ {0}

-----------------------------------------------------------------------------
\* An item of a Reporting API array: a violation, a report of another type, or
\* one that does not unmarshal into a reportingItem.
Items == {"csp", "foreign", "malformed"}

\* "other" is what is neither an array nor an object, or is no JSON at all: an
\* empty body, and one that readAll cut at 64 KiB.
Bodies ==
    [shape : {"array"}, items : Seq(Items)]
        \cup [shape : {"object"},
              legacy : BOOLEAN,       \* Content-Type is application/csp-report
              member : BOOLEAN,       \* has a csp-report member
              named  : BOOLEAN]       \* one of the fields parseCustom needs
        \cup [shape : {"other"}]

\* parseReportingAPI, out after n turns of its loop: foreign and malformed items
\* are skipped.
ReportingItems(items) ==
    LET out[n \in 0..Len(items)] ==
          IF n = 0 THEN <<>>
          ELSE IF items[n] = "csp" THEN Append(out[n - 1], n) ELSE out[n - 1]
    IN  out[Len(items)]

\* parseCustom, which is not asked for a body that is declared to be the legacy one.
IsCustom(b) == ~b.legacy /\ b.named

\* parseObject
ObjectItems(b) == IF b.member \/ IsCustom(b) THEN <<1>> ELSE <<>>

\* An error of Normalize is an empty sequence: nothing is stored either way.
Normalize(b) ==
    CASE b.shape = "array"  -> ReportingItems(b.items)
      [] b.shape = "object" -> ObjectItems(b)
      [] b.shape = "other"  -> <<>>

\* What ServeHTTP stores, in this order.
ToStore(b) ==
    LET reports == Normalize(b)
    IN  IF Len(reports) > MaxReports THEN SubSeq(reports, 1, MaxReports) ELSE reports

-----------------------------------------------------------------------------
\* The items that ought to be stored: the first MaxReports violations, whatever
\* else is delivered with them; of an object, the one it is.
Wanted(b) ==
    CASE b.shape = "array" ->
           {i \in DOMAIN b.items :
              /\ b.items[i] = "csp"
              /\ Cardinality({j \in 1..i : b.items[j] = "csp"}) <= MaxReports}
      [] b.shape = "object" ->
           IF b.member \/ (b.named /\ ~b.legacy) THEN {1} ELSE {}
      [] b.shape = "other" -> {}
=============================================================================
