---------------------------- MODULE FindingLedger ----------------------------
(***************************************************************************)
(* What the table of findings of one repository promises, whoever writes   *)
(* it: it changes only by whole reports.  A report speaks of the kinds its *)
(* pass looked for and of nothing else; what it lists is open afterwards,  *)
(* what it does not list is closed, and a finding keeps the date it was    *)
(* first seen for as long as it stays open.  Findings                      *)
(* (handlers/scan_findings.go) is shown to implement this module.          *)
(***************************************************************************)
EXTENDS Naturals

CONSTANTS
    Kinds,      \* the kinds of findings, each a set of identities
    Dates       \* the times a report can be of

VARIABLES
    open,       \* the findings that are open
    first       \* first[i]: when i was first seen, or seen again

vars == <<open, first>>

Ids == UNION Kinds

TypeOK ==
    /\ open \subseteq Ids
    /\ first \in [Ids -> Dates \cup {0}]

Init ==
    /\ open = {}
    /\ first = [i \in Ids |-> 0]

\* A pass that looked for the kinds in `kinds` lists `found`, as of `at`.
Report(kinds, found, at) ==
    /\ open' = (open \ UNION kinds) \cup found
    /\ first' = [i \in Ids |-> IF i \in found \ open THEN at ELSE first[i]]

Next == \E kinds \in SUBSET Kinds :
            \E found \in SUBSET UNION kinds, at \in Dates : Report(kinds, found, at)

Spec == Init /\ [][Next]_vars
=============================================================================
