\* One package, one weakness and one finding of the image; two workers, one
\* person, and the backfill.
SPECIFICATION Spec
CONSTANTS
    Code = {c}
    Weak = {f}
    Image = {i}
    Worker = {w1, w2}
    Person = {p}
    Backfill = backfill
    FirstWorlds <- Everything
    MaxTime = 2
    MaxChange = 1
    MaxScan = 2
SYMMETRY Symmetric
INVARIANTS CountsAreTrue HistoryInStep
PROPERTIES OnlyTheAbsentAreClosed RowsAreALedger
