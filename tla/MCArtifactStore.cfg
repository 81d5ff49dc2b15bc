CONSTANTS
    Reports = {r1}
    Names = {a, b}
    Scanners = {s1, s2}
SPECIFICATION FairSpec
INVARIANTS PublishedIsComplete
PROPERTIES LiveTransactionUntouched PreparedIsRecovered
