SPECIFICATION FairSpec
CONSTANTS
    Sessions = {s1, s2, s3, s4}
    Requests = {r1, r2}
    Rejectable = {r1}
    Opening = {r2}
    Lossy = {r1, r2}
    QuickLogin = TRUE
    None = None
INVARIANTS TypeOK NotStranded
PROPERTIES RequestsEnd
