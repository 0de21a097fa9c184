SPECIFICATION Spec
CONSTANTS
    Sessions = {s1, s2, s3}
    Requests = {r1, r2}
    Rejectable = {}
    Opening = {}
    Lossy = {}
    QuickLogin = FALSE
    None = None
PROPERTIES StaysSignedIn
