\* Three requests in both modes of the program, with crashes.
CONSTANTS
    Requests = {r1, r2, r3}
    Emails = {e1, e2}
    None = None
    Old = Old
    Truncated = Truncated
SPECIFICATION LiveSpec
INVARIANTS
    TypeOK
    SpentIsGone
    ResetIsWhole
PROPERTIES
    FileChangesWhole
    RequestsEnd
