\* Overlapping calls on one key, around a full window.
SPECIFICATION Spec
CONSTANTS
    c1 = c1
    c2 = c2
    c3 = c3
    c4 = c4
    Calls = {c1, c2, c3, c4}
    Limit = 2
    Window = 3
    MaxDelay = 1
    MaxTime = 5
SYMMETRY Symmetric
INVARIANTS
    TypeOK
    WindowBound
    DenialJustified
CHECK_DEADLOCK FALSE
