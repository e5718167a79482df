\* The same instance; a deletion that stops half-way forgets what was launched.
SPECIFICATION Spec
CONSTANTS
    Process = {p1, p2}
    Slot = {s1, s2}
    Request = {r1, r2}
    MaxPauses = 1
    None = None
SYMMETRY Symmetry
INVARIANT NeverLaunchedTwice
CHECK_DEADLOCK FALSE
