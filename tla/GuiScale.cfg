CONSTANTS
    Parents = {p1, p2}
    Scales = {1, 2}
    None = None
    p1 = p1
    p2 = p2
SPECIFICATION Spec
INVARIANTS ScaleFromCreation
